# Delibird in TLA+

TLA+ specifications, TLC configurations and TLAPS proofs for Delibird, a C program of four
processes that exchange Pokemon messages: a **Broker** with six queues and a payload cache,
any number of **Teams** that catch pokemons, a **GameCard** that keeps them in a file system
of its own (Tall-Grass), and **GameBoy**, a command line client.

Paths below are relative to the repository. Modules name the C functions they translate.

## The system

| Component | State | Operations | Talks to |
|---|---|---|---|
| Broker queues (`broker/src/broker.c` 118-231, 771-1391) | per queue: list of messages, list of subscriptors, receivers of each message with a received flag, two mutexes | `process_request` (publish), `process_new_subscription`, `send_all_messages` (replay on reconnection), `process_message_received` | cache; publishers, subscribers over sockets |
| Broker cache, `PARTICIONES` (73-116, 329-358, 369-542, 620-768) | the memory, the list of partitions, one mutex | store (first fit, compaction, FIFO/LRU eviction, consolidation), look-up by partition id | queues |
| Broker cache, `BS` (233-321, 369-492, 543-671) | the same, partitions with father and side | store (halvings), eviction, merging of buddies | queues |
| Broker dump (1393-1540) | none | report on SIGUSR1 | - |
| GameCard file system (`gamecard/src/gamecard.c` 175-919) | on disk: a metadata file per pokemon (BLOCKS, SIZE, OPEN), blocks, bitmap; in memory: `blocks_available`, three mutexes | one thread per NEW, CATCH, GET message | disk; answers to the broker |
| Team: matcher, planner, trainers (`team/src/matcher.c`, `planner.c`, `trainer.c`, `team.c`) | lists of pokemons to catch, backup, matches; dictionaries of remaining and being caught; trainers with status | appeared/localized/caught handlers, matching, planning (FIFO, RR, SJF), catching | broker |
| Team: exchanges (`resolver.c`, `trainer.c` 152-228, `team.c` 450-506) | `to_deadlock`, `matched_deadlocks`, `queue_deadlock` | detection when a trainer is full, direct exchanges by plan, indirect ones at the end | trainers |
| Subscription clients (Team, GameCard) | a socket per queue | `subscribe_to`, `handle_event`, acknowledgement on a new connection | broker |
| GameBoy, `create_tall_grass`, `operavirus-commons` | none that lasts | send or listen; create the file system; serialize, connect, start threads | all |

What is hard in it, and what must be right:

- **Broker queues.** Connections run in threads of their own. A message is sent to the
  subscribers of that moment, stored, and only then put on its queue; a replay holds
  `mutex_messages` over its loop and takes the cache's mutex once per message; sockets are
  replaced when a subscriber comes back and receiver entries are moved. Right means: a
  subscriber that came back gets what it did not acknowledge, an acknowledged message was
  read, no thread waits for ever.
- **Cache.** Stores of several publishers alternate with replays; what a message points to
  may have been evicted, moved by a compaction or given to another message. Right means:
  the partitions tile the memory, a payload can be read back until it is evicted, and the
  victim is the one the policy names.
- **File system.** Files are locked by a flag on the disk, the bitmap and its counter by a
  mutex, and a handler checks for space long before it takes it. Right means: a file reads
  back as the pokemons put there and not caught, no block has two owners, none is lost.
- **Team.** Mutexes serve as semaphores, counters are read and compared in separate
  critical sections, an answer may come before the id it answers is known. In the exchanges
  several threads search and extend one unprotected list. Right means: one trainer walks at
  a time, what is being caught is what is under way, pokemons are only swapped, and every
  trainer leaves with what it wants.
- **The processes together.** Requests and answers travel through queues that are replayed
  after a reconnection, answers are matched to requests by ids the broker gives, and any
  process may die and be started again. Right means: a request is done once and not
  forgotten, and its answer reaches the trainer that asked.

## Modules

| Module | Models |
|---|---|
| `BrokerQueue` | one of the six identical queues with its publisher, subscription and acknowledgement threads, its mutexes and its subscribers' clients; the cache as a set of partitions of one size |
| `BrokerQueue_proofs` | types, acknowledgements, the leaked mutex and the replays of `BrokerQueue` |
| `MessageCache` | abstract: which payloads are sent as they were stored, which with bytes behind them, which messages are queued |
| `CacheThreads` | the threads of both cache algorithms, the search and the choice of a victim |
| `PartitionMemory` | dynamic partitions; implements `MessageCache` |
| `BuddyMemory` | buddy system; implements `MessageCache` |
| `TallGrass` | the GameCard's handlers on files, blocks and bitmap, with crashes |
| `TeamCatching` | the catching phase of a Team: message handlers, matcher, planner, trainers, and the threads that deal with a catch |
| `PokemonExchange` | abstract: every step that moves pokemons swaps one of each of two trainers that have them |
| `TeamExchange` | the exchanges of a Team, from the moment a trainer is full to the exit of the process; implements `PokemonExchange` |
| `Conversation` | GameBoy, Team, broker and GameCard together: requests, ids, acknowledgements, answers, deaths and restarts |
| `PartitionMemory_proofs`, `BuddyMemory_proofs`, `TallGrass_proofs`, `TeamCatching_proofs`, `TeamExchange_proofs`, `Conversation_proofs` | proofs about the module of that name |
| `NumberTheorems` | the least-number principle and sums over finite sets, for the proof modules |
| `MC...` | the instances TLC checks |

**Grain of atomicity.** A critical section of one mutex is one action. Where a thread keeps
a mutex while it waits for another (acknowledgements, replays, stores, `pokemon_blocks`) the
mutex is a variable with its holder and the steps in between are actions of their own.
Calls on the commons' lists are atomic. State a thread reads before it takes a mutex and
uses after is kept in the thread's record.

**BrokerQueue.** `pub[p]` is a thread in `process_request`/`store_message`: it sends to the
subscribers (`SendToSubscriptors`), stores the payload, evicting first if `Capacity` is
reached (`StorePayload`), makes the receivers list (`ListReceivers`) and puts the message on
the queue (`Enqueue`). `handler[k]` is the thread of subscription connection `k`:
`exist_in_queue` and the insertion are two critical sections, then the override of the
socket, then the replay with one `pick`/`replay`/`move` round per message. A `handler`'s
`entry` stands for the shared `t_subscriptor` pointer, so a later override changes the
socket under the thread. `acks` are acknowledgements on their way, in any order. A client
may leave at any time, with what it has not read. A replay that finds its partition FREE
sends an empty payload, which puts the client's stream out of step with the messages: the
model counts that client as gone.

**CacheThreads, PartitionMemory, BuddyMemory.** `memory` holds, per byte, the message it
belongs to, so that compaction and consolidation can be seen to lose or mix payloads.
`pub[p].pc` follows `store_message` through the search loop: `lock`, `compact`, `find`,
`delete`, `place`, `enqueue`. A replay is `PickMessage` (under the queue's mutex) and
`LookUp` (under the memory's), which sends the first `content_size` bytes of the partition.
`BS` records the payload's size there, `PARTICIONES` the size it rounded up to
`TAMANO_MINIMO_PARTICION` (`ContentSize`), so there a payload under the minimum is sent with
whatever the memory holds behind it. `Exact` and `Readable` tell the two apart, and
`MessageCache` has a set for each. The receiver would take the stray bytes for the next
message. No message is that short with the shipped `broker.config` (minimum 4; the shortest
payload, that of CAUGHT_POKEMON, has 4 bytes), and no doc says that payloads of any size are
kept as they are, so this is stated here and in the property, not as a disagreement;
`BrokerQueue` and `Conversation` take every replayed message to be exact. `index_to_free`
without an initial value is an arbitrary index (`DeleteUndefined`); an index outside the
list kills the process (`Crash`). In `BuddyMemory` the recursion of `consolidate` is
`MergedOnce`, applied as often as there are partitions: a list cannot be merged more often,
and without a FREE buddy it does nothing.

**TallGrass.** `thread[t]` follows a handler: `directory`, `create`, `open`, `read`, `lock`,
`blocks` (one block taken or returned per step), `refill`, `save`, `write` (one block per
step), `close`. Text is a sequence of cells, one per entry or two if its count has a second
digit or a sign, cut into blocks of `BLOCK_SIZE` cells. `-1`, which `get_available_block`
returns when the disk is full and which `pokemon_blocks` uses as a number, is a block like
any other (there is a file `-1.bin`). It is a number of two characters, and
`remove_last_block_from_array` cuts BLOCKS by position, as if all had one: `array` is that
text, beside the list `blocks`; `Cut` and `CommaLeft` do to it what the three characters do.
`[0,-1,-1]` cut twice leaves `[0,-]`, and `atoi` reads `-` (`Dash`) as block 0: the file
then reads block 0 twice, and the next cut frees it while it is owned. `miscut` remembers
that it happened. An entry found twice is treated as the code does, which finds the first
one and changes the last (`FirstOf`, `LastOf`, `Added`, `Caught`). A NEW_POKEMON of count 0
stores `x-y=0`; a later CATCH_POKEMON of that position is answered 1 and stores -1.
`CrashAndRestart` drops the threads and the counter, and keeps the disk. `mkdir` and the
first write of `Metadata.bin` are two steps under `mutexDirectory`; after a crash between
them the directory is there without the file, and the process that reads it dies
(`MetadataMissing`). `cut` remembers the pokemons a crash interrupted.

**TeamCatching.** `message[n]` is a thread of `handle_appeared` or `handle_localized`: it
reads `remaining_pokemons`, counts what was received, decides with what the counters are by
then, and puts the pokemon in the list of those to catch or in the backup. `matcher` is
`match_pokemon_with_trainer`; `LookForMatch` takes the semaphores and mutexes, `ChooseMatch`
picks the closest pair. `Plan` is `planning_catch` with `planner_fifo`, `planner_rr` and
`planner_sjf`. `trainer[t]` is a trainer's thread (`pc`, with the steps `left`) together
with its `t_trainer` and `t_pcb_trainer`. `desalojar` unlocks `mutex_planning` before it
does anything else, so it is five steps, between which the planner, the matcher and
`handle_catch` may run: `StepAndPreempt`, `BecomeReady`, `CheckExec`, `Requeue`, `Resume`;
and `wait_catch` unlocks it before it sets the status (`SendCatch`, `WaitCatch`;
`CatchByDefault`, `DealWithDefault` without a broker). A trainer may be full by the
configuration (`FullAtFirst`); `init_sem` posts a permit for it too, which nobody takes
back. `catch[c]` is what follows a CATCH, the thread that waits for its id
(`receive_message_id`) and the one that counts the result (`handle_catch`). `HandleCaught`
is `handle_caught`, which finds a trainer by the id it holds; `Garbage` is what `malloc`
leaves in `id_message` before one is known. The code initialises `mutex_planning`, each
`sem` and each `sem_caught` as mutexes and locks and unlocks them in different threads; they
are modelled as what they do under the default mutex type, binary semaphores. The mutexes on
lists are derived from the `pc` of the thread that keeps them. Positions are abstracted: any
idle trainer may be the closest, a walk has any number of steps up to `MaxDistance`, and
SJF's estimates compare either way. Where the code follows a pointer that is not set, the
process dies (`Die`). `handle_catch` does not keep the species it is to count but reads
`pokemon_to_catch` of the trainer, which the planner may have set for the next match by
then: `being_caught_pokemons` is then lowered for the wrong species. In the same way a
trainer matched twice may have its second match planned before `desalojar` reads
`pokemon_to_catch` for the first: that one is lost. `misled` is a history of the trainers to
which either happened, or that were preempted and not put back.

**TeamExchange.** Begins when everything is caught or about to be: `Starts` says what each
trainer wants and has once full. Its threads are `main` (creates and lists the trainers,
waits for `sem_all_pokemons_caught`, iterates the matches in `proceed_to_finish`, gathers
who is left and resolves it in `handle_deadlock`), `finisher[t]` (the `handle_catch` thread
that finds trainer `t` full and runs `validate_deadlock`, or the trainer's own thread if the
configuration makes it full, `early`), `trainer[t]` (`swap_pokemons`, with preemption), and
`waiter[m]` (`add_to_queue_deadlocks_wait_status` of match `m`, which waits for the
`sem_deadlock` of both trainers), with `Plan` for `planning_deadlock`. `waiter` and
`executed` are sequences that grow with `matched_deadlocks`. Lists of pokemons are bags. `sem_deadlock` and `mutex_planning_deadlock` are mutexes in the code that one thread
locks and another unlocks; they are modelled as the binary semaphores they are under the
default type. `round` orders the last catches: a trainer of a later round is full later.
Four history variables name what can go wrong between the threads: `overpromised` (a search
adds a match with what its second trainer was promised or promised itself meanwhile),
`hasty` (main goes on while the last search still adds matches), `lost` (`sem_init` after a
post), `crossed` (a match is planned for a trainer that was preempted in another).

**Conversation.** One of the GameCard's three queues per behaviour (`bound.code`), of which
it is the only subscriptor; the broker is `BrokerQueue` without cache and mutexes.
`publishers` are its threads in `process_request`/`store_message` (`SendToSubscriptors`,
`SendToTeam`, `ListReceivers`, `Enqueue`), `subscribing` its subscription threads. `reader`
is the GameCard's thread in `subscribe_to` (receive, `handle_event`, acknowledge); `threads`
are the handlers it starts (`Apply`, `SendAnswer`). A trainer sends CATCH_POKEMON, learns
its id (`receive_message_id`) and waits; `handle_caught` gives the answer to the first
trainer that holds its correlation id. GameCard and broker may die and are started again;
the broker's ids then restart at 1. The GameBoy publishes, or sends a message with any of
`ids` straight to the GameCard. `doubts` remembers, per request, what was in its way: `cut`
(the GameCard died at work on it), `gap` (the subscription changed between its send and its
`list_add`), `overtaken` (an older subscription's thread set the socket last), `early`
(acknowledged before it was queued), `raced` (queued between a subscription's new socket and
its replay), `forged` and `named` (the GameBoy's id was that of somebody else's message),
`hasty` (the answer came before its id was known), `broker died`. `heard` keeps, per trainer,
the requests whose answers woke it. What a replay sends (`Sent`) is a recursive function
along the queue.

## What is checked

| Run | Instance | Shows |
|---|---|---|
| `queue_safe` | 2 publishers, 1 subscriber, 2 messages, 2 connections, nothing evicted | after its replay a subscriber misses only messages that were between send and enqueue when the replay ended (`MissedOnlyInGap`) |
| `queue_live` | 1 publisher, 2 subscribers, 1 message, 2 connections | every subscription, acknowledgement and store ends (`ThreadsEnd`); what `MissedOnlyInGap` promises arrives (`Delivered`) |
| `queue_evict` | a cache for one payload, a subscription that may expire | no flag is wrongly set (`AckSound`); `mutex_messages` leaks only when a replay met a message without a partition |
| `queue_again` | violation; 1 subscriber, 3 connections, `NoOverlap` | what was acknowledged on the first connection is sent again on the third, with no two threads at work at once |
| `partition_memory` | 5 bytes, payloads of 1 and 4, 3 messages, 2 seconds, FIFO and LRU, compaction every 1 or 2 | tiling, payloads kept until evicted, victims by policy, eviction only when full, stores end, `MessageCache` implemented: a look-up sends stray bytes behind a payload exactly if it is under the minimum of 2 |
| `buddy_memory` | 8 bytes, payloads of 1, 3, 5, 3 messages, FIFO and LRU | the buddy structure, buddies merged, payloads of queued messages readable, `MessageCache` implemented |
| `buddy_alias` | violation | an evicted message that is enqueued late stands in for another when its partition id is used again |
| `tall_grass` | 2 pokemons, 2 positions, 2 free blocks of 2 cells, 3 messages at once, counts 0, 1 and 2, 1 crash, a fresh and an overcommitted disk | closed files read back what was stored and own their blocks, also after crashes; the counter is exact; no block leaks; a CATCH takes what is not there only where a NEW of count 0 put none; handlers end, after a crash too but for the pokemons it cut |
| `team_counts` | 3 trainers, one wants 1 of each of two species, one 1 of one of them, one is full by the configuration; 3 pokemons in 2 messages, RR and SJF-CD | one trainer walks at a time; permits exceed the trainers the matcher can find by those full by the configuration at most; `being_caught_pokemons` counts the catches under way of each species until a trainer is `misled`; no counter wraps |
| `team_live` | 2 trainers that want 2 and 1 of one species, 2 pokemons in 2 messages, 1 answer delivered twice, garbage in `id_message`, RR and SJF-CD | a matched trainer gets to its pokemon and the outcome is counted, but for named exceptions |
| `team_exchange` | 8 teams of 4 trainers and 3 species, RR with `QUANTUM` 2 and SJF-CD, `MaxDistance` 0 | every match is executed once; every step that moves pokemons is an exchange of `PokemonExchange`; who leaves has its objective; everybody has it when the process exits, and it exits, but for the named races |
| `conversation` | 8 cases: NEW, CATCH or GET, 1 or 2 requests, up to 2 deaths of the GameCard or 1 of the broker, with and without the GameBoy's own ids | requests are done once and in the end, answers are for what the trainer asked and arrive, but for the named losses |

The bounds. Two connections of one subscriber are the smallest number at which a socket is
overridden, receivers moved and a subscriptor added twice; `queue_again` takes three, the
number at which an acknowledged message is looked for under a socket it was not moved to.
Two publishers are needed for a message that is evicted before it is enqueued. Five bytes
with payloads of 1 and 4 make memory full after one large payload and fragmented after two
small ones, so that compaction, deletion and consolidation on both sides occur; 8 bytes give
the buddy system three levels. Larger instances (4 messages in either memory, 5 with one
publisher in `BuddyMemory`) were run by hand with the same result. Three messages in
TallGrass are enough for two files to grow while a third is created, for a file to be
emptied while its block is taken, and, from the overcommitted disk, for garbled text. They are
not enough to cut a "-1" in two: one message would have to take two blocks off a file that
ends in two "-1", and with blocks of two cells none takes more than one. The proofs cover that.
By hand, from a disk with such a file whose SIZE is 0, TLC cuts a "-1" in two, the properties
hold, and `ClosedFilesOwnBlocks` without its hypothesis fails. Three pokemons for two trainers make one trainer be matched again while the thread of its earlier
catch is still at work, for the same species and for another; `QUANTUM` 1 lets RR preempt at
every step. The third trainer, full from the start, is what makes the bound of
`AvailableCanBeMatched` tight: without `Cardinality(FullAtFirst)` it is false at once.
In `team_counts` a trainer's second match is planned while `desalojar` has yet to put it back
with the first. It has 1.2 million states, `team_live` 237 thousand, `tall_grass` 400 thousand.
An answer that comes twice is in `team_live`; `team_counts` with one, under SJF-CD (3.3 million
states) and under RR (3.4 million), was run by hand with the same result.
Time counts in seconds as in the code, so ties are frequent. The eight teams of
`team_exchange` are chosen so that a cycle needs indirect exchanges, two searches compete
for one pokemon, one trainer has three matches (so a token of `sem_deadlock` outlives an
exchange), a trainer leaves too early, and some or all trainers are full by the
configuration; four trainers are the fewest with which two matches of disjoint pairs are
under way at once. `QUANTUM` 2 preempts in the middle of an exchange; walking to the other
(`MaxDistance`) only adds cycles of the same kind. Each case of `conversation` combines at
most two or three of its difficulties. One trainer that catches twice with a death in
between (1.3 million states) was run by hand, and so were the invariants with the GameBoy's ids and
one trainer that catches twice (570 thousand states). Every excuse its properties name was removed
once, and TLC found the behaviour that needs it, in these cases or in a larger one.

`SYMMETRY` is used for the publishers of `queue_safe` only, which checks no liveness.
Deadlock is checked everywhere but in `queue_evict`, where the leaked mutex does stop the
queue, which is what the run is about; in the two runs of `TeamCatching`, where the
process may die, may stop on two mutexes taken in opposite orders, and stops when the
bounded messages do not satisfy its trainers; in `team_exchange`, where the process exits
or stops in one of the named races; and in `conversation`, which stops when all was said.

**Fairness.** `FairSpec` gives weak fairness to the steps of each thread, since every
thread is scheduled by the operating system, and to a connected client's reads. New
messages, connections, departures, expiries, crashes and the clock are never obliged. Mutexes
and the polling of `OPEN` need no strong fairness here because the number of messages is
bounded: who waits loses the race finitely often. In `TeamCatching` every thread is
scheduled and GameCard answers every CATCH. `MatchedCatches` excuses four ways in which the
code does stop, each named in the module: the process dies (`crashed`); an answer comes
before its id is known, or finds another trainer by a stale id (`lost`); `handle_appeared`
and `search_in_backup` take two mutexes in opposite orders (`CrossedLocks`); a trainer is
preempted, and `handle_catch` of its previous catch has made its pcb NEW before `desalojar`
looks (`CheckExec`), so that it is not put back among the matches (`Stranded`). A trainer that
is put back with the pokemon of its second match is planned again and not excused: what it
loses is a pokemon, which `BeingCaughtAccounted` is about. `TeamExchange` gives weak fairness to each thread while the
process runs. `Conversation` gives it to groups of threads: its messages are finitely many,
so a group that goes on does all its work; it also assumes that the GameCard's operator
starts it again (`GameCardStarts`), without which nothing it was sent would ever be done. The
broker need not be started again: what its death loses is excused.

## What is disagreed on

- `broker.h:24` says of a receiver "1: received, 0: not received". `send_all_messages` moves
  receivers to the new socket only for the messages it sends, so an acknowledged message is
  looked for under a socket it was never moved to at the second reconnection, and is sent
  again (`queue_again`).
- `broker.c:438` says the associated message is deleted; with reused partition ids it may be
  another (`buddy_alias`).

Each is a violation run; TLC's counterexample is the scenario.

## What is proved

Every theorem holds for all values of the constants that satisfy the named `ASSUME`s of its
module, which every run of that module evaluates: any number of publishers, subscribers,
sockets, trainers, pokemons, messages, catches and deaths. Each one rests on an inductive
invariant, a conjunction of named parts with a lemma per part and one step per action; TLC
checked each invariant before it was proved.

| Theorem | Property | Says |
|---|---|---|
| `BrokerQueue_proofs!TypeCorrect` | `TypeOK` | the types of the queue |
| `BrokerQueue_proofs!AcknowledgedWasRead` | `AckSound` | a receiver marked received belongs to a socket whose subscriber read the message |
| `BrokerQueue_proofs!LeakedWithoutPartition` | `LeakedOnlyWithoutPartition` | who left its replay loop with `mutex_messages` locked met a queued message without a partition |
| `BrokerQueue_proofs!MissesOnlyInGap` | `MissedOnlyInGap` | if nothing is evicted, who came back misses only what was between its send and its `list_add` |
| `PartitionMemory_proofs!PartitionsTyped` | `TypeOK` | the types of the cache; no begin or size leaves the memory |
| `PartitionMemory_proofs!MemoryIsTiled` | `Tiled` | every byte is in one partition; `consolidate` sees the list in the order of addresses |
| `PartitionMemory_proofs!DanglesOnlyIfEarly` | `DanglingOnlyIfEarly` | a queued message has no partition only if it was evicted before its `list_add` |
| `PartitionMemory_proofs!FullWhenEvicting` | `EvictsOnlyWhenFull` | with a compaction before each eviction, a payload goes only if the new one does not fit beside what is occupied |
| `PartitionMemory_proofs!EvictionsFollowPolicy` | `EvictsByPolicy` | FIFO evicts what was stored first, LRU what was used no later than any other |
| `PartitionMemory_proofs!RefinesCache` | `ImplementsCache` | `PartitionMemory` implements `MessageCache`: what it sends is the payload, and more than that exactly if it is under the minimum |
| `BuddyMemory_proofs!BlocksTyped` | `TypeOK` | the types of the buddy system; no partition leaves the memory |
| `BuddyMemory_proofs!BuddiesTile` | `Tiled` | the partitions are the leaves of a tree of halves: sizes, addresses, paths and sides agree |
| `BuddyMemory_proofs!BuddiesAreMerged` | `BuddiesMerged` | no two FREE buddies stay apart and, if payloads fit the memory, there is always a victim, until a message is evicted before its `list_add` |
| `BuddyMemory_proofs!QueuedHavePayloads` | `QueuedIsReadable` | until then every queued message has its payload in memory |
| `BuddyMemory_proofs!BuddiesRefineCache` | `ImplementsCache` | `BuddyMemory` implements `MessageCache` |
| `TallGrass_proofs!ClosedFilesOwn` | `ClosedFilesOwnBlocks` | no block of a closed file is anybody else's, or free, after any number of crashes, until a "-1" is cut in two |
| `TallGrass_proofs!AvailableStaysExact` | `AvailableIsExact` | `blocks_available` is the number of clear bits until block -1 is given out |
| `TallGrass_proofs!NoBlockLeaks` | `NothingLeaks` | without a crash, with all handlers through, and until a "-1" is cut in two, the set bits are the blocks of the files |
| `TeamCatching_proofs!OneTrainerExecutes` | `OneExecutes` | one trainer at a time has the turn |
| `TeamCatching_proofs!FoundWhenAvailable` | `AvailableCanBeMatched` | the matcher's permits exceed the trainers it can find by those full by the configuration at most; if none is, it always finds one |
| `TeamCatching_proofs!TeamTyped` | `TypeOK` | the types of the catching phase; no counter, list or semaphore gets more than there are pokemons, or trainers |
| `TeamCatching_proofs!BeingCaughtCounted` | `BeingCaughtAccounted` | `being_caught_pokemons` is, for each species, the number of catches under way, through preemptions in five steps, until a trainer's `pokemon_to_catch` is overwritten before `handle_catch` or `desalojar` reads it, or a preempted trainer is not put back |
| `TeamExchange_proofs!EachMatchOnce` | `EveryMatchOnce` | when `main` goes on, every match was executed once, but for the named races |
| `TeamExchange_proofs!RefinesExchange` | `ImplementsExchange` | every step that moves pokemons is an exchange of `PokemonExchange`, but for the named races |
| `TeamExchange_proofs!LeaversSatisfied` | `ExitHasObjective` | a trainer that has left has exactly its objective, and keeps it |
| `TeamExchange_proofs!AllSatisfied` | `EverybodySatisfied` | when the process exits every trainer has its objective: one pass of `handle_deadlock` is enough |
| `TeamExchange_proofs!ExchangeTyped` | `TypeOK` | the types of the exchanges; no more matches than `MaxMatches`, no more posts than trainers |
| `Conversation_proofs!ConversationTyped` | `TypeOK` | the types of the conversation |
| `Conversation_proofs!AnswersAreForRequests` | `AnswerIsForRequest` | the answer that wakes a trainer is for its last request, but for the named reasons |
| `Conversation_proofs!RequestsAppliedOnce` | `AppliedOnce` | a request is done once although its message is sent again after a death, but for the named reasons |

**BrokerQueue.** `AckSound` alone is not inductive: a flag is set for the socket found in
the subscriptor list, and a replay moves flags from `old_socket` to the thread's socket. The
invariant `IInv` adds what makes these steps safe: `TypeInv` (types, threads at work have a
message, accepted sockets have an owner), `SocketsOwned` (every socket kept for a subscriber,
in the list, behind a thread's entry or as an old socket, was opened by that subscriber,
however often it was overridden), `ReceiversOwned` (receivers are accepted sockets, new ones
unmarked) and `AcksRead` (an acknowledgement under way is for a message that was read).

`LeakedOnlyWithoutPartition` needs a second invariant, `LeakInv`: a leak is permanent only
if no later store can bring the missing partition back, so it carries that a message on its
way has an id of its own and gets its partition once (`IdsOK`), that every partition id in
use, kept by a message or free, was given out, so that a new one is above them all
(`PartitionIds`), that a queued message has been stored (`QueuedStored`), and that a thread
in its loop holds the mutex, at a queued message (`ReplayHolds`). `PlaceFacts` and
`StoreFacts` state once what a store does to the partitions.

`MissesOnlyInGap` has the hypothesis `NoEviction`, `Capacity >= MaxMessages`, which is the
instance `queue_safe` checks: a payload that was evicted is not replayed, so without it the
property is false. `DeliveryInv` adds to the two invariants above that every stored message
has its own partition (`NothingEvicted`), that a replay is at the message its index says
(`AtIndex`), that a socket the queue uses is the one its own thread works with (`OwnSocket`),
and what a replay that has come this far already covers: each message before its index was
got, is in the client's inbox or is in `gap`, and each message queued while it runs comes
behind the index or was sent (`ReplayCovers`).

**PartitionMemory.** All six rest on `Inv`. `Threads` says what a thread's place in the
search loop means for its message and the mutex (`ThreadFits`), that no message is two
threads' (`OwnMessages`) and that no two messages name one partition (`Named`). `Contents`
is about the list: `Tiles`, the partitions are apart and cover the memory; `HoldsPayloads`,
each occupied one holds a copy of the message that names it; `KeptOrEarly` and `AgesAgree`
tie queued messages and the history of uses to it. Two things make the rest hard. The list
is in the order of addresses only from a compaction to the next copy (`Compacted`): a split
appends the remainder to the end, and `consolidate`, which finds the neighbours by their
addresses and takes the next one in the list for the next in memory, is right only because
a deletion always comes after a compaction. And FIFO goes by seconds, so among payloads of
one second it is the place in the list that decides; `InIdOrder` says that occupied
partitions come in the order in which they were made, ids, stamps and places alike, which
every compaction, merge and split keeps because a merge only takes FREE partitions away
(`Condenses`). `SearchFits` says, for compactions before each eviction, that what is
occupied stands before the one free partition, whence `EvictsOnlyWhenFull`: the sizes sum up
to its begin (`SumOfCardinalities`). For the refinement, `KeptAreReadable`: what a look-up sends begins
with the payload, byte for byte, exactly while an occupied partition has its id, and is no more
than that unless the payload is under the minimum. Assumption: `Configured`.

**BuddyMemory.** `Threads` is as above. `Shape` is stronger than `Tiled`: each block is
`InPlace`, that is, it is the node of depth `d` of the tree of halves at its address. Its
size is the root's halved `d` times, its address a multiple of that, and its father and side
spell the binary digits of the address, from the root down. That makes it inductive: a
halving goes one digit further (`HalvedBlocks`), and two FREE blocks with one father and one
size are neighbours in the list, left half and right half (`BuddiesAreNeighbours`), because
nothing fits between two halves, so `consolidate`, which removes one of the two by its
place in the list, joins what belongs together (`MergedInto`). `consolidate` looks for the
buddy of one partition only. `NoBuddiesBut` says that this is enough: whatever it has merged, only
the result can have a FREE buddy, and the list gets shorter with every merge, so it has none
after as many as there were partitions.

Ids are used again, as the left half and the merged partition keep one that a message of
another payload may still name. So the owner of an occupied partition is not simply who has
its id. `Owned` says that each one holds, byte for byte, the payload of a message that names
it, and as the first byte tells whose payload it is there is one such message
(`OneHolder`); a message is readable exactly when it is that one (`ReadableIfHeld`), and
the refinement maps the readable payloads to that. Only a message evicted before its
`list_add` stays queued without its payload, which is the hypothesis `early = {}` of
`BuddiesMerged` and `QueuedIsReadable` (`InStep`); `buddy_alias` is what happens after.
`Tiled`, the types and the refinement need no such hypothesis. `BuddiesAreMerged` has the
hypothesis `PayloadsFit`: payloads and the smallest partition are no larger than the root.
A memory whose size is not a power of two is rounded down, and a larger payload would evict
everything and then find no victim. The instance `buddy_memory` satisfies it (8 bytes,
payloads up to 5). Assumption: `Configured`.

**TallGrass.** `BlockInv` holds of every state, also between the steps of handlers and after
crashes. `Exclusion`: one handler at a time has a file open, as its `OPEN` on the disk says,
and one at a time makes a directory. `Orderly`: without a crash every open file, and every
directory without its file, has a handler at work on it. `Ownership`: every block in a list,
on the disk or in a handler's hands, is marked in the bitmap and in no other list, with -1
apart (`Owned`); the counter is the number of clear bits (`Exact`); without a crash a marked
block is in some list (`NoneLost`). `BlockInv` asks for `Ownership` as long as no "-1" was cut
in two. `Uncut` carries it until then: the text of BLOCKS in a handler's hands and its list are
the same blocks (`Matching`), no list has a `Dash`, and a cut that makes one was preceded by a
-1 given out, which is why `AvailableIsExact` needs no such hypothesis. After it the
properties are false, and the code's: block 0 is free while a file has it. A handler moves blocks between its own list and the
bitmap before it saves the file, so the properties, which speak of closed files or of the end,
are not inductive without the handlers' lists (`Has`). Assumptions: `OneDigit`, `Bounded`,
and `DisksAreSound`, that the process starts from a disk on which the files are closed, no
block is in two, and no "-1" was cut in two.

**TeamCatching.** `TeamTypes` types the threads. `OnePlanned` says that `mutex_planning` is
locked exactly while one trainer executes, unlocked by the planner or on its way.
`AvailableCanBeMatched` needs an account of permits (`PermitsAccounted`): the value of
`sem_trainer_available` with what went into matches (listed, walking, or between `desalojar`'s
unlock and its `list_add`), the catches that are not through and the trainers that went out
(full, stranded by a preemption, or found full while an earlier catch of theirs was not
through), those full by the configuration apart, are together no more than the trainers. A step that posts
the semaphore ends one of the others. The bounds of `TypeOK` need an account of pokemons as
well, `TeamInv`. Each pokemon that appeared is in one place (`PokemonsAccounted`): it is still
to come of a message, in the list of those to catch, in the backup, on its way out of the
backup, or it was promised to a trainer, in a match, by its walk, while it is put back, or as a
catch; so no list and
no counter of `being_caught` exceeds what appeared. `sem_appeared_pokemon` is the length of the
list, but for the pokemon the matcher is about to take (`SemCounts`). And a permit of a
trainer becomes one catch and that at most one post of `sem_all_pokemons_caught`
(`PostsAccounted`).

`BeingCaughtAccounted` was first stated of the total over all species. That holds of one
species, which was all the run had, and the attempt to prove it for any number failed for a
good reason: a trainer that is matched again while `handle_catch` of its last catch has not
read `pokemon_to_catch` makes the counter of the new species be lowered, or nothing where it
is 0 or missing, and that of the old one stay too high for good. The property now speaks of
each species by itself, and of the time until that happens to somebody (`misled`); the run has
two species and reaches it. It is inductive with `TeamInv`: one lemma per step says how the
matches, the trainer that walks, those being put back and the catches sent change together with
the counter (`SpeciesAccounted`).

Assumptions: `ObjectivesAreSet`, what `validate_pokemons_in_objectives` and `add_remaining` do
not refuse, with one trainer at least that is not full (else there is nothing to catch), and
`BoundsAreNat`. A trainer full by the configuration is allowed, and with one in the team the
matcher may find nobody: it then follows what `malloc` left in `closest_trainer`
(`ChooseNothing`).

**TeamExchange.** `MatchesInv` says, until a match is planned for a trainer that was
preempted in another (`crossed`), that one trainer is active (`OneActive`), that a match is
in one place only, not begun, waiting, queued, given to a trainer or being swapped, and
executed by as many as the place implies (`OnePlace`), and that `main` is woken when all of
them are through (`Settled`); `NoLateMatch`, that no search adds a match behind `main`'s
back but in the race `hasty`. The refinement needs to know, in addition, that a trainer
still has what its matches promise. A match is made long before it is executed, and between
the two the trainer is in other matches and other searches, so the invariant counts for each
trainer and species what it set aside and still owes (`Owed`) and says that the trainer has
as much beyond what it wants, or owes nothing (`Covered`), that a search gives only what the searcher has to spare and
that nobody is found who still searches (`Searches`), that a match is between two trainers
and two species (`Proper`), and what `main` has counted in the indirect exchanges
(`MainKnows`).

An exchange that both can afford keeps two kinds of sums: how many pokemons a trainer has,
and how many of a species the team has (`Kept`). A trainer has as many as it wants, so one
of the two differences tells whether it has its objective (`NothingLeftOver`,
`NoDifference`), which is all `validate_state_trainer` looks at; and as it then has nothing
beyond what it wants, it owes nothing and no exchange takes from it. `handle_deadlock` goes
over the trainers once and never looks back. `PassKnows` says why that is enough: those it
has done with have their objective, and those compared with the one at hand have nothing too
much of what that one lacks. When it has been compared with all of them and still lacks a
species, nobody has too much of that species and it has too little, but the team has as many
as it wants (`ComparedIsSatisfied`).

`TypeOK` needs `MatchesFit`: each match takes a pokemon off what its finder still looks for,
so the matches and what may still be found never exceed what the team wants, which is at most
`MaxMatches`. Assumptions: `StartsAreFull`; `BoundsAreNat`, which asks for a trainer (a Team
without any waits forever); `FiniteTeams`, that species and teams are finite, without which
`MaxMatches` bounds nothing.

**Conversation.** `AnswersInv` speaks of the time before the broker dies. An id stands for
one request (`Means`): in the messages on their way, in the answers, and in what the trainers
hold. For a trainer none of whose requests was done twice or met an id the GameBoy named
(`Clear`), the answer to each request is in one place, not yet there, with the handler, in
the broker, in the Team or taken (`OneAnswer`), and the answer that wakes it is for its last
request. The attempt to prove `AnswerIsForRequest` in an earlier form, which excused only
the request whose answer woke the trainer last, failed for a good reason: a message with an
id the GameBoy named wakes a trainer early, and the true answer to that request then comes
after the trainer's next catch. The property now excuses a trainer for every request in
`heard`, and TLC finds that behaviour when it does not.

`AppliedOnce` follows from an account of every copy of a request (`RequestInv`). The broker
has one message for it, in a thread or in the queue (`OneCopy`), and the GameCard has it once,
in its inbox, in a handler or done, and not before it was sent (`OneReading`). On the first
connection what was read is acknowledged by the id the broker gave it (`AcksComing`), so when
the GameCard dies a request that was read is either one it was at work on, an excuse, or is
marked received in the queue. While the GameCard comes back (`Returning`) that mark stays
where the replay looks for it (`WillSkip`), because until the second subscription has
replaced the socket every receiver has the first one, and the replay asks for that one
(`ConnectionsInv`). After that replay no other comes without a second death. Assumption of
the three theorems: `Sizes`.

Recursive functions of the library and of the models (`FlattenSeq`, `Sent`, `Pow2`) are reasoned
about by the least-number principle of `NumberTheorems`: if the function's equation fails
anywhere there is a first place, and it does not fail there. Sums (`SumFunctionOnSet`) are
treated in the same way: `SumOnSet` takes one element out, whichever it is.

**Only model-checked**, and why:

- All liveness (`ThreadsEnd`, `Delivered`, `HandlerEnds`, `MatchedCatches` and others):
  fairness and ENABLED are beyond the prover.
- `TallGrass!TypeOK`, `StoredIsPopulation`: what parsing a file gives is an induction over
  its text.

## What is not modelled

- Best fit (`find_free_partition_bf` starts from an uninitialised pointer) and compaction
  frequencies 0 and -1 (endless or undefined from the first iteration).
- `dump_memory`, logging, GameBoy's command line, the byte layout of messages.
- Timed subscriptions as clocks: a `Timed` subscription ends at any moment.
- What a subscriber makes of its stream after an empty payload put it out of step.
- A crash inside one save of a metadata file; block numbers of two digits and more
  (`OneDigit`); the contents of answers.
- A payload larger than the memory, which the broker never refuses.
- Of Team's catching phase: SJF's estimates as numbers and the time of a step; a catch or a
  match before `init_sem` (`TeamExchange` has the part of it that `main` waits for).
- The list element put in two places of a file's list when an entry is found twice
  (`list_replace`, after a miscut): the list frees it twice, which may end the process, a
  `CrashAndRestart`.
- Messages replayed with stray bytes, outside `PartitionMemory`.
- Of Team's exchanges: the order among species, which is that of a hash table (any species
  may come first); calls on lists that overlap inside the list functions; a trainer's
  `validate_deadlock` running for two catches at once.
- Of the conversation: the byte layout of `operavirus-commons`, the positions in a
  LOCALIZED_POKEMON (`positions_to_uint32`, `gamecard.c:210`, writes elements i and i+1 for
  the i-th, so that every y but the last is overwritten by the next x), messages cut in the
  middle, what the broker stores for the Team (which never subscribes again) and its
  acknowledgements, a `receive_message_id` so late that it reads another connection's bytes,
  GameBoy's listener and its messages to a Team.

## Plan

1. Done: `BrokerQueue` and its proofs, `MessageCache` with `PartitionMemory` and
   `BuddyMemory`, `TallGrass`, `TeamCatching`.
2. Done: `PokemonExchange` with `TeamExchange`; `Conversation`; the crash between `mkdir` and
   `Metadata.bin` in `TallGrass`; `LeakedWithoutPartition`.
3. `PokemonStore`, an abstract specification of `TallGrass` in which every message takes
   effect at once, and the refinement.
4. A module for the wire format of `operavirus-commons`, with streams out of step.
5. Done: the proofs listed above.
