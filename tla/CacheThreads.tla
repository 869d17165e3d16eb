---------------------------- MODULE CacheThreads ----------------------------
(***************************************************************************)
(* The broker's payload cache, as far as both memory algorithms share it    *)
(* (broker/src/broker.c): the threads that store a message (store_message), *)
(* the threads that replay cached ones (send_all_messages), the search for  *)
(* a FREE partition and the choice of a victim.  PartitionMemory and        *)
(* BuddyMemory extend this module.                                          *)
(*                                                                          *)
(* mutex_memory_partitions is held from the first search to the copy of the *)
(* payload.  Each call the search loop makes is an action of its own: the   *)
(* message lists it changes on the way are not protected by that mutex.     *)
(*                                                                          *)
(* A byte of memory holds the id of the message it belongs to, 0 for none.  *)
(* The six queues appear as one set of messages.  ALGORITMO_PARTICION_LIBRE *)
(* is FF.                                                                   *)
(***************************************************************************)
EXTENDS Naturals, Sequences, SequencesExt, FiniteSets

CONSTANTS Publishers,               \* threads that store messages
          TAMANO_MEMORIA,           \* bytes of memory
          TAMANO_MINIMO_PARTICION,  \* smallest partition given to a message
          Frequencies,              \* values FRECUENCIA_COMPACTACION may have
          Sizes,                    \* payload sizes
          MaxMessages,              \* bound: messages ever stored
          MaxTime,                  \* bound: seconds that may pass
          NoOne                     \* holder of a free mutex

\* With a frequency of 0 or -1 the search loop of PARTICIONES never ends, and
\* nothing checks that a payload fits in the memory at all.
ASSUME Configured ==
    /\ TAMANO_MEMORIA \in Nat /\ TAMANO_MINIMO_PARTICION \in 1..TAMANO_MEMORIA
    /\ Sizes \subseteq 1..TAMANO_MEMORIA
    /\ Frequencies \subseteq Nat \ {0}
    /\ MaxMessages \in Nat /\ MaxTime \in Nat \ {0}
    /\ NoOne \notin Publishers

Messages == 1..MaxMessages

VARIABLES
    memory,             \* the bytes
    memory_partitions,  \* the list of partitions
    partition_count,    \* last partition id given out
    mutex_memory_partitions, \* its holder between two actions
    config,             \* ALGORITMO_REEMPLAZO and FRECUENCIA_COMPACTACION
    now,                \* time(NULL)
    message_count,      \* last message id given out
    size_of,            \* payload size of each message
    partition_of,       \* memory_partition_id of each message, 0 before it has one
    queued,             \* messages on their queue
    pub,                \* threads in store_message: [pc, id, search_count]
    reading,            \* message a replay thread goes to look up, 0 for none
    crashed,            \* the process died of an invalid list index
    age,                \* history: the second ALGORITMO_REEMPLAZO goes by, per message
    early               \* history: messages evicted before they were queued

memoryVars == <<memory, memory_partitions, partition_count, mutex_memory_partitions>>
messageVars == <<config, now, message_count, size_of, reading>>

vars == <<memoryVars, messageVars, partition_of, queued, pub, crashed, age, early>>

IdleThread == [pc |-> "idle", id |-> 0, search_count |-> 0]

InitThreads ==
    /\ partition_count = 1
    /\ mutex_memory_partitions = NoOne
    /\ config \in [reemplazo : {"FIFO", "LRU"}, frecuencia : Frequencies]
    /\ now = 1
    /\ message_count = 0
    /\ size_of = [m \in Messages |-> 0]
    /\ partition_of = [m \in Messages |-> 0]
    /\ queued = {}
    /\ pub = [p \in Publishers |-> IdleThread]
    /\ reading = 0
    /\ crashed = FALSE
    /\ age = [m \in Messages |-> 0]
    /\ early = {}

-----------------------------------------------------------------------------
(* Partitions                                                              *)

IsOccupied(q) == q.status = "OCCUPIED"
Occupied == {i \in DOMAIN memory_partitions : IsOccupied(memory_partitions[i])}

End(q) == q.begin + q.partition_size
IndexOfId(ps, id) == CHOOSE i \in DOMAIN ps : ps[i].id = id
First(indices) == CHOOSE i \in indices : \A j \in indices : i <= j

PartitionOf(m) == {i \in DOMAIN memory_partitions : memory_partitions[i].id = partition_of[m]}

\* A look-up sends the first content_size bytes of the partition with the
\* message's partition id.  They begin with the message's payload...
BeginsWithPayload(q, m) ==
    /\ IsOccupied(q)
    /\ size_of[m] <= q.content_size
    /\ \A b \in 0..(size_of[m] - 1) : memory[q.begin + b] = m

Readable(m) == \E i \in PartitionOf(m) : BeginsWithPayload(memory_partitions[i], m)

\* ... and end with it.
Exact(m) ==
    \E i \in PartitionOf(m) :
        /\ BeginsWithPayload(memory_partitions[i], m)
        /\ memory_partitions[i].content_size = size_of[m]

AtLeastMinimum(size) ==
    IF size <= TAMANO_MINIMO_PARTICION THEN TAMANO_MINIMO_PARTICION ELSE size

\* Mutant of Fitting: the size is not looked at.
AnyFree(size) == {i \in DOMAIN memory_partitions : memory_partitions[i].status = "FREE"}

\* find_free_partition_ff: the indices whose partition would do; the first one
\* is returned.
Fitting(size) ==
    {i \in DOMAIN memory_partitions :
        /\ memory_partitions[i].status = "FREE"
        /\ memory_partitions[i].partition_size >= AtLeastMinimum(size)}

\* The timestamp the policy goes by, in seconds.
Timestamp(q) == IF config.reemplazo = "FIFO" THEN q.occupied_timestamp ELSE q.lru_timestamp

\* delete_partition_and_consolidate_fifo, _lru: the first occupied partition of
\* the list with the smallest timestamp.
IsVictim(i) ==
    /\ i \in Occupied
    /\ \A j \in Occupied :
        LET a == Timestamp(memory_partitions[i])  b == Timestamp(memory_partitions[j])
        IN  a < b \/ (a = b /\ i <= j)

\* Mutant of MessagesIn: the wrong comparison.
MessagesUpTo(id) == {m \in queued : partition_of[m] <= id}

\* delete_and_consolidate: the queued messages that name partition id.
MessagesIn(id) == {m \in queued : partition_of[m] = id}

Freed(i) == [memory_partitions EXCEPT ![i] =
                [@ EXCEPT !.status = "FREE", !.content_size = 0,
                          !.occupied_timestamp = 0, !.lru_timestamp = 0]]

\* Partition i, which gets FREE, takes its payload out of the history.
Forget(i) ==
    LET lost == {m \in Messages : partition_of[m] = memory_partitions[i].id /\ Readable(m)}
    IN  /\ early' = early \cup (lost \ queued)
        /\ age' = [m \in Messages |-> IF m \in lost THEN 0 ELSE age[m]]

-----------------------------------------------------------------------------
(* Threads                                                                 *)

\* A message with a payload of the given size arrives and its thread enters
\* store_message.
Receive(p, size) ==
    /\ pub[p].pc = "idle"
    /\ message_count < MaxMessages
    /\ message_count' = message_count + 1
    /\ size_of' = [size_of EXCEPT ![message_count + 1] = size]
    /\ pub' = [pub EXCEPT ![p] = [@ EXCEPT !.pc = "lock", !.id = message_count + 1]]
    /\ UNCHANGED <<memoryVars, config, now, partition_of, queued, reading, crashed, age, early>>

\* The process dies: no thread goes on.
Crash ==
    /\ crashed' = TRUE
    /\ pub' = [p \in Publishers |-> [pub[p] EXCEPT !.pc = "dead"]]

\* Later, under mutexes of the queue, the message gets its place on the queue.
Enqueue(p) ==
    /\ pub[p].pc = "enqueue"
    /\ queued' = queued \cup {pub[p].id}
    /\ pub' = [pub EXCEPT ![p] = IdleThread]
    /\ UNCHANGED <<memoryVars, messageVars, partition_of, crashed, age, early>>

\* send_all_messages picks a queued message and waits for the memory's mutex.
PickMessage(m) ==
    /\ ~crashed
    /\ reading = 0
    /\ m \in queued
    /\ reading' = m
    /\ UNCHANGED <<memoryVars, config, now, message_count, size_of, partition_of, queued, pub,
                   crashed, age, early>>

\* Mutant of Touched: the look-up does not refresh the partition.
Untouched(q) == q

Touched(q) == [q EXCEPT !.lru_timestamp = now]

\* The look-up: content_size bytes of whatever partition has the message's id,
\* OCCUPIED or not, are sent (see Readable and Exact), and it is stamped.
LookUp ==
    /\ ~crashed
    /\ reading # 0
    /\ mutex_memory_partitions = NoOne
    /\ reading' = 0
    /\ memory_partitions' = [i \in DOMAIN memory_partitions |->
                                IF i \in PartitionOf(reading)
                                THEN Touched(memory_partitions[i]) ELSE memory_partitions[i]]
    /\ age' = [m \in Messages |->
                    IF config.reemplazo = "LRU" /\ Readable(m)
                            /\ partition_of[m] = partition_of[reading]
                    THEN now ELSE age[m]]
    /\ UNCHANGED <<memory, partition_count, mutex_memory_partitions, config, now,
                   message_count, size_of, partition_of, queued, pub, crashed, early>>

\* A second passes.
Tick ==
    /\ ~crashed
    /\ now < MaxTime
    /\ now' = now + 1
    /\ UNCHANGED <<memoryVars, config, message_count, size_of, partition_of, queued, pub,
                   reading, crashed, age, early>>

\* The process died, or every message is stored and nothing is left to do.
Finished ==
    /\ crashed \/ (message_count = MaxMessages /\ \A p \in Publishers : pub[p].pc = "idle")
    /\ UNCHANGED vars

-----------------------------------------------------------------------------
(* Shared parts of the properties                                          *)

ThreadState ==
    [pc : {"idle", "lock", "compact", "find", "delete", "place", "enqueue", "dead"},
     id : 0..MaxMessages, search_count : Nat]

ThreadsOK ==
    /\ partition_count \in Nat
    /\ mutex_memory_partitions \in Publishers \cup {NoOne}
    /\ config \in [reemplazo : {"FIFO", "LRU"}, frecuencia : Frequencies]
    /\ now \in 1..MaxTime
    /\ message_count \in 0..MaxMessages
    /\ size_of \in [Messages -> {0} \cup Sizes]
    /\ partition_of \in [Messages -> 0..partition_count]
    /\ queued \subseteq Messages
    /\ pub \in [Publishers -> ThreadState]
    /\ reading \in 0..MaxMessages
    /\ crashed \in BOOLEAN
    /\ age \in [Messages -> 0..now]
    /\ early \subseteq Messages

Evicted(m) == Readable(m) /\ ~Readable(m)'

\* The message whose thread is in its store, and those that have been stored.
BeingStored == {pub[p].id : p \in {q \in Publishers : mutex_memory_partitions = q}}
StoredMessages == {m \in Messages : partition_of[m] # 0}

\* The messages a look-up sends as they are, and with more behind the payload.
ExactMessages == {m \in Messages : Exact(m)}
PaddedMessages == {m \in Messages : Readable(m) /\ ~Exact(m)}
=============================================================================
