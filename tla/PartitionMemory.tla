-------------------------- MODULE PartitionMemory --------------------------
(***************************************************************************)
(* The payload cache of the broker with dynamic partitions                  *)
(* (ALGORITMO_MEMORIA=PARTICIONES): store_payload_particiones, the search   *)
(* loop of get_free_partition_particiones, compaction, eviction and         *)
(* consolidation, on top of CacheThreads.                                   *)
(***************************************************************************)
EXTENDS CacheThreads

Bytes == 0..(TAMANO_MEMORIA - 1)

\* A FREE partition that never held a payload has a content_size nobody reads.
Partition(id, begin, size, status, content_size, time) ==
    [id |-> id, begin |-> begin, partition_size |-> size, status |-> status,
     content_size |-> content_size, occupied_timestamp |-> time, lru_timestamp |-> time]

\* memory_init
Init ==
    /\ memory = [b \in Bytes |-> 0]
    /\ memory_partitions = <<Partition(1, 0, TAMANO_MEMORIA, "FREE", 0, 0)>>
    /\ InitThreads

\* mutex_memory_partitions is taken; the first search decides whether the loop
\* of get_free_partition_particiones is entered.
Lock(p) ==
    /\ pub[p].pc = "lock"
    /\ mutex_memory_partitions = NoOne
    /\ mutex_memory_partitions' = p
    /\ pub' = [pub EXCEPT ![p].pc =
                    IF Fitting(size_of[pub[p].id]) # {} THEN "place" ELSE "compact"]
    /\ UNCHANGED <<memory, memory_partitions, partition_count, messageVars, partition_of,
                   queued, crashed, age, early>>

-----------------------------------------------------------------------------
(* perform_compaction                                                      *)

SizeBefore(ps, i) == SumFunctionOnSet([j \in DOMAIN ps |-> ps[j].partition_size], 1..(i - 1))

\* The partitions of the list, one behind the other from address 0 on.
Packed(ps) == [i \in DOMAIN ps |-> [ps[i] EXCEPT !.begin = SizeBefore(ps, i)]]

\* The numbers of a set in ascending order.
InOrder(S) == CHOOSE f \in [1..Cardinality(S) -> S] : \A i, j \in DOMAIN f : i < j => f[i] < f[j]

\* The occupied partitions, in the order of the list.
OccupiedPartitions ==
    [k \in 1..Cardinality(Occupied) |-> memory_partitions[InOrder(Occupied)[k]]]

\* Mutant of Moved: the bytes stay where they were.
NotMoved(old, new, offset) == memory

\* The bytes of the old partitions at their new places.  What follows is
\* whatever malloc returned: no partition gives it out before it is written.
Moved(old, new, offset) ==
    LET Source(b) == {old[i].begin + (b - new[i].begin) :
                        i \in {j \in DOMAIN new : b \in new[j].begin .. (End(new[j]) - 1)}}
    IN  [b \in Bytes |-> IF b < offset THEN memory[CHOOSE a \in Source(b) : TRUE] ELSE 0]

Compact(p) ==
    LET old == OccupiedPartitions
        offset == SizeBefore(old, Len(old) + 1)
    IN  /\ pub[p].pc = "compact"
        /\ memory_partitions' = Append(Packed(old),
                Partition(partition_count + 1, offset, TAMANO_MEMORIA - offset, "FREE", 0, 0))
        /\ memory' = Moved(old, Packed(old), offset)
        /\ partition_count' = partition_count + 1
        /\ pub' = [pub EXCEPT ![p] = [@ EXCEPT !.pc = "find", !.search_count = 0]]
        /\ UNCHANGED <<mutex_memory_partitions, messageVars, partition_of, queued, crashed,
                       age, early>>

\* The search after a compaction or an eviction.
FindAgain(p) ==
    /\ pub[p].pc = "find"
    /\ pub' = [pub EXCEPT
                    ![p].pc = IF Fitting(size_of[pub[p].id]) # {} THEN "place" ELSE "delete",
                    ![p].search_count = @ + 1]
    /\ UNCHANGED <<memoryVars, messageVars, partition_of, queued, crashed, age, early>>

-----------------------------------------------------------------------------
(* delete_partition_and_consolidate                                        *)

\* Mutant of Join: partition j stays in the list.
JoinAndKeep(ps, i, j) == [ps EXCEPT ![i].partition_size = @ + ps[j].partition_size]

\* Partition i takes in partition j, its successor in memory.
Join(ps, i, j) == RemoveAt([ps EXCEPT ![i].partition_size = @ + ps[j].partition_size], j)

\* consolidate, first loop: a FREE partition that ends where partition id
\* begins takes it in.
JoinPrevious(ps, id) ==
    LET at == IndexOfId(ps, id)
        before == {i \in DOMAIN ps : ps[i].status = "FREE" /\ End(ps[i]) = ps[at].begin}
    IN  IF before = {} THEN ps ELSE Join(ps, First(before), at)

\* Second loop: the partition takes in the FREE one that begins where it ends.
\* Only one: the list is in the order of addresses here (a compaction comes
\* before every eviction), and the loop's index skips the one after it.
JoinNext(ps, begin) ==
    LET at == CHOOSE i \in DOMAIN ps : ps[i].begin <= begin /\ begin < End(ps[i])
        after == {i \in DOMAIN ps : ps[i].status = "FREE" /\ ps[i].begin = End(ps[at])}
    IN  IF after = {} THEN ps ELSE Join(ps, at, First(after))

\* The list after both loops (as a set of one).
Consolidated(ps, id) ==
    {JoinNext(list, ps[IndexOfId(ps, id)].begin) : list \in {JoinPrevious(ps, id)}}

\* Partition i becomes FREE.  If its message is on a queue, the message is
\* dropped and the partition merged with its neighbours; otherwise neither.
FreePartition(i) ==
    LET id == memory_partitions[i].id IN
    /\ memory_partitions' \in
            IF MessagesIn(id) = {} THEN {Freed(i)} ELSE Consolidated(Freed(i), id)
    /\ queued' = queued \ MessagesIn(id)
    /\ Forget(i)

\* Mutant of AfterDelete: one search too many before the next compaction.
AfterDeleteTwice(t) == IF t.search_count <= config.frecuencia THEN "find" ELSE "compact"

AfterDelete(t) == IF t.search_count < config.frecuencia THEN "find" ELSE "compact"

DeletePartition(p) ==
    /\ pub[p].pc = "delete"
    /\ \E i \in DOMAIN memory_partitions : IsVictim(i) /\ FreePartition(i)
    /\ pub' = [pub EXCEPT ![p].pc = AfterDelete(pub[p])]
    /\ UNCHANGED <<memory, partition_count, mutex_memory_partitions, messageVars,
                   partition_of, crashed>>

\* Nothing is occupied: index_to_free was never assigned, and may be any index
\* of the list or, outside of it, an access to a null pointer.
DeleteUndefined(p) ==
    /\ pub[p].pc = "delete"
    /\ Occupied = {}
    /\ \/ /\ \E i \in DOMAIN memory_partitions : FreePartition(i)
          /\ pub' = [pub EXCEPT ![p].pc = AfterDelete(pub[p])]
          /\ UNCHANGED crashed
       \/ /\ Crash
          /\ UNCHANGED <<memory_partitions, queued, age, early>>
    /\ UNCHANGED <<memory, partition_count, mutex_memory_partitions, messageVars, partition_of>>

-----------------------------------------------------------------------------
\* Mutant of ContentSize: the payload's own size.
OwnSize(size) == size

\* The size store_payload_particiones records, and a look-up sends.
ContentSize(size) == AtLeastMinimum(size)

\* store_payload_particiones: the payload is copied, a new partition is made at
\* the end of the list, and the FREE one shrinks, down to nothing if need be.
CopyPayload(p) ==
    LET m == pub[p].id
        i == First(Fitting(size_of[m]))
        free == memory_partitions[i]
        size == AtLeastMinimum(size_of[m])
    IN  /\ pub[p].pc = "place"
        /\ memory' = [b \in Bytes |-> IF b \in free.begin .. (free.begin + size_of[m] - 1)
                                      THEN m ELSE memory[b]]
        /\ memory_partitions' =
                Append([memory_partitions EXCEPT ![i].begin = @ + size,
                                                 ![i].partition_size = @ - size],
                       Partition(partition_count + 1, free.begin, size, "OCCUPIED",
                                 ContentSize(size_of[m]), now))
        /\ partition_count' = partition_count + 1
        /\ partition_of' = [partition_of EXCEPT ![m] = partition_count + 1]
        /\ age' = [age EXCEPT ![m] = now]
        /\ pub' = [pub EXCEPT ![p].pc = "enqueue"]
        /\ UNCHANGED <<messageVars, queued, crashed, early>>

\* Mutant of Place: mutex_memory_partitions is not released.
PlaceLocked(p) == CopyPayload(p) /\ UNCHANGED mutex_memory_partitions

Place(p) == CopyPayload(p) /\ mutex_memory_partitions' = NoOne

-----------------------------------------------------------------------------
StoreStep(p) ==
    \/ Lock(p) \/ Compact(p) \/ FindAgain(p) \/ DeletePartition(p)
    \/ DeleteUndefined(p) \/ Place(p) \/ Enqueue(p)

Next ==
    \/ \E p \in Publishers : StoreStep(p) \/ \E size \in Sizes : Receive(p, size)
    \/ \E m \in Messages : PickMessage(m)
    \/ LookUp
    \/ Tick
    \/ Finished

Spec == Init /\ [][Next]_vars

\* Threads that hold a mutex, or can have it, run on.
FairSpec == Spec /\ \A p \in Publishers : WF_vars(StoreStep(p))

-----------------------------------------------------------------------------
PartitionRecord ==
    [id : 1..partition_count, begin : 0..TAMANO_MEMORIA, partition_size : 0..TAMANO_MEMORIA,
     status : {"FREE", "OCCUPIED"}, content_size : 0..TAMANO_MEMORIA,
     occupied_timestamp : 0..now, lru_timestamp : 0..now]

\* Every variable has its type; begin and partition_size never leave the memory
\* (they are uint32_t in the code and would wrap).
TypeOK ==
    /\ memory \in [Bytes -> 0..MaxMessages]
    /\ memory_partitions \in Seq(PartitionRecord)
    /\ ThreadsOK

\* The partitions tile the memory: every byte is in exactly one of them, through
\* every split, compaction and merge, so no memory is lost or given out twice.
\* When consolidate runs, the list is in the order of addresses.
Tiled ==
    /\ \A b \in Bytes :
        Cardinality({i \in DOMAIN memory_partitions :
                        b \in memory_partitions[i].begin .. (End(memory_partitions[i]) - 1)}) = 1
    /\ (\E p \in Publishers : pub[p].pc = "delete") =>
            \A i, j \in DOMAIN memory_partitions :
                i < j => End(memory_partitions[i]) <= memory_partitions[j].begin

\* delete_and_consolidate ("Search for the associated message and delete it",
\* broker.c:438): a message is on a queue without its payload only if the
\* payload was evicted between its copy into memory and the list_add.
DanglingOnlyIfEarly == \A m \in queued : Readable(m) \/ m \in early

\* delete_partition_and_consolidate_fifo and _lru: FIFO evicts the payload that
\* was stored first even among those of one second, LRU one whose last use is no
\* later than any other's, for all that happened to the list in between.
EvictsByPolicy ==
    [][\A m, other \in Messages : (Evicted(m) /\ Readable(other) /\ m # other) =>
            IF config.reemplazo = "FIFO" THEN partition_of[m] < partition_of[other]
            ELSE age[m] <= age[other]]_vars

Used == SumFunctionOnSet([i \in DOMAIN memory_partitions |-> memory_partitions[i].partition_size],
                         Occupied)

\* With a compaction before each eviction (FRECUENCIA_COMPACTACION=1) nothing is
\* evicted for fragmentation: the new payload did not fit beside the occupied
\* partitions, of which there is one (index_to_free is always assigned).
EvictsOnlyWhenFull ==
    [][\A p \in Publishers :
            (/\ config.frecuencia = 1
             /\ pub[p].pc = "delete" /\ pub'[p].pc # "delete")
            => /\ Used + AtLeastMinimum(size_of[pub[p].id]) > TAMANO_MEMORIA
               /\ Occupied # {}]_vars

\* Every store ends: the search loop finds room, for any compaction frequency
\* above 0.
StoreEnds == \A p \in Publishers : pub[p].pc = "lock" ~> (pub[p].pc = "idle" \/ crashed)

\* Messages that arrived with a payload under the minimum.
ShortMessages == {m \in 1..message_count : size_of[m] < TAMANO_MINIMO_PARTICION}

Cache == INSTANCE MessageCache WITH
            storing <- BeingStored, stored <- StoredMessages, short <- ShortMessages,
            exact <- ExactMessages, padded <- PaddedMessages

\* The cache implements MessageCache: a payload can be read back from its store
\* to its eviction, only a store evicts, and a message whose payload is still
\* there stays on its queue.  What send_all_messages sends is the payload and
\* nothing else, but for the payloads under TAMANO_MINIMO_PARTICION: of those
\* it always sends the payload and stray bytes up to the minimum behind it.
ImplementsCache == Cache!Spec
=============================================================================
