---------------------------- MODULE BuddyMemory ----------------------------
(***************************************************************************)
(* The payload cache of the broker with the buddy system                    *)
(* (ALGORITMO_MEMORIA=BS): store_payload_bs with its halvings, the eviction *)
(* loop of get_free_partition_bs and the merging of buddies, on top of      *)
(* CacheThreads.                                                            *)
(*                                                                          *)
(* A partition's father is the path to it from the root: the sides taken on *)
(* the way, after the text "F" the root starts with.  Unlike with dynamic   *)
(* partitions, the id of a partition is used again when a later payload     *)
(* gets the whole of it.                                                    *)
(***************************************************************************)
EXTENDS CacheThreads

\* 2^n.
Pow2[n \in Nat] == IF n = 0 THEN 1 ELSE 2 * Pow2[n - 1]

\* memory_init: the largest power of two within TAMANO_MEMORIA.
RootSize == CHOOSE s \in {Pow2[n] : n \in 0..TAMANO_MEMORIA} :
                s <= TAMANO_MEMORIA /\ 2 * s > TAMANO_MEMORIA

Bytes == 0..(RootSize - 1)

\* The content_size of a FREE partition that never held a payload is not read.
Partition(id, begin, size, father, side) ==
    [id |-> id, begin |-> begin, partition_size |-> size, status |-> "FREE", content_size |-> 0,
     occupied_timestamp |-> 0, lru_timestamp |-> 0, father |-> father, side |-> side]

Init ==
    /\ memory = [b \in Bytes |-> 0]
    /\ memory_partitions = <<Partition(1, 0, RootSize, <<"F">>, <<>>)>>
    /\ InitThreads

-----------------------------------------------------------------------------
(* get_free_partition_bs                                                   *)

\* The power of two the search asks for.
BsSize(size) == CHOOSE s \in {Pow2[n] : n \in 0..TAMANO_MEMORIA} : s >= size /\ (s = 1 \/ s < 2 * size)

AfterSearch(p) == IF Fitting(BsSize(size_of[pub[p].id])) # {} THEN "place" ELSE "delete"

\* mutex_memory_partitions is taken and the first search made.
Lock(p) ==
    /\ pub[p].pc = "lock"
    /\ mutex_memory_partitions = NoOne
    /\ mutex_memory_partitions' = p
    /\ pub' = [pub EXCEPT ![p].pc = AfterSearch(p)]
    /\ UNCHANGED <<memory, memory_partitions, partition_count, messageVars, partition_of,
                   queued, crashed, age, early>>

\* The search after an eviction.
FindAgain(p) ==
    /\ pub[p].pc = "find"
    /\ pub' = [pub EXCEPT ![p].pc = AfterSearch(p)]
    /\ UNCHANGED <<memoryVars, messageVars, partition_of, queued, crashed, age, early>>

-----------------------------------------------------------------------------
(* delete_partition_and_consolidate                                        *)

PartitionRecord ==
    [id : 1..partition_count, begin : Bytes, partition_size : 1..RootSize,
     status : {"FREE", "OCCUPIED"}, content_size : 0..TAMANO_MEMORIA,
     occupied_timestamp : 0..now, lru_timestamp : 0..now,
     father : Seq({"F", "0", "1"}), side : Seq({"F", "0", "1"})]

\* Mutant of AreBuddies: the right one of the two is never taken in.
IsLeftBuddy(q, r) ==
    q.id # r.id /\ q.father = r.father /\ q.partition_size = r.partition_size /\ q.begin < r.begin

AreBuddies(q, r) ==
    q.id # r.id /\ q.father = r.father /\ q.partition_size = r.partition_size

\* The FREE buddies of partition id; at most one.
FreeBuddies(ps, id) ==
    {i \in DOMAIN ps : ps[i].status = "FREE" /\ AreBuddies(ps[i], ps[IndexOfId(ps, id)])}

\* Mutant of Merge: father and side stay those of the left half.
MergeSizes(ps, i) == RemoveAt([ps EXCEPT ![i].partition_size = 2 * @], i + 1)

\* The partition that q and r are the halves of, under the left one's id.
Joined(q, r) == [q EXCEPT !.partition_size = 2 * @,
                          !.father = SubSeq(r.father, 1, Len(r.father) - 1),
                          !.side = <<r.father[Len(r.father)]>>]

\* The partitions at i and i + 1 of the list become one.
Merge(ps, i) == RemoveAt([ps EXCEPT ![i] = Joined(ps[i], ps[i + 1])], i + 1)

\* The partition at.id of the list at.list and its FREE buddy, if there is one,
\* become one.
MergedOnce(at) ==
    LET buddies == FreeBuddies(at.list, at.id)
        left == First(buddies \cup {IndexOfId(at.list, at.id)})
    IN  IF buddies = {} THEN at
        ELSE [list |-> Merge(at.list, left), id |-> at.list[left].id]

\* consolidate: partition id and its buddy are merged, and so on upwards, as
\* long as there is a FREE buddy (which is fewer times than there are partitions).
Consolidated(ps, id) ==
    LET After[n \in Nat] == IF n = 0 THEN [list |-> ps, id |-> id] ELSE MergedOnce(After[n - 1])
    IN  After[Len(ps)].list

\* Partition i becomes FREE.  The first message found on a queue with its id,
\* if any, is dropped and the partition merged with its buddies.
FreePartition(i) ==
    LET id == memory_partitions[i].id
    IN  /\ \/ /\ MessagesIn(id) = {}
              /\ memory_partitions' = Freed(i)
              /\ queued' = queued
           \/ \E m \in MessagesIn(id) :
              /\ memory_partitions' = Consolidated(Freed(i), id)
              /\ queued' = queued \ {m}
        /\ Forget(i)

DeletePartition(p) ==
    /\ pub[p].pc = "delete"
    /\ \E i \in DOMAIN memory_partitions : IsVictim(i) /\ FreePartition(i)
    /\ pub' = [pub EXCEPT ![p].pc = "find"]
    /\ UNCHANGED <<memory, partition_count, mutex_memory_partitions, messageVars,
                   partition_of, crashed>>

\* Nothing is occupied: index_to_free was never assigned, and may be any index
\* of the list or, outside of it, an access to a null pointer.
DeleteUndefined(p) ==
    /\ pub[p].pc = "delete"
    /\ Occupied = {}
    /\ \/ /\ \E i \in DOMAIN memory_partitions : FreePartition(i)
          /\ pub' = [pub EXCEPT ![p].pc = "find"]
          /\ UNCHANGED crashed
       \/ /\ Crash
          /\ UNCHANGED <<memory_partitions, queued, age, early>>
    /\ UNCHANGED <<memory, partition_count, mutex_memory_partitions, messageVars, partition_of>>

-----------------------------------------------------------------------------
(* store_payload_bs                                                        *)

\* How often a partition of size s is halved for a payload.
Halvings(s, size) ==
    CHOOSE n \in 0..s : /\ s \div Pow2[n] >= AtLeastMinimum(size)
                        /\ s \div Pow2[n + 1] < AtLeastMinimum(size)

\* Partition q halved n times, the left half again each time: the leaf at the
\* left end, then the right halves.  Ids are given out left, right, left...
Halved(q, n) ==
    LET Father(k) == q.father \o q.side \o [j \in 1..(k - 1) |-> "0"]
        size(k) == q.partition_size \div Pow2[k]
        leaf == IF n = 0 THEN q
                ELSE Partition(partition_count + 2 * n - 1, q.begin, size(n), Father(n), <<"0">>)
        Right(k) == Partition(partition_count + 2 * k, q.begin + size(k), size(k), Father(k), <<"1">>)
    IN  <<leaf>> \o [k \in 1..n |-> Right(n + 1 - k)]

\* Mutant of IdsFor: one id for both halves.
OneIdFor(n) == n

\* The ids n halvings use up.
IdsFor(n) == 2 * n

\* Mutant of StoredIn: the partition the search found, halved since.
FoundIn(found, leaf) == found.id

\* The partition id store_payload_bs returns.
StoredIn(found, leaf) == leaf.id

Occupy(q, size) ==
    [q EXCEPT !.status = "OCCUPIED", !.content_size = size,
              !.lru_timestamp = now, !.occupied_timestamp = now]

Place(p) ==
    LET m == pub[p].id
        i == First(Fitting(BsSize(size_of[m])))
        n == Halvings(memory_partitions[i].partition_size, size_of[m])
        parts == Halved(memory_partitions[i], n)
    IN  /\ pub[p].pc = "place"
        /\ memory' = [b \in Bytes |->
                        IF b \in parts[1].begin .. (parts[1].begin + size_of[m] - 1)
                        THEN m ELSE memory[b]]
        /\ memory_partitions' =
                ReplaceAt(SubSeq(memory_partitions, 1, i - 1) \o parts
                            \o SubSeq(memory_partitions, i + 1, Len(memory_partitions)),
                          i, Occupy(parts[1], size_of[m]))
        /\ partition_count' = partition_count + IdsFor(n)
        /\ partition_of' = [partition_of EXCEPT ![m] =
                                StoredIn(memory_partitions[i], parts[1])]
        /\ age' = [age EXCEPT ![m] = now]
        /\ mutex_memory_partitions' = NoOne
        /\ pub' = [pub EXCEPT ![p].pc = "enqueue"]
        /\ UNCHANGED <<messageVars, queued, crashed, early>>

-----------------------------------------------------------------------------
StoreStep(p) ==
    \/ Lock(p) \/ FindAgain(p) \/ DeletePartition(p) \/ DeleteUndefined(p)
    \/ Place(p) \/ Enqueue(p)

Next ==
    \/ \E p \in Publishers : StoreStep(p) \/ \E size \in Sizes : Receive(p, size)
    \/ \E m \in Messages : PickMessage(m)
    \/ LookUp
    \/ Tick
    \/ Finished

Spec == Init /\ [][Next]_vars

-----------------------------------------------------------------------------
\* Every variable has its type; in particular a payload's partition is never
\* smaller than it, and no partition leaves the memory.
TypeOK ==
    /\ memory \in [Bytes -> 0..MaxMessages]
    /\ memory_partitions \in Seq(PartitionRecord)
    /\ ThreadsOK

\* The shape of the buddy system, through any halvings, merges and reused ids:
\* the list is in the order of addresses and tiles the memory with blocks whose
\* size is a power of two that divides their address, ids differ, and a FREE
\* block's father and side still tell the address it is at.
Tiled ==
    LET ps == memory_partitions IN
    /\ ps[1].begin = 0 /\ End(ps[Len(ps)]) = RootSize
    /\ \A i \in 1..(Len(ps) - 1) : End(ps[i]) = ps[i + 1].begin
    /\ \A i \in DOMAIN ps :
        /\ ps[i].partition_size \in {Pow2[n] : n \in 0..RootSize}
        /\ ps[i].begin % ps[i].partition_size = 0
        /\ ps[i].partition_size * Pow2[Len(ps[i].father) + Len(ps[i].side) - 1] = RootSize
        /\ ps[i].partition_size < RootSize =>
                ps[i].side = <<IF (ps[i].begin \div ps[i].partition_size) % 2 = 0 THEN "0" ELSE "1">>
    /\ \A i, j \in DOMAIN ps : i # j => ps[i].id # ps[j].id

\* As long as no message is evicted before it is queued, no two FREE buddies are
\* left apart: consolidate undoes every halving, and the memory does not stay
\* cut into pieces that a large payload would not fit in.  So the eviction loop
\* of get_free_partition_bs never runs out of victims (index_to_free is always
\* assigned).
BuddiesMerged ==
    early = {} =>
        /\ \A i, j \in DOMAIN memory_partitions :
            ~(/\ memory_partitions[i].status = "FREE" /\ memory_partitions[j].status = "FREE"
              /\ memory_partitions[i].id # memory_partitions[j].id
              /\ memory_partitions[i].father = memory_partitions[j].father
              /\ memory_partitions[i].partition_size = memory_partitions[j].partition_size)
        /\ \A p \in Publishers : pub[p].pc = "delete" => Occupied # {}

\* And every queued message has its own payload behind its partition id, even
\* though ids are used again.
QueuedIsReadable == early = {} => \A m \in queued : Readable(m)

Cache == INSTANCE MessageCache WITH
            storing <- BeingStored, stored <- StoredMessages, short <- {},
            exact <- ExactMessages, padded <- PaddedMessages

\* The cache implements MessageCache: a payload can be read back from its store
\* to its eviction, only a store evicts, and a message whose payload is still
\* there stays on its queue.  What send_all_messages sends is the payload and
\* nothing else, even though the partition may be larger.
ImplementsCache == Cache!Spec

\* broker.c:438, "Search for the associated message and delete it": the message
\* an eviction takes off its queue is the one whose payload it frees.
DeletesAssociated == [][\A m \in queued \ queued' : Evicted(m)]_vars
=============================================================================
