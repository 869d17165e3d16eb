---------------------------- MODULE BrokerQueue ----------------------------
(***************************************************************************)
(* One of the broker's six message queues (broker/src/broker.c) with the    *)
(* threads that work on it: the connection threads of publishers            *)
(* (process_request), of subscribers (process_new_subscription) and of      *)
(* acknowledgements (process_message_received), the two mutexes of the      *)
(* queue, and the clients at the other end of the subscribers' sockets.     *)
(*                                                                          *)
(* Every critical section is one action, except where a thread keeps a      *)
(* mutex while it waits for another one: an acknowledgement keeps           *)
(* mutex_subscriptors while it waits for mutex_messages, and a replay keeps *)
(* mutex_messages over its whole loop, taking mutex_memory_partitions once  *)
(* per message.  Calls on a t_list are taken as atomic.                     *)
(*                                                                          *)
(* The payload cache appears here as the set of its partitions; payloads    *)
(* have one size and at most Capacity of them fit.  Modules PartitionMemory *)
(* and BuddyMemory are its two implementations.                             *)
(*                                                                          *)
(* Message ids are counted from 1 over this queue's messages only: requests *)
(* of other kinds use ids up too and leave gaps, which nothing depends on.  *)
(***************************************************************************)
EXTENDS Naturals, Sequences, SequencesExt, FiniteSets

CONSTANTS Publishers,    \* connections that publish, one message at a time
          Subscribers,   \* subscriptor ids (the ID of a team, "Game Card", ...)
          MaxMessages,   \* bound: messages ever published
          MaxSockets,    \* bound: subscription connections ever accepted
          Timed,         \* those of them that subscribe for a number of seconds;
                         \* the others send the duration -1
          Capacity,      \* payloads the cache holds before it must evict
          NoOne          \* holder of a free mutex

ASSUME BoundsAreNat ==
    /\ MaxMessages \in Nat /\ MaxSockets \in Nat
    /\ Capacity \in Nat \ {0}

ASSUME TimedSubscribe == Timed \subseteq Subscribers

\* A mutex is held by a socket's thread, by an acknowledgement or by NoOne.
ASSUME NoOneIsNobody ==
    /\ NoOne \notin Subscribers
    /\ NoOne \notin 1..MaxSockets
    /\ NoOne \notin Subscribers \X (1..MaxMessages)

Messages == 1..MaxMessages
Sockets == 1..MaxSockets

VARIABLES
    message_count,      \* last message id given out
    subscriptors,       \* queue->subscriptors: list of [id, socket]
    messages,           \* queue->messages: list of message ids
    receivers,          \* receivers list of each message: set of [socket, received];
                        \* the code only asks whether a pair is in the list
    partition_of,       \* memory_partition_id of each message, 0 before it has one
    partitions,         \* the cache: set of [id, content], content 0 when FREE
    partition_count,    \* last partition id given out
    mutex_subscriptors, \* holder of queue->mutex_subscriptors between two actions
    mutex_messages,     \* holder of queue->mutex_messages between two actions
    pub,                \* publisher threads: [pc, id, receivers]
    handler,            \* subscription threads, one per socket
    opened,             \* sockets accepted so far
    owner,              \* the subscriptor id each accepted socket was opened for
    open,               \* sockets whose client is still connected
    inbox,              \* messages sent on a socket and not read by its client
    got,                \* messages each client has ever read
    acks,               \* acknowledgements on their way: <<subscriber, message>>
    gap                 \* history: <<k, m>>, m between send and enqueue when k's replay ended

vars == <<message_count, subscriptors, messages, receivers, partition_of,
          partitions, partition_count, mutex_subscriptors, mutex_messages, pub,
          handler, opened, owner, open, inbox, got, acks, gap>>

cacheVars == <<partition_of, partitions, partition_count>>
clientVars == <<opened, owner, open, inbox, got, acks>>

Receiver == [socket : Sockets, received : {0, 1}]
IdleThread == [pc |-> "idle", id |-> 0, receivers |-> {}]
NoThread == [pc |-> "none", socket_exist |-> 0, entry |-> 0,
             old_socket |-> 0, i |-> 0, cur |-> 0]

Init ==
    /\ message_count = 0
    /\ subscriptors = <<>>
    /\ messages = <<>>
    /\ receivers = [m \in Messages |-> {}]
    /\ partition_of = [m \in Messages |-> 0]
    /\ partitions = {}
    /\ partition_count = 0
    /\ mutex_subscriptors = NoOne
    /\ mutex_messages = NoOne
    /\ pub = [p \in Publishers |-> IdleThread]
    /\ handler = [k \in Sockets |-> NoThread]
    /\ opened = 0
    /\ owner = [k \in Sockets |-> NoOne]
    /\ open = {}
    /\ inbox = [k \in Sockets |-> {}]
    /\ got = [s \in Subscribers |-> {}]
    /\ acks = {}
    /\ gap = {}

-----------------------------------------------------------------------------
(* Publishing: process_request for the six message codes, store_message.   *)

\* The connection thread reads the message and gives it the next id.
ReceiveMessage(p) ==
    /\ pub[p].pc = "idle"
    /\ message_count < MaxMessages
    /\ message_count' = message_count + 1
    /\ pub' = [pub EXCEPT ![p] = [pc |-> "send", id |-> message_count + 1, receivers |-> {}]]
    /\ UNCHANGED <<subscriptors, messages, receivers, cacheVars, mutex_subscriptors,
                   mutex_messages, handler, clientVars, gap>>

\* Under mutex_subscriptors the message goes to every subscriptor's socket;
\* send() on a socket whose client left fails and is only logged.
SendToSubscriptors(p) ==
    /\ pub[p].pc = "send"
    /\ mutex_subscriptors = NoOne
    /\ inbox' = [k \in Sockets |->
                    IF k \in open /\ \E i \in DOMAIN subscriptors : subscriptors[i].socket = k
                    THEN inbox[k] \cup {pub[p].id} ELSE inbox[k]]
    /\ pub' = [pub EXCEPT ![p].pc = "store"]
    /\ UNCHANGED <<message_count, subscriptors, messages, receivers, cacheVars,
                   mutex_subscriptors, mutex_messages, handler, opened, owner, open, got,
                   acks, gap>>

\* A replay keeps mutex_memory_partitions from sending a message to moving its
\* receiver; every other critical section of that mutex is one action.
MemoryUnlocked == \A k \in Sockets : handler[k].pc # "move"

Occupied == {q \in partitions : q.content # 0}
Free == {q \in partitions : q.content = 0}

\* delete_and_consolidate: the first queued message stored in partition id is
\* dropped from the list, if there is one; mutex_messages is not taken.
DeleteMessageOf(id) ==
    LET at == {i \in DOMAIN messages : partition_of[messages[i]] = id}
    IN  \/ at = {} /\ messages' = messages
        \/ \E i \in at : /\ \A j \in at : i <= j
                         /\ messages' = RemoveAt(messages, i)

\* The payload gets a partition with a new id or the id of one in free.  Others
\* in free may disappear on the way (merged with a neighbour, compacted away).
PlacePayload(p, occupied, free) ==
    \E kept \in SUBSET free, id \in {partition_count + 1} \cup {f.id : f \in free} :
        /\ partitions' = occupied \cup {f \in kept : f.id # id}
                                  \cup {[id |-> id, content |-> pub[p].id]}
        /\ partition_count' = IF id > partition_count THEN id ELSE partition_count
        /\ partition_of' = [partition_of EXCEPT ![pub[p].id] = id]

\* store_message under mutex_memory_partitions: a full cache first frees an
\* occupied partition and drops its message.
StorePayload(p) ==
    /\ pub[p].pc = "store"
    /\ MemoryUnlocked
    /\ \/ /\ Cardinality(Occupied) < Capacity
          /\ messages' = messages
          /\ PlacePayload(p, Occupied, Free)
       \/ /\ Cardinality(Occupied) >= Capacity
          /\ \E victim \in Occupied :
                /\ DeleteMessageOf(victim.id)
                /\ PlacePayload(p, Occupied \ {victim},
                                Free \cup {[victim EXCEPT !.content = 0]})
    /\ pub' = [pub EXCEPT ![p].pc = "snapshot"]
    /\ UNCHANGED <<message_count, subscriptors, receivers, mutex_subscriptors,
                   mutex_messages, handler, clientVars, gap>>

\* Mutant of NewReceivers: rec->received is not reset.
ReceivedByDefault ==
    {[socket |-> subscriptors[i].socket, received |-> 1] : i \in DOMAIN subscriptors}

NewReceivers ==
    {[socket |-> subscriptors[i].socket, received |-> 0] : i \in DOMAIN subscriptors}

\* Under mutex_subscriptors the receivers of the message are listed.
ListReceivers(p) ==
    /\ pub[p].pc = "snapshot"
    /\ mutex_subscriptors = NoOne
    /\ pub' = [pub EXCEPT ![p].pc = "enqueue",
                          ![p].receivers = NewReceivers]
    /\ UNCHANGED <<message_count, subscriptors, messages, receivers, cacheVars,
                   mutex_subscriptors, mutex_messages, handler, clientVars, gap>>

\* Under mutex_messages the message joins the queue.
Enqueue(p) ==
    /\ pub[p].pc = "enqueue"
    /\ mutex_messages = NoOne
    /\ messages' = Append(messages, pub[p].id)
    /\ receivers' = [receivers EXCEPT ![pub[p].id] = pub[p].receivers]
    /\ pub' = [pub EXCEPT ![p] = IdleThread]
    /\ UNCHANGED <<message_count, subscriptors, cacheVars, mutex_subscriptors,
                   mutex_messages, handler, clientVars, gap>>

-----------------------------------------------------------------------------
(* Subscribing: process_new_subscription, then send_all_messages.          *)

\* A client without a connection (new, or restarted) opens one; its sockets
\* are never closed by the broker, so the descriptor is always a new one.
Connect(s) ==
    /\ opened < MaxSockets
    /\ \A k \in open : owner[k] # s
    /\ opened' = opened + 1
    /\ open' = open \cup {opened + 1}
    /\ owner' = [owner EXCEPT ![opened + 1] = s]
    /\ handler' = [handler EXCEPT ![opened + 1].pc = "exists"]
    /\ UNCHANGED <<message_count, subscriptors, messages, receivers, cacheVars,
                   mutex_subscriptors, mutex_messages, pub, inbox, got, acks, gap>>

EntriesOf(s) == {i \in DOMAIN subscriptors : subscriptors[i].id = s}

\* exist_in_queue: the socket of the first subscriptor with the id, else 0.
ExistInQueue(k) ==
    /\ handler[k].pc = "exists"
    /\ mutex_subscriptors = NoOne
    /\ \/ /\ EntriesOf(owner[k]) = {}
          /\ handler' = [handler EXCEPT ![k] = [@ EXCEPT !.pc = "add", !.socket_exist = 0]]
       \/ \E i \in EntriesOf(owner[k]) :
            /\ \A j \in EntriesOf(owner[k]) : i <= j
            /\ handler' = [handler EXCEPT ![k] =
                                [@ EXCEPT !.pc = "add", !.socket_exist = subscriptors[i].socket]]
    /\ UNCHANGED <<message_count, subscriptors, messages, receivers, cacheVars,
                   mutex_subscriptors, mutex_messages, pub, clientVars, gap>>

\* The subscriptor is added unless the earlier look-up found one.
AddSubscriptor(k) ==
    /\ handler[k].pc = "add"
    /\ mutex_subscriptors = NoOne
    /\ \/ /\ handler[k].socket_exist = 0
          /\ subscriptors' = Append(subscriptors, [id |-> owner[k], socket |-> k])
          /\ handler' = [handler EXCEPT ![k] =
                                [@ EXCEPT !.pc = "override", !.entry = Len(subscriptors) + 1]]
       \/ /\ handler[k].socket_exist # 0
          /\ subscriptors' = subscriptors
          /\ handler' = [handler EXCEPT ![k].pc = "override"]
    /\ UNCHANGED <<message_count, messages, receivers, cacheVars, mutex_subscriptors,
                   mutex_messages, pub, clientVars, gap>>

\* The socket a thread works with is the field of the t_subscriptor it made.  If
\* that one is in the list, a later thread's override changes it under its feet.
SocketOf(k) ==
    IF handler[k].entry = 0 THEN k ELSE subscriptors[handler[k].entry].socket

\* send_all_messages, first half: every subscriptor with the id gets the
\* thread's socket; old_socket keeps what the last of them had.  There always
\* is one, so already_subscribed is 1 from here on.
OverrideSocket(k) ==
    /\ handler[k].pc = "override"
    /\ mutex_subscriptors = NoOne
    /\ \E last \in EntriesOf(owner[k]) :
        /\ \A j \in EntriesOf(owner[k]) : j <= last
        /\ handler' = [handler EXCEPT ![k] =
                            [@ EXCEPT !.pc = "lock", !.old_socket = subscriptors[last].socket]]
    /\ subscriptors' = [i \in DOMAIN subscriptors |->
                            IF subscriptors[i].id = owner[k]
                            THEN [subscriptors[i] EXCEPT !.socket = SocketOf(k)]
                            ELSE subscriptors[i]]
    /\ UNCHANGED <<message_count, messages, receivers, cacheVars, mutex_subscriptors,
                   mutex_messages, pub, clientVars, gap>>

\* send_all_messages, second half: the loop over the queue, begun by taking
\* mutex_messages.
BeginReplay(k) ==
    /\ handler[k].pc = "lock"
    /\ mutex_messages = NoOne
    /\ mutex_messages' = k
    /\ handler' = [handler EXCEPT ![k] = [@ EXCEPT !.pc = "pick", !.i = 1]]
    /\ UNCHANGED <<message_count, subscriptors, messages, receivers, cacheVars,
                   mutex_subscriptors, pub, clientVars, gap>>

\* Mutant of AlreadyReceived: a message that was only sent counts as received.
SentBefore(k, m) == \E r \in receivers[m] : r.socket = handler[k].old_socket

AlreadyReceived(k, m) ==
    [socket |-> handler[k].old_socket, received |-> 1] \in receivers[m]

\* The next message of the list is skipped if the old socket acknowledged it;
\* otherwise the thread goes on with it to mutex_memory_partitions.
PickMessage(k) ==
    /\ handler[k].pc = "pick"
    /\ handler[k].i <= Len(messages)
    /\ LET m == messages[handler[k].i]
       IN IF AlreadyReceived(k, m)
          THEN handler' = [handler EXCEPT ![k].i = @ + 1]
          ELSE handler' = [handler EXCEPT ![k] = [@ EXCEPT !.pc = "replay", !.cur = m]]
    /\ UNCHANGED <<message_count, subscriptors, messages, receivers, cacheVars,
                   mutex_subscriptors, mutex_messages, pub, clientVars, gap>>

PartitionOf(m) == {q \in partitions : q.id = partition_of[m]}

\* The partition is there: its content goes out under the message's id.  When it
\* is FREE by now the payload is empty, and a client that still reads takes the
\* bytes of its next messages for it: from there on its stream is out of step,
\* and the model counts it as gone.  mutex_memory_partitions stays held.
ReplayMessage(k) ==
    /\ handler[k].pc = "replay"
    /\ MemoryUnlocked
    /\ \E q \in PartitionOf(handler[k].cur) :
        \/ /\ q.content # 0
           /\ inbox' = IF SocketOf(k) \in open
                       THEN [inbox EXCEPT ![SocketOf(k)] = @ \cup {handler[k].cur}] ELSE inbox
           /\ open' = open
        \/ /\ q.content = 0
           /\ inbox' = [inbox EXCEPT ![SocketOf(k)] = {}]
           /\ open' = open \ {SocketOf(k)}
    /\ handler' = [handler EXCEPT ![k].pc = "move"]
    /\ UNCHANGED <<message_count, subscriptors, messages, receivers, cacheVars,
                   mutex_subscriptors, mutex_messages, pub, opened, owner, got, acks, gap>>

\* Mutant of Advanced: the loop stays on its message.
Stuck(i) == i

Advanced(i) == i + 1

\* The old socket's receiver entry moves to the thread's socket, which is read
\* again here; then mutex_memory_partitions is released.
MoveReceiver(k) ==
    /\ handler[k].pc = "move"
    /\ receivers' = [receivers EXCEPT ![handler[k].cur] =
                        {IF r.socket = handler[k].old_socket
                         THEN [r EXCEPT !.socket = SocketOf(k)] ELSE r : r \in @}]
    /\ handler' = [handler EXCEPT ![k] = [@ EXCEPT !.pc = "pick", !.i = Advanced(handler[k].i)]]
    /\ UNCHANGED <<message_count, subscriptors, messages, cacheVars, mutex_subscriptors,
                   mutex_messages, pub, clientVars, gap>>

\* process_subscriptor after the replay: the end time is now + duration in
\* uint32_t, so with -1 it is a second ago and the thread ends at once.
AfterReplay(k) == IF owner[k] \in Timed THEN "serving" ELSE "ended"

\* The partition is not there ("ERROR, MESSAGE NOT FOUND"): the function
\* returns at once, and mutex_messages stays locked.
MessageNotFound(k) ==
    /\ handler[k].pc = "replay"
    /\ MemoryUnlocked
    /\ PartitionOf(handler[k].cur) = {}
    /\ handler' = [handler EXCEPT ![k].pc = AfterReplay(k)]
    /\ UNCHANGED <<message_count, subscriptors, messages, receivers, cacheVars,
                   mutex_subscriptors, mutex_messages, pub, clientVars, gap>>

InFlight == {pub[p].id : p \in {q \in Publishers : pub[q].pc \in {"store", "snapshot", "enqueue"}}}

\* Mutant of EndReplay: mutex_messages is not released.
EndReplayLocked(k) ==
    /\ handler[k].pc = "pick"
    /\ handler[k].i > Len(messages)
    /\ handler' = [handler EXCEPT ![k].pc = AfterReplay(k)]
    /\ gap' = gap \cup ({k} \X InFlight)
    /\ UNCHANGED <<message_count, subscriptors, messages, receivers, cacheVars,
                   mutex_subscriptors, mutex_messages, pub, clientVars>>

\* The list is exhausted and mutex_messages is released.
EndReplay(k) ==
    /\ handler[k].pc = "pick"
    /\ handler[k].i > Len(messages)
    /\ mutex_messages' = NoOne
    /\ handler' = [handler EXCEPT ![k].pc = AfterReplay(k)]
    /\ gap' = gap \cup ({k} \X InFlight)
    /\ UNCHANGED <<message_count, subscriptors, messages, receivers, cacheVars,
                   mutex_subscriptors, pub, clientVars>>

\* The subscription's duration is over: the thread ends.  Neither the socket
\* nor the subscriptor is touched.
Expire(k) ==
    /\ handler[k].pc = "serving"
    /\ handler' = [handler EXCEPT ![k].pc = "ended"]
    /\ UNCHANGED <<message_count, subscriptors, messages, receivers, cacheVars,
                   mutex_subscriptors, mutex_messages, pub, clientVars, gap>>

-----------------------------------------------------------------------------
(* The client: reads its socket, acknowledges on a connection of its own,   *)
(* may go away (crash, network) with what it has not read.                  *)

ClientReads(k, m) ==
    /\ k \in open
    /\ m \in inbox[k]
    /\ inbox' = [inbox EXCEPT ![k] = @ \ {m}]
    /\ got' = [got EXCEPT ![owner[k]] = @ \cup {m}]
    /\ acks' = acks \cup {<<owner[k], m>>}
    /\ UNCHANGED <<message_count, subscriptors, messages, receivers, cacheVars,
                   mutex_subscriptors, mutex_messages, pub, handler, opened, owner, open, gap>>

Disconnect(k) ==
    /\ k \in open
    /\ open' = open \ {k}
    /\ inbox' = [inbox EXCEPT ![k] = {}]
    /\ UNCHANGED <<message_count, subscriptors, messages, receivers, cacheVars,
                   mutex_subscriptors, mutex_messages, pub, handler, opened, owner, got, acks, gap>>

-----------------------------------------------------------------------------
(* Acknowledging: process_message_received takes mutex_subscriptors, then   *)
(* mutex_messages, then runs process_message_ack.                           *)

AckTakesSubscriptors(a) ==
    /\ mutex_subscriptors = NoOne
    /\ mutex_subscriptors' = a
    /\ UNCHANGED <<message_count, subscriptors, messages, receivers, cacheVars,
                   mutex_messages, pub, handler, clientVars, gap>>

\* The subscriptor entries of a's id whose socket is a receiver of the message.
Acknowledging(a) ==
    {i \in EntriesOf(a[1]) :
        /\ \E j \in DOMAIN messages : messages[j] = a[2]
        /\ \E r \in receivers[a[2]] : r.socket = subscriptors[i].socket}

\* Mutant of MarkReceived: acknowledgements are counted.
CountReceived(r) == [r EXCEPT !.received = @ + 1]

MarkReceived(r) == [r EXCEPT !.received = 1]

\* process_message_ack marks the receiver entry of the first of them, if any.
AckMarksReceived(a) ==
    /\ mutex_subscriptors = a
    /\ mutex_messages = NoOne
    /\ \/ /\ Acknowledging(a) = {}
          /\ receivers' = receivers
       \/ \E i \in Acknowledging(a) :
            /\ \A j \in Acknowledging(a) : i <= j
            /\ receivers' = [receivers EXCEPT ![a[2]] =
                                {IF r.socket = subscriptors[i].socket
                                 THEN MarkReceived(r) ELSE r : r \in @}]
    /\ mutex_subscriptors' = NoOne
    /\ acks' = acks \ {a}
    /\ UNCHANGED <<message_count, subscriptors, messages, cacheVars, mutex_messages,
                   pub, handler, opened, owner, open, inbox, got, gap>>

-----------------------------------------------------------------------------
PublisherStep(p) ==
    \/ SendToSubscriptors(p) \/ StorePayload(p) \/ ListReceivers(p) \/ Enqueue(p)

HandlerStep(k) ==
    \/ ExistInQueue(k) \/ AddSubscriptor(k) \/ OverrideSocket(k) \/ BeginReplay(k)
    \/ PickMessage(k) \/ ReplayMessage(k) \/ MoveReceiver(k) \/ MessageNotFound(k)
    \/ EndReplay(k)

AckStep(a) == AckTakesSubscriptors(a) \/ AckMarksReceived(a)

Quiescent ==
    /\ \A p \in Publishers : pub[p].pc = "idle"
    /\ \A k \in Sockets : handler[k].pc \in {"none", "serving", "ended"}
    /\ acks = {}

\* Every bounded input is used up and every thread has finished.
Finished ==
    /\ message_count = MaxMessages /\ opened = MaxSockets /\ open = {}
    /\ Quiescent
    /\ UNCHANGED vars

Next ==
    \/ \E p \in Publishers : ReceiveMessage(p) \/ PublisherStep(p)
    \/ \E s \in Subscribers : Connect(s)
    \/ \E k \in Sockets : HandlerStep(k) \/ Expire(k) \/ Disconnect(k)
    \/ \E k \in Sockets, m \in Messages : ClientReads(k, m)
    \/ \E a \in acks : AckStep(a)
    \/ Finished

Spec == Init /\ [][Next]_vars

\* The operating system runs every thread that can run, and a connected client
\* reads its socket.  Publishing, connecting, leaving and expiring are not obliged.
Fairness ==
    /\ \A p \in Publishers : WF_vars(PublisherStep(p))
    /\ \A k \in Sockets : WF_vars(HandlerStep(k))
    /\ \A k \in Sockets, m \in Messages : WF_vars(ClientReads(k, m))
    /\ \A a \in Subscribers \X Messages : WF_vars(a \in acks /\ AckStep(a))

FairSpec == Spec /\ Fairness

-----------------------------------------------------------------------------
HandlerPCs == {"none", "exists", "add", "override", "lock", "pick", "replay",
               "move", "serving", "ended"}

HandlerState == [pc : HandlerPCs, socket_exist : 0..MaxSockets, entry : Nat,
                 old_socket : 0..MaxSockets, i : Nat, cur : 0..MaxMessages]

PublisherState == [pc : {"idle", "send", "store", "snapshot", "enqueue"},
                   id : 0..MaxMessages, receivers : SUBSET Receiver]

\* Every variable has its type: in particular the message, partition and socket
\* ids that broker.c keeps in uint32_t fields stay in the ranges given out.
TypeOK ==
    /\ message_count \in 0..MaxMessages
    /\ subscriptors \in Seq([id : Subscribers, socket : Sockets])
    /\ messages \in Seq(Messages)
    /\ receivers \in [Messages -> SUBSET Receiver]
    /\ partition_of \in [Messages -> Nat]
    /\ partitions \in SUBSET [id : Nat, content : 0..MaxMessages]
    /\ partition_count \in Nat
    /\ mutex_subscriptors \in (Subscribers \X Messages) \cup {NoOne}
    /\ mutex_messages \in Sockets \cup {NoOne}
    /\ pub \in [Publishers -> PublisherState]
    /\ handler \in [Sockets -> HandlerState]
    /\ opened \in 0..MaxSockets
    /\ owner \in [Sockets -> Subscribers \cup {NoOne}]
    /\ open \in SUBSET Sockets
    /\ inbox \in [Sockets -> SUBSET Messages]
    /\ got \in [Subscribers -> SUBSET Messages]
    /\ acks \in SUBSET (Subscribers \X Messages)
    /\ gap \in SUBSET (Sockets \X Messages)

\* A receiver marked received (broker.c process_message_ack) belongs to a socket
\* whose subscriber has read the message, through any number of reconnections,
\* overridden sockets and moved receivers: a replay never skips a message that
\* its client did not get.
AckSound ==
    \A m \in Messages : \A r \in receivers[m] :
        r.received = 1 => /\ owner[r.socket] \in Subscribers
                          /\ m \in got[owner[r.socket]]

\* The socket the queue uses for subscriber s, once its thread's replay is over.
Serves(k, s) ==
    /\ \E i \in EntriesOf(s) : subscriptors[i].socket = k
    /\ k \in open
    /\ handler[k].pc \in {"serving", "ended"}

\* While nothing is evicted, a subscriber whose replay (send_all_messages) is
\* over has read, or has on its socket, every queued message, but for those that
\* were between their send and their list_add when the replay ended.
MissedOnlyInGap ==
    \A k \in Sockets, s \in Subscribers : \A i \in DOMAIN messages :
        (owner[k] = s /\ Serves(k, s)) =>
            \/ messages[i] \in got[s] \cup inbox[k]
            \/ <<k, messages[i]>> \in gap

Replaying(k) == handler[k].pc \in {"pick", "replay", "move"}

\* The early return of send_all_messages is the only leak of mutex_messages: a thread that holds it
\* and is not in its replay loop met a queued message without a partition.
LeakedOnlyWithoutPartition ==
    mutex_messages # NoOne /\ ~Replaying(mutex_messages)
        => /\ handler[mutex_messages].cur # 0
           /\ PartitionOf(handler[mutex_messages].cur) = {}

\* The broker's mutexes do not lock its threads out of each other while nothing is evicted: every
\* subscription thread gets through its replay, every acknowledgement on its way is processed, and
\* every message read from a publisher is put on the queue.
ThreadsEnd ==
    /\ \A k \in Sockets : handler[k].pc = "exists" ~> handler[k].pc \in {"serving", "ended"}
    /\ \A a \in Subscribers \X Messages : a \in acks ~> a \notin acks
    /\ \A p \in Publishers : pub[p].pc = "send" ~> pub[p].pc = "idle"

\* What MissedOnlyInGap promises is delivered in the end: a queued message
\* reaches a served subscriber, unless its client leaves or another socket takes
\* over first.
Delivered ==
    \A k \in Sockets, m \in Messages, s \in Subscribers :
        (/\ owner[k] = s /\ Serves(k, s)
         /\ \E i \in DOMAIN messages : messages[i] = m
         /\ <<k, m>> \notin gap)
        ~> (m \in got[s] \/ ~Serves(k, s))

\* broker.h:24, "1: received, 0: not received": a message that the entry of an earlier connection
\* of a subscriber says received is not sent to that subscriber again.
ReceivedNotSentAgain ==
    [][\A k \in Sockets : \A m \in inbox'[k] \ inbox[k] : \A r \in receivers[m] :
            r.received = 1 /\ r.socket # k => owner[r.socket] # owner[k]]_vars
=============================================================================
