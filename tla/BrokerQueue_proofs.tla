------------------------ MODULE BrokerQueue_proofs ------------------------
(***************************************************************************)
(* Type correctness of the queue, the soundness of its acknowledgements,    *)
(* the one way mutex_messages leaks and what a replay delivers, for any     *)
(* number of publishers, subscribers, connections and messages and any      *)
(* capacity of the cache.                                                   *)
(***************************************************************************)
EXTENDS BrokerQueue, SequenceTheorems, FiniteSetTheorems, TLAPS

\* RemoveAt (list_remove) keeps the elements of a list in their set.
LEMMA RemoveAtType ==
    ASSUME NEW S, NEW s \in Seq(S), NEW i \in DOMAIN s
    PROVE  RemoveAt(s, i) \in Seq(S)
<1>1. Len(s) \in Nat /\ DOMAIN s = 1..Len(s) /\ \A j \in 1..Len(s) : s[j] \in S
    BY LenProperties, ElementOfSeq
<1>2. SubSeq(s, 1, i - 1) \in Seq(S)
    BY <1>1, SubSeqProperties, Z3
<1>3. SubSeq(s, i + 1, Len(s)) \in Seq(S)
    BY <1>1, SubSeqProperties, Z3
<1>. QED BY <1>2, <1>3, ConcatProperties DEF RemoveAt

-----------------------------------------------------------------------------
(* The inductive invariant, in named parts.                                 *)

\* A thread at work has a message; the sockets accepted so far have an owner.
ThreadsOK ==
    /\ \A p \in Publishers : pub[p].pc # "idle" => pub[p].id \in Messages
    /\ \A k \in Sockets :
        /\ handler[k].pc \in {"pick", "replay", "move"} => handler[k].i # 0
        /\ handler[k].pc \in {"replay", "move"} => handler[k].cur \in Messages
        /\ handler[k].pc = "none" <=> k > opened
        /\ owner[k] \in Subscribers <=> k <= opened
        /\ k \in open => k <= opened

\* Wherever the broker keeps a socket, it belongs to the subscriber it is kept
\* for: in the list, in the thread that put it there, and as an old socket.
SocketsOwned ==
    /\ \A i \in DOMAIN subscriptors : owner[subscriptors[i].socket] = subscriptors[i].id
    /\ \A k \in Sockets :
        /\ handler[k].entry # 0 => /\ handler[k].entry \in DOMAIN subscriptors
                                   /\ subscriptors[handler[k].entry].id = owner[k]
                                   /\ k <= opened
        /\ handler[k].old_socket # 0 => /\ owner[handler[k].old_socket] = owner[k]
                                        /\ k <= opened

\* Receivers are accepted sockets; a new message's are not yet marked.
ReceiversOwned ==
    /\ \A m \in Messages : \A r \in receivers[m] : owner[r.socket] \in Subscribers
    /\ \A p \in Publishers : \A r \in pub[p].receivers :
            r.received = 0 /\ owner[r.socket] \in Subscribers

\* An acknowledgement is only sent for a message that was read.
AcksRead == \A a \in acks : a[2] \in got[a[1]]

TypeInv == TypeOK /\ ThreadsOK

IInv == TypeInv /\ SocketsOwned /\ ReceiversOwned /\ AcksRead /\ AckSound

-----------------------------------------------------------------------------
\* The types hold when the broker starts.
LEMMA InitTypeInv == Init => TypeInv
BY BoundsAreNat, NoOneIsNobody
DEF Init, TypeInv, TypeOK, ThreadsOK, IdleThread, NoThread, PublisherState, HandlerState,
    HandlerPCs, Receiver, Messages, Sockets

\* An element of the list of subscriptors is an id with a socket.
LEMMA SubscriptorElement ==
    ASSUME TypeOK, NEW i \in DOMAIN subscriptors
    PROVE  subscriptors[i] \in [id : Subscribers, socket : Sockets]
<1>1. \A S : \A s \in Seq(S) : \A j \in DOMAIN s : s[j] \in S
    OBVIOUS
<1>. QED BY <1>1, Zenon DEF TypeOK

\* The same, field by field.
LEMMA SubscriptorType ==
    TypeOK => \A i \in DOMAIN subscriptors :
                subscriptors[i].id \in Subscribers /\ subscriptors[i].socket \in Sockets
BY SubscriptorElement

\* Every publisher's step keeps the types, whatever partition it is given.
LEMMA PublisherTypeInv ==
    ASSUME TypeInv, NEW p \in Publishers, ReceiveMessage(p) \/ PublisherStep(p)
    PROVE  TypeInv'
<1>. USE BoundsAreNat DEF Messages, Sockets, Receiver, PublisherState, ThreadsOK, TypeInv
<1>1. CASE ReceiveMessage(p)
    BY <1>1, SMTT(20) DEF ReceiveMessage, TypeOK, cacheVars, clientVars
<1>2. CASE SendToSubscriptors(p)
    BY <1>2 DEF SendToSubscriptors, TypeOK, cacheVars
<1>3. CASE StorePayload(p)
    <2>1. pub[p].id \in 1..MaxMessages
        BY <1>3 DEF StorePayload
    <2>2. \A id : DeleteMessageOf(id) => messages' \in Seq(1..MaxMessages)
        BY RemoveAtType DEF DeleteMessageOf, TypeOK
    <2>3. messages' \in Seq(1..MaxMessages)
        BY <1>3, <2>2 DEF StorePayload, TypeOK
    <2>4. ASSUME NEW occupied \in SUBSET partitions,
                 NEW free \in SUBSET [id : Nat, content : 0..MaxMessages],
                 PlacePayload(p, occupied, free)
          PROVE  /\ partitions' \in SUBSET [id : Nat, content : 0..MaxMessages]
                 /\ partition_count' \in Nat
                 /\ partition_of' \in [1..MaxMessages -> Nat]
        BY <2>1, <2>4 DEF PlacePayload, TypeOK
    <2>5. \E occupied \in SUBSET partitions,
             free \in SUBSET [id : Nat, content : 0..MaxMessages] :
                PlacePayload(p, occupied, free)
        <3>1. /\ Occupied \in SUBSET partitions
              /\ Free \in SUBSET [id : Nat, content : 0..MaxMessages]
            BY DEF Occupied, Free, TypeOK
        <3>2. CASE PlacePayload(p, Occupied, Free)
            BY <3>1, <3>2
        <3>3. ASSUME NEW victim \in Occupied,
                     PlacePayload(p, Occupied \ {victim},
                                  Free \cup {[victim EXCEPT !.content = 0]})
              PROVE  \E occupied \in SUBSET partitions,
                        free \in SUBSET [id : Nat, content : 0..MaxMessages] :
                            PlacePayload(p, occupied, free)
            <4>1. Occupied \ {victim} \in SUBSET partitions
                BY <3>1
            <4>2. victim \in [id : Nat, content : 0..MaxMessages]
                BY <3>1 DEF TypeOK
            <4>3. [victim EXCEPT !.content = 0] \in [id : Nat, content : 0..MaxMessages]
                BY <4>2
            <4>4. Free \cup {[victim EXCEPT !.content = 0]}
                    \in SUBSET [id : Nat, content : 0..MaxMessages]
                BY <3>1, <4>3
            <4>. QED BY <3>3, <4>1, <4>4
        <3>. QED BY <1>3, <3>2, <3>3 DEF StorePayload
    <2>. QED BY <1>3, <2>3, <2>4, <2>5 DEF StorePayload, TypeOK, clientVars
<1>4. CASE ListReceivers(p)
    <2>1. NewReceivers \in SUBSET Receiver
        BY SubscriptorType DEF NewReceivers
    <2>. QED BY <1>4, <2>1, ZenonT(40) DEF ListReceivers, TypeOK, cacheVars, clientVars
<1>5. CASE Enqueue(p)
    <2>1. messages' \in Seq(Messages)
        BY <1>5, AppendProperties DEF Enqueue, TypeOK
    <2>2. /\ receivers' \in [Messages -> SUBSET Receiver]
          /\ pub' \in [Publishers -> PublisherState]
        BY <1>5 DEF Enqueue, IdleThread, TypeOK
    <2>. QED BY <1>5, <2>1, <2>2 DEF Enqueue, IdleThread, TypeOK, cacheVars, clientVars
<1>. QED BY <1>1, <1>2, <1>3, <1>4, <1>5 DEF PublisherStep

\* The socket a thread works with is one of its own subscriber's.
LEMMA SocketOfOwner ==
    ASSUME TypeInv, SocketsOwned, NEW k \in Sockets
    PROVE  SocketOf(k) \in Sockets /\ owner[SocketOf(k)] = owner[k]
BY SubscriptorType DEF SocketOf, SocketsOwned, TypeInv

\* What a step of a subscription thread may do to its own record.
LEMMA SetHandler ==
    ASSUME TypeInv, NEW k \in Sockets, NEW h \in HandlerState,
           handler' = [handler EXCEPT ![k] = h],
           handler[k].pc # "none", h.pc # "none",
           h.pc \in {"pick", "replay", "move"} => h.i # 0,
           h.pc \in {"replay", "move"} => h.cur \in Messages,
           UNCHANGED <<pub, opened, owner>>, open' \subseteq open
    PROVE  handler' \in [Sockets -> HandlerState] /\ ThreadsOK'
<1>1. handler' \in [Sockets -> HandlerState]
    BY DEF TypeInv, TypeOK
<1>2. \A j \in Sockets : handler'[j] = IF j = k THEN h ELSE handler[j]
    BY DEF TypeInv, TypeOK
<1>. QED BY <1>1, <1>2 DEF TypeInv, ThreadsOK

\* Every step of a subscription thread keeps the types.
LEMMA HandlerTypeInv ==
    ASSUME TypeInv, SocketsOwned, NEW k \in Sockets,
           HandlerStep(k) \/ Expire(k) \/ Disconnect(k)
    PROVE  TypeInv'
<1>. USE BoundsAreNat DEF Messages, Sockets, TypeInv
<1>0. handler[k] \in HandlerState
    BY DEF TypeOK
<1>1. CASE ExistInQueue(k)
    <2>1. PICK v \in 0..MaxSockets :
            handler' = [handler EXCEPT ![k] = [@ EXCEPT !.pc = "add", !.socket_exist = v]]
        <3>0. 0 \in 0..MaxSockets
            OBVIOUS
        <3>1. CASE EntriesOf(owner[k]) = {}
            BY <1>1, <3>0, <3>1, Zenon DEF ExistInQueue
        <3>2. ASSUME NEW i \in EntriesOf(owner[k]),
                     handler' = [handler EXCEPT ![k] =
                        [@ EXCEPT !.pc = "add", !.socket_exist = subscriptors[i].socket]]
              PROVE  \E v \in 0..MaxSockets :
                        handler' = [handler EXCEPT ![k] =
                                        [@ EXCEPT !.pc = "add", !.socket_exist = v]]
            <4>1. subscriptors[i].socket \in 0..MaxSockets
                BY SubscriptorType DEF EntriesOf
            <4>. QED BY <3>2, <4>1
        <3>. QED BY <1>1, <3>1, <3>2 DEF ExistInQueue
    <2>2. [handler[k] EXCEPT !.pc = "add", !.socket_exist = v] \in HandlerState
        BY <1>0 DEF HandlerState, HandlerPCs
    <2>3. handler' \in [Sockets -> HandlerState] /\ ThreadsOK'
        BY <1>0, <1>1, <2>1, <2>2, SetHandler DEF ExistInQueue, HandlerState, clientVars
    <2>. QED BY <1>1, <2>3 DEF ExistInQueue, TypeOK, cacheVars, clientVars
<1>2. CASE AddSubscriptor(k)
    <2>1. PICK e \in Nat :
            handler' = [handler EXCEPT ![k] = [@ EXCEPT !.pc = "override", !.entry = e]]
        <3>1. handler[k].entry \in Nat /\ Len(subscriptors) + 1 \in Nat
            BY <1>0, LenProperties DEF HandlerState, TypeOK
        <3>2. [handler[k] EXCEPT !.pc = "override", !.entry = handler[k].entry]
                = [handler[k] EXCEPT !.pc = "override"]
            BY <1>0 DEF HandlerState
        <3>. QED BY <1>2, <3>1, <3>2 DEF AddSubscriptor
    <2>2. [handler[k] EXCEPT !.pc = "override", !.entry = e] \in HandlerState
        BY <1>0 DEF HandlerState, HandlerPCs
    <2>3. handler' \in [Sockets -> HandlerState] /\ ThreadsOK'
        BY <1>0, <1>2, <2>1, <2>2, SetHandler DEF AddSubscriptor, HandlerState, clientVars
    <2>4. owner[k] \in Subscribers
        BY <1>2 DEF AddSubscriptor, ThreadsOK, TypeOK
    <2>5. subscriptors' \in Seq([id : Subscribers, socket : Sockets])
        <3>1. [id |-> owner[k], socket |-> k] \in [id : Subscribers, socket : Sockets]
            BY <2>4
        <3>2. CASE subscriptors' = Append(subscriptors, [id |-> owner[k], socket |-> k])
            BY <3>1, <3>2, AppendProperties DEF TypeOK
        <3>. QED BY <1>2, <3>2 DEF AddSubscriptor, TypeOK
    <2>. QED BY <1>2, <2>3, <2>5 DEF AddSubscriptor, TypeOK, cacheVars, clientVars
<1>3. CASE OverrideSocket(k)
    <2>1. PICK v \in 0..MaxSockets :
            handler' = [handler EXCEPT ![k] = [@ EXCEPT !.pc = "lock", !.old_socket = v]]
        <3>1. PICK last \in EntriesOf(owner[k]) :
                handler' = [handler EXCEPT ![k] =
                    [@ EXCEPT !.pc = "lock", !.old_socket = subscriptors[last].socket]]
            BY <1>3 DEF OverrideSocket
        <3>2. subscriptors[last].socket \in 0..MaxSockets
            BY SubscriptorType DEF EntriesOf
        <3>. QED BY <3>1, <3>2
    <2>2. [handler[k] EXCEPT !.pc = "lock", !.old_socket = v] \in HandlerState
        BY <1>0 DEF HandlerState, HandlerPCs
    <2>3. handler' \in [Sockets -> HandlerState] /\ ThreadsOK'
        BY <1>0, <1>3, <2>1, <2>2, SetHandler DEF OverrideSocket, HandlerState, clientVars
    <2>4. subscriptors' \in Seq([id : Subscribers, socket : Sockets])
        <3>1. SocketOf(k) \in Sockets
            BY SocketOfOwner
        <3>2. Len(subscriptors) \in Nat /\ DOMAIN subscriptors = 1..Len(subscriptors)
            BY LenProperties DEF TypeOK
        <3>3. \A i \in DOMAIN subscriptors :
                subscriptors'[i] \in [id : Subscribers, socket : Sockets]
            BY <1>3, <3>1, SubscriptorElement DEF OverrideSocket
        <3>. QED BY <1>3, <3>2, <3>3, IsASeq DEF OverrideSocket
    <2>. QED BY <1>3, <2>3, <2>4 DEF OverrideSocket, TypeOK, cacheVars, clientVars
<1>4. CASE BeginReplay(k)
    <2>. DEFINE h == [handler[k] EXCEPT !.pc = "pick", !.i = 1]
    <2>1. h \in HandlerState /\ h.pc = "pick" /\ h.i # 0
        <3>1. h \in HandlerState
            BY <1>0 DEF HandlerState, HandlerPCs
        <3>2. h.pc = "pick" /\ h.i = 1
            BY <1>0 DEF HandlerState
        <3>. QED BY <3>1, <3>2
    <2>2. handler' = [handler EXCEPT ![k] = h] /\ handler[k].pc # "none"
        BY <1>4 DEF BeginReplay
    <2>. HIDE DEF h
    <2>3. handler' \in [Sockets -> HandlerState] /\ ThreadsOK'
        BY <1>4, <2>1, <2>2, SetHandler DEF BeginReplay, clientVars
    <2>. QED BY <1>4, <2>3 DEF BeginReplay, TypeOK, cacheVars, clientVars
<1>5. CASE PickMessage(k)
    <2>0. handler[k].i \in Nat \ {0}
        BY <1>0, <1>5 DEF PickMessage, ThreadsOK, HandlerState
    <2>1. messages[handler[k].i] \in Messages
        <3>1. Len(messages) \in Nat /\ handler[k].i <= Len(messages)
            BY <1>5, LenProperties DEF PickMessage, TypeOK
        <3>2. handler[k].i \in 1..Len(messages)
            BY <2>0, <3>1
        <3>. QED BY <3>2, ElementOfSeq DEF TypeOK
    <2>2. CASE handler' = [handler EXCEPT ![k].i = @ + 1]
        <3>. DEFINE h == [handler[k] EXCEPT !.i = handler[k].i + 1]
        <3>1. h \in HandlerState /\ h.pc = "pick" /\ h.i # 0
            <4>1. handler[k].i + 1 \in Nat \ {0}
                BY <2>0
            <4>2. \A n \in Nat : [handler[k] EXCEPT !.i = n] \in HandlerState
                BY <1>0 DEF HandlerState
            <4>3. h.pc = "pick" /\ h.i = handler[k].i + 1
                BY <1>0, <1>5 DEF HandlerState, PickMessage
            <4>. QED BY <4>1, <4>2, <4>3
        <3>2. handler' = [handler EXCEPT ![k] = h] /\ handler[k].pc # "none"
            BY <1>0, <1>5, <2>2 DEF PickMessage
        <3>. HIDE DEF h
        <3>3. handler' \in [Sockets -> HandlerState] /\ ThreadsOK'
            BY <1>5, <3>1, <3>2, SetHandler DEF PickMessage, clientVars
        <3>. QED BY <1>5, <3>3 DEF PickMessage, TypeOK, cacheVars, clientVars
    <2>3. ASSUME NEW m \in Messages,
                 handler' = [handler EXCEPT ![k] = [@ EXCEPT !.pc = "replay", !.cur = m]]
          PROVE  TypeInv'
        <3>0. m \in 0..MaxMessages
            OBVIOUS
        <3>1. [handler[k] EXCEPT !.pc = "replay", !.cur = m] \in HandlerState
            BY <1>0, <3>0 DEF HandlerState, HandlerPCs
        <3>2. handler' \in [Sockets -> HandlerState] /\ ThreadsOK'
            BY <1>0, <1>5, <2>0, <2>3, <3>1, SetHandler DEF PickMessage, HandlerState, clientVars
        <3>. QED BY <1>5, <3>2 DEF PickMessage, TypeOK, cacheVars, clientVars
    <2>. QED BY <1>5, <2>1, <2>2, <2>3 DEF PickMessage
<1>6. CASE ReplayMessage(k)
    <2>1. [handler[k] EXCEPT !.pc = "move"] \in HandlerState
        BY <1>0 DEF HandlerState, HandlerPCs
    <2>2. handler[k].cur \in Messages
        BY <1>6 DEF ReplayMessage, ThreadsOK
    <2>0. /\ handler' = [handler EXCEPT ![k] = [handler[k] EXCEPT !.pc = "move"]]
          /\ handler[k].pc = "replay"
          /\ UNCHANGED <<pub, opened, owner>> /\ open' \subseteq open
        BY <1>6 DEF ReplayMessage
    <2>3. handler' \in [Sockets -> HandlerState] /\ ThreadsOK'
        <3>. DEFINE h == [handler[k] EXCEPT !.pc = "move"]
        <3>1. h \in HandlerState /\ handler' = [handler EXCEPT ![k] = h]
            BY <2>0, <2>1
        <3>2. /\ h.pc = "move" /\ h.cur \in Messages
              /\ handler[k].pc # "none" /\ h.i # 0
            BY <1>0, <2>0, <2>1, <2>2 DEF HandlerState, ThreadsOK
        <3>. HIDE DEF h
        <3>. QED BY <2>0, <3>1, <3>2, SetHandler
    <2>4. open' \in SUBSET Sockets /\ inbox' \in [Sockets -> SUBSET Messages]
        <3>1. SocketOf(k) \in Sockets
            BY SocketOfOwner DEF TypeOK
        <3>2. CASE \E q \in PartitionOf(handler[k].cur) :
                    /\ q.content # 0
                    /\ inbox' = IF SocketOf(k) \in open
                                THEN [inbox EXCEPT ![SocketOf(k)] = @ \cup {handler[k].cur}]
                                ELSE inbox
                    /\ open' = open
            <4>. DEFINE sent == inbox[SocketOf(k)] \cup {handler[k].cur}
            <4>1. sent \in SUBSET Messages
                BY <2>2, <3>1 DEF TypeOK
            <4>. QED BY <3>1, <3>2, <4>1 DEF TypeOK
        <3>3. CASE \E q \in PartitionOf(handler[k].cur) :
                    /\ q.content = 0
                    /\ inbox' = [inbox EXCEPT ![SocketOf(k)] = {}]
                    /\ open' = open \ {SocketOf(k)}
            BY <3>1, <3>3 DEF TypeOK
        <3>. QED BY <1>6, <3>2, <3>3 DEF ReplayMessage
    <2>. QED BY <1>6, <2>3, <2>4 DEF ReplayMessage, TypeOK, cacheVars
<1>7. CASE MoveReceiver(k)
    <2>. DEFINE h == [handler[k] EXCEPT !.pc = "pick", !.i = handler[k].i + 1]
    <2>1. h \in HandlerState /\ h.pc = "pick" /\ h.i # 0
        <3>1. handler[k].i + 1 \in Nat \ {0}
            BY <1>0 DEF HandlerState
        <3>2. \A n \in Nat : [handler[k] EXCEPT !.pc = "pick", !.i = n] \in HandlerState
            BY <1>0 DEF HandlerState, HandlerPCs
        <3>3. h.pc = "pick" /\ h.i = handler[k].i + 1
            BY <1>0 DEF HandlerState
        <3>. QED BY <3>1, <3>2, <3>3
    <2>2. handler' = [handler EXCEPT ![k] = h] /\ handler[k].pc # "none"
        BY <1>7 DEF MoveReceiver, Advanced
    <2>. HIDE DEF h
    <2>3. handler' \in [Sockets -> HandlerState] /\ ThreadsOK'
        BY <1>7, <2>1, <2>2, SetHandler DEF MoveReceiver, clientVars
    <2>4. receivers' \in [Messages -> SUBSET Receiver]
        <3>1. SocketOf(k) \in Sockets
            BY SocketOfOwner
        <3>2. \A r \in Receiver : [r EXCEPT !.socket = SocketOf(k)] \in Receiver
            BY <3>1 DEF Receiver
        <3>3. handler[k].cur \in Messages
            BY <1>7 DEF MoveReceiver, ThreadsOK
        <3>4. \A m \in Messages : receivers'[m] \subseteq Receiver
            BY <1>7, <3>2, <3>3 DEF MoveReceiver, TypeOK
        <3>. QED BY <1>7, <3>4 DEF MoveReceiver, TypeOK
    <2>. QED BY <1>7, <2>3, <2>4 DEF MoveReceiver, TypeOK, cacheVars, clientVars
<1>8. CASE MessageNotFound(k)
    <2>1. [handler[k] EXCEPT !.pc = AfterReplay(k)] \in HandlerState
        BY <1>0, <1>8 DEF MessageNotFound, AfterReplay, HandlerState, HandlerPCs
    <2>2. handler' = [handler EXCEPT ![k] = [handler[k] EXCEPT !.pc = AfterReplay(k)]]
        BY <1>8 DEF MessageNotFound, AfterReplay
    <2>3. handler' \in [Sockets -> HandlerState] /\ ThreadsOK'
        BY <1>0, <1>8, <2>1, <2>2, SetHandler DEF MessageNotFound, AfterReplay, HandlerState, clientVars
    <2>. QED BY <1>8, <2>3 DEF MessageNotFound, TypeOK, cacheVars, clientVars
<1>9. CASE EndReplay(k)
    <2>1. [handler[k] EXCEPT !.pc = AfterReplay(k)] \in HandlerState
        BY <1>0, <1>9 DEF EndReplay, AfterReplay, HandlerState, HandlerPCs
    <2>2. handler' = [handler EXCEPT ![k] = [handler[k] EXCEPT !.pc = AfterReplay(k)]]
        BY <1>9 DEF EndReplay, AfterReplay
    <2>3. handler' \in [Sockets -> HandlerState] /\ ThreadsOK'
        BY <1>0, <1>9, <2>1, <2>2, SetHandler DEF EndReplay, AfterReplay, HandlerState, clientVars
    <2>4. InFlight \in SUBSET Messages
        BY DEF InFlight, ThreadsOK
    <2>. QED BY <1>9, <2>3, <2>4 DEF EndReplay, TypeOK, cacheVars, clientVars
<1>10. CASE Expire(k)
    BY <1>10, ZenonT(40) DEF Expire, HandlerState, HandlerPCs, ThreadsOK, TypeOK, cacheVars, clientVars
<1>11. CASE Disconnect(k)
    BY <1>11 DEF Disconnect, ThreadsOK, TypeOK, cacheVars
<1>. QED
    BY <1>1, <1>2, <1>3, <1>4, <1>5, <1>6, <1>7, <1>8, <1>9, <1>10, <1>11 DEF HandlerStep

\* Accepting a connection, a client's reading and an acknowledgement keep them too.
LEMMA ClientTypeInv ==
    ASSUME TypeInv,
           \/ \E s \in Subscribers : Connect(s)
           \/ \E k \in Sockets, m \in Messages : ClientReads(k, m)
           \/ \E a \in acks : AckStep(a)
    PROVE  TypeInv'
<1>. USE BoundsAreNat DEF Messages, Sockets, TypeInv
<1>1. ASSUME NEW s \in Subscribers, Connect(s) PROVE TypeInv'
    <2>1. opened + 1 \in Sockets /\ opened' = opened + 1
        BY <1>1 DEF Connect, TypeOK
    <2>2. handler[opened + 1] \in HandlerState /\ "exists" \in HandlerPCs
        BY <2>1 DEF TypeOK, HandlerPCs
    <2>3. [handler[opened + 1] EXCEPT !.pc = "exists"] \in HandlerState
        BY <2>2 DEF HandlerState
    <2>4. handler' \in [Sockets -> HandlerState]
        BY <1>1, <2>1, <2>3 DEF Connect, TypeOK
    <2>5. \A j \in Sockets : /\ j # opened + 1 => handler'[j] = handler[j] /\ owner'[j] = owner[j]
                             /\ j = opened + 1 => handler'[j].pc = "exists" /\ owner'[j] = s
        BY <1>1, <2>2 DEF Connect, HandlerState, TypeOK
    <2>6. ThreadsOK'
        BY <1>1, <2>1, <2>5, NoOneIsNobody DEF Connect, ThreadsOK, TypeOK
    <2>7. owner' \in [Sockets -> Subscribers \cup {NoOne}] /\ open' \in SUBSET Sockets
        BY <1>1, <2>1 DEF Connect, TypeOK
    <2>8. opened' \in 0..MaxSockets
        BY <2>1
    <2>. QED BY <1>1, <2>4, <2>6, <2>7, <2>8 DEF Connect, TypeOK, cacheVars
<1>2. ASSUME NEW k \in Sockets, NEW m \in Messages, ClientReads(k, m) PROVE TypeInv'
    <2>1. owner[k] \in Subscribers
        BY <1>2 DEF ClientReads, ThreadsOK
    <2>2. /\ got' \in [Subscribers -> SUBSET Messages]
          /\ inbox' \in [Sockets -> SUBSET Messages]
          /\ acks' \in SUBSET (Subscribers \X Messages)
        BY <1>2, <2>1, SMTT(20) DEF ClientReads, TypeOK
    <2>. QED BY <1>2, <2>2 DEF ClientReads, ThreadsOK, TypeOK, cacheVars
<1>3. ASSUME NEW a \in acks, AckTakesSubscriptors(a) PROVE TypeInv'
    BY <1>3 DEF AckTakesSubscriptors, ThreadsOK, TypeOK, cacheVars, clientVars
<1>4. ASSUME NEW a \in acks, AckMarksReceived(a) PROVE TypeInv'
    <2>1. \A r \in Receiver : MarkReceived(r) \in Receiver
        BY DEF MarkReceived, Receiver
    <2>2. a[2] \in Messages
        BY DEF TypeOK
    <2>3. receivers' \in [Messages -> SUBSET Receiver]
        <3>1. ASSUME NEW i \in DOMAIN subscriptors,
                     receivers' = [receivers EXCEPT ![a[2]] =
                                    {IF r.socket = subscriptors[i].socket
                                     THEN MarkReceived(r) ELSE r : r \in @}]
              PROVE  receivers' \in [Messages -> SUBSET Receiver]
            <4>. DEFINE marked == {IF r.socket = subscriptors[i].socket
                                   THEN MarkReceived(r) ELSE r : r \in receivers[a[2]]}
            <4>1. receivers \in [Messages -> SUBSET Receiver]
                BY DEF TypeOK
            <4>2. marked \in SUBSET Receiver
                BY <2>1, <2>2, <4>1
            <4>3. receivers' = [receivers EXCEPT ![a[2]] = marked]
                BY <3>1
            <4>. HIDE DEF marked
            <4>. QED BY <2>2, <4>1, <4>2, <4>3
        <3>. QED BY <1>4, <3>1 DEF AckMarksReceived, Acknowledging, EntriesOf, TypeOK
    <2>. QED BY <1>4, <2>3 DEF AckMarksReceived, ThreadsOK, TypeOK, cacheVars
<1>. QED BY <1>1, <1>2, <1>3, <1>4 DEF AckStep

\* A step that touches no list of sockets and no socket of a thread.
LEMMA SameSockets ==
    ASSUME SocketsOwned, UNCHANGED <<subscriptors, owner, opened>>,
           \A j \in Sockets : /\ handler'[j].entry = handler[j].entry
                              /\ handler'[j].old_socket = handler[j].old_socket
    PROVE  SocketsOwned'
BY DEF SocketsOwned

\* A step that gives one thread's record new values, its sockets apart.
LEMMA SameSocketsOf ==
    ASSUME TypeOK, NEW k \in Sockets, NEW h, handler' = [handler EXCEPT ![k] = h],
           h.entry = handler[k].entry, h.old_socket = handler[k].old_socket
    PROVE  \A j \in Sockets : /\ handler'[j].entry = handler[j].entry
                              /\ handler'[j].old_socket = handler[j].old_socket
BY DEF TypeOK

\* A subscription thread's step keeps sockets with their owners.
LEMMA HandlerSocketsOwned ==
    ASSUME TypeInv, SocketsOwned, NEW k \in Sockets,
           HandlerStep(k) \/ Expire(k) \/ Disconnect(k)
    PROVE  SocketsOwned'
<1>0. handler[k] \in HandlerState /\ handler \in [Sockets -> HandlerState]
    BY DEF TypeInv, TypeOK
<1>1. CASE ExistInQueue(k)
    <2>1. \A j \in Sockets : /\ handler'[j].entry = handler[j].entry
                             /\ handler'[j].old_socket = handler[j].old_socket
        <3>1. \A v : LET h == [handler[k] EXCEPT !.pc = "add", !.socket_exist = v]
                     IN  h.entry = handler[k].entry /\ h.old_socket = handler[k].old_socket
            BY <1>0 DEF HandlerState
        <3>2. \E v : handler' = [handler EXCEPT ![k] =
                                    [@ EXCEPT !.pc = "add", !.socket_exist = v]]
            BY <1>1, Zenon DEF ExistInQueue
        <3>. QED BY <3>1, <3>2, SameSocketsOf DEF TypeInv
    <2>. QED BY <1>1, <2>1, SameSockets DEF ExistInQueue, clientVars
<1>2. CASE AddSubscriptor(k)
    <2>0. k <= opened /\ owner[k] \in Subscribers
        BY <1>2 DEF AddSubscriptor, TypeInv, TypeOK, ThreadsOK, Sockets
    <2>1. CASE handler[k].socket_exist # 0
        <3>1. \A j \in Sockets : /\ handler'[j].entry = handler[j].entry
                                 /\ handler'[j].old_socket = handler[j].old_socket
            <4>. DEFINE h == [handler[k] EXCEPT !.pc = "override"]
            <4>1. handler' = [handler EXCEPT ![k] = h]
                BY <1>2, <2>1 DEF AddSubscriptor
            <4>2. h.entry = handler[k].entry /\ h.old_socket = handler[k].old_socket
                BY <1>0 DEF HandlerState
            <4>. HIDE DEF h
            <4>. QED BY <4>1, <4>2, SameSocketsOf DEF TypeInv
        <3>. QED BY <1>2, <2>1, <3>1, SameSockets DEF AddSubscriptor, clientVars
    <2>2. CASE handler[k].socket_exist = 0
        <3>1. subscriptors' = Append(subscriptors, [id |-> owner[k], socket |-> k])
            BY <1>2, <2>2 DEF AddSubscriptor
        <3>2. /\ Len(subscriptors) \in Nat
              /\ DOMAIN subscriptors = 1..Len(subscriptors)
              /\ DOMAIN subscriptors' = 1..(Len(subscriptors) + 1)
              /\ \A i \in 1..Len(subscriptors) : subscriptors'[i] = subscriptors[i]
              /\ subscriptors'[Len(subscriptors) + 1] = [id |-> owner[k], socket |-> k]
            <4>1. [id |-> owner[k], socket |-> k] \in [id : Subscribers, socket : Sockets]
                BY <2>0
            <4>. QED BY <3>1, <4>1, AppendProperties, LenProperties DEF TypeInv, TypeOK
        <3>3. \A j \in Sockets :
                /\ handler'[j].entry = IF j = k THEN Len(subscriptors) + 1 ELSE handler[j].entry
                /\ handler'[j].old_socket = handler[j].old_socket
            <4>. DEFINE h == [handler[k] EXCEPT !.pc = "override",
                                                !.entry = Len(subscriptors) + 1]
            <4>1. handler' = [handler EXCEPT ![k] = h]
                BY <1>2, <2>2 DEF AddSubscriptor
            <4>2. h.entry = Len(subscriptors) + 1 /\ h.old_socket = handler[k].old_socket
                BY <1>0 DEF HandlerState
            <4>. HIDE DEF h
            <4>. QED BY <1>0, <4>1, <4>2
        <3>4. UNCHANGED <<owner, opened>>
            BY <1>2 DEF AddSubscriptor, clientVars
        <3>. QED BY <2>0, <3>2, <3>3, <3>4 DEF SocketsOwned
    <2>. QED BY <2>1, <2>2
<1>3. CASE OverrideSocket(k)
    <2>1. SocketOf(k) \in Sockets /\ owner[SocketOf(k)] = owner[k]
        BY SocketOfOwner
    <2>2. /\ DOMAIN subscriptors' = DOMAIN subscriptors
          /\ \A i \in DOMAIN subscriptors :
                /\ subscriptors'[i].id = subscriptors[i].id
                /\ subscriptors'[i].socket = IF subscriptors[i].id = owner[k]
                                             THEN SocketOf(k) ELSE subscriptors[i].socket
        <3>1. \A i \in DOMAIN subscriptors :
                subscriptors[i] \in [id : Subscribers, socket : Sockets]
            BY SubscriptorElement DEF TypeInv
        <3>. QED BY <1>3, <3>1 DEF OverrideSocket
    <2>3. PICK last \in EntriesOf(owner[k]) :
            handler' = [handler EXCEPT ![k] =
                [@ EXCEPT !.pc = "lock", !.old_socket = subscriptors[last].socket]]
        BY <1>3 DEF OverrideSocket
    <2>4. \A j \in Sockets :
            /\ handler'[j].entry = handler[j].entry
            /\ handler'[j].old_socket = IF j = k THEN subscriptors[last].socket
                                        ELSE handler[j].old_socket
        BY <1>0, <2>3 DEF HandlerState
    <2>5. owner[subscriptors[last].socket] = owner[k]
        BY DEF EntriesOf, SocketsOwned
    <2>6. UNCHANGED <<owner, opened>>
        BY <1>3 DEF OverrideSocket, clientVars
    <2>7. k <= opened
        BY <1>3 DEF OverrideSocket, TypeInv, TypeOK, ThreadsOK, Sockets
    <2>. QED BY <2>1, <2>2, <2>4, <2>5, <2>6, <2>7 DEF SocketsOwned
<1>4. CASE \/ BeginReplay(k) \/ PickMessage(k) \/ ReplayMessage(k) \/ MoveReceiver(k)
           \/ MessageNotFound(k) \/ EndReplay(k) \/ Expire(k) \/ Disconnect(k)
    <2>1. \A j \in Sockets : /\ handler'[j].entry = handler[j].entry
                             /\ handler'[j].old_socket = handler[j].old_socket
        <3>1. CASE Disconnect(k)
            BY <3>1 DEF Disconnect
        <3>2. CASE BeginReplay(k) \/ MoveReceiver(k)
            <4>1. \A i : LET h == [handler[k] EXCEPT !.pc = "pick", !.i = i]
                         IN  h.entry = handler[k].entry /\ h.old_socket = handler[k].old_socket
                BY <1>0 DEF HandlerState
            <4>2. \E i : handler' = [handler EXCEPT ![k] = [@ EXCEPT !.pc = "pick", !.i = i]]
                BY <3>2, Zenon DEF BeginReplay, MoveReceiver
            <4>. QED BY <4>1, <4>2, SameSocketsOf DEF TypeInv
        <3>4. CASE PickMessage(k)
            <4>1. \A m : LET h == [handler[k] EXCEPT !.pc = "replay", !.cur = m]
                         IN  h.entry = handler[k].entry /\ h.old_socket = handler[k].old_socket
                BY <1>0 DEF HandlerState
            <4>2. \A i : LET h == [handler[k] EXCEPT !.i = i]
                         IN  h.entry = handler[k].entry /\ h.old_socket = handler[k].old_socket
                BY <1>0 DEF HandlerState
            <4>3. \/ \E m : handler' = [handler EXCEPT ![k] =
                                            [@ EXCEPT !.pc = "replay", !.cur = m]]
                  \/ \E i : handler' = [handler EXCEPT ![k] = [@ EXCEPT !.i = i]]
                <5>. DEFINE m == messages[handler[k].i]
                <5>1. CASE AlreadyReceived(k, m)
                    <6>1. handler' = [handler EXCEPT ![k] = [@ EXCEPT !.i = handler[k].i + 1]]
                        BY <3>4, <5>1 DEF PickMessage
                    <6>. QED BY <6>1, Zenon
                <5>2. CASE ~AlreadyReceived(k, m)
                    BY <3>4, <5>2, Zenon DEF PickMessage
                <5>. QED BY <5>1, <5>2
            <4>4. CASE \E m : handler' = [handler EXCEPT ![k] =
                                            [@ EXCEPT !.pc = "replay", !.cur = m]]
                BY <4>1, <4>4, SameSocketsOf DEF TypeInv
            <4>5. CASE \E i : handler' = [handler EXCEPT ![k] = [@ EXCEPT !.i = i]]
                BY <4>2, <4>5, SameSocketsOf DEF TypeInv
            <4>. QED BY <4>3, <4>4, <4>5
        <3>3. CASE ReplayMessage(k) \/ MessageNotFound(k) \/ EndReplay(k) \/ Expire(k)
            <4>1. \A pc : LET h == [handler[k] EXCEPT !.pc = pc]
                          IN  h.entry = handler[k].entry /\ h.old_socket = handler[k].old_socket
                BY <1>0 DEF HandlerState
            <4>2. \E pc : handler' = [handler EXCEPT ![k] = [@ EXCEPT !.pc = pc]]
                BY <3>3, Zenon DEF ReplayMessage, MessageNotFound, EndReplay, Expire
            <4>. QED BY <4>1, <4>2, SameSocketsOf DEF TypeInv
        <3>. QED BY <1>4, <3>1, <3>2, <3>3, <3>4
    <2>2. UNCHANGED <<subscriptors, owner, opened>>
        BY <1>4 DEF BeginReplay, PickMessage, ReplayMessage, MoveReceiver,
            MessageNotFound, EndReplay, Expire, Disconnect, clientVars
    <2>. QED BY <2>1, <2>2, SameSockets
<1>. QED BY <1>1, <1>2, <1>3, <1>4 DEF HandlerStep

\* So does every other step.
LEMMA NextSocketsOwned ==
    ASSUME TypeInv, SocketsOwned, [Next]_vars
    PROVE  SocketsOwned'
<1>1. CASE UNCHANGED vars
    BY <1>1 DEF vars, SocketsOwned
<1>2. ASSUME NEW p \in Publishers, ReceiveMessage(p) \/ PublisherStep(p)
      PROVE  SocketsOwned'
    BY <1>2, SameSockets
    DEF PublisherStep, ReceiveMessage, SendToSubscriptors, StorePayload, ListReceivers,
        Enqueue, clientVars
<1>3. ASSUME NEW s \in Subscribers, Connect(s) PROVE SocketsOwned'
    <2>1. opened + 1 \in Sockets /\ opened' = opened + 1 /\ opened \in Nat
        BY <1>3, BoundsAreNat DEF Connect, TypeInv, TypeOK, Sockets
    <2>2. \A j \in Sockets : /\ handler'[j].entry = handler[j].entry
                             /\ handler'[j].old_socket = handler[j].old_socket
                             /\ j # opened + 1 => owner'[j] = owner[j]
        BY <1>3 DEF Connect, HandlerState, TypeInv, TypeOK
    <2>3. UNCHANGED subscriptors
        BY <1>3 DEF Connect
    <2>4. \A i \in DOMAIN subscriptors :
            subscriptors[i].socket # opened + 1 /\ subscriptors[i].socket \in Sockets
        <3>1. \A i \in DOMAIN subscriptors : owner[subscriptors[i].socket] \in Subscribers
            BY SubscriptorType DEF SocketsOwned, TypeInv
        <3>. QED BY <2>1, <3>1, SubscriptorType DEF TypeInv, ThreadsOK
    <2>5. \A j \in Sockets : handler[j].old_socket # 0 /\ j <= opened =>
            handler[j].old_socket # opened + 1 /\ handler[j].old_socket \in Sockets
        <3>1. \A j \in Sockets : handler[j].old_socket \in 0..MaxSockets
            BY DEF HandlerState, TypeInv, TypeOK
        <3>2. \A j \in Sockets : handler[j].old_socket # 0 =>
                handler[j].old_socket \in Sockets /\ owner[handler[j].old_socket] = owner[j]
            BY <3>1, BoundsAreNat DEF SocketsOwned, Sockets
        <3>. QED BY <2>1, <3>2 DEF TypeInv, ThreadsOK
    <2>. QED BY <2>1, <2>2, <2>3, <2>4, <2>5 DEF SocketsOwned, Sockets
<1>4. ASSUME NEW k \in Sockets, HandlerStep(k) \/ Expire(k) \/ Disconnect(k)
      PROVE  SocketsOwned'
    BY <1>4, HandlerSocketsOwned
<1>5. ASSUME NEW k \in Sockets, NEW m \in Messages, ClientReads(k, m) PROVE SocketsOwned'
    BY <1>5, SameSockets DEF ClientReads
<1>6. ASSUME NEW a \in acks, AckStep(a) PROVE SocketsOwned'
    BY <1>6, SameSockets DEF AckStep, AckTakesSubscriptors, AckMarksReceived, clientVars
<1>. QED BY <1>1, <1>2, <1>3, <1>4, <1>5, <1>6 DEF Next, Finished

-----------------------------------------------------------------------------
(* Receivers, acknowledgements and what clients have read.                  *)

\* Every step but Connect leaves the owners alone; Connect only adds one.
LEMMA OwnersKept ==
    ASSUME TypeInv, [Next]_vars
    PROVE  \A j \in Sockets : owner[j] \in Subscribers => owner'[j] = owner[j]
<1>1. ASSUME NEW s \in Subscribers, Connect(s)
      PROVE  \A j \in Sockets : owner[j] \in Subscribers => owner'[j] = owner[j]
    <2>1. \A j \in Sockets : owner[j] \in Subscribers => j # opened + 1
        BY BoundsAreNat DEF TypeInv, ThreadsOK, TypeOK, Sockets
    <2>. QED BY <1>1, <2>1 DEF Connect, TypeInv, TypeOK
<1>2. CASE ~ \E s \in Subscribers : Connect(s)
    <2>1. UNCHANGED owner
        BY <1>2 DEF Next, vars, PublisherStep, ReceiveMessage, SendToSubscriptors,
            StorePayload, ListReceivers, Enqueue, HandlerStep, ExistInQueue, AddSubscriptor,
            OverrideSocket, BeginReplay, PickMessage, ReplayMessage, MoveReceiver,
            MessageNotFound, EndReplay, Expire, Disconnect, ClientReads, AckStep,
            AckTakesSubscriptors, AckMarksReceived, Finished, clientVars
    <2>. QED BY <2>1
<1>. QED BY <1>1, <1>2

\* Acknowledgements under way stay for messages that were read, and nothing read is unread.
LEMMA NextAcksRead ==
    ASSUME TypeInv, AcksRead, [Next]_vars
    PROVE  AcksRead' /\ \A s \in Subscribers : got[s] \subseteq got'[s]
<1>1. ASSUME NEW k \in Sockets, NEW m \in Messages, ClientReads(k, m)
      PROVE  AcksRead' /\ \A s \in Subscribers : got[s] \subseteq got'[s]
    <2>1. owner[k] \in Subscribers
        BY <1>1 DEF ClientReads, TypeInv, ThreadsOK
    <2>2. \A s \in Subscribers : got'[s] = IF s = owner[k] THEN got[s] \cup {m} ELSE got[s]
        BY <1>1, <2>1 DEF ClientReads, TypeInv, TypeOK
    <2>3. \A a \in acks' : a[1] \in Subscribers
        BY <1>1, <2>1 DEF ClientReads, TypeInv, TypeOK
    <2>. QED BY <1>1, <2>2, <2>3 DEF ClientReads, AcksRead
<1>2. CASE UNCHANGED got /\ acks' \subseteq acks
    BY <1>2 DEF AcksRead
<1>3. CASE ~ \E k \in Sockets, m \in Messages : ClientReads(k, m)
    <2>1. UNCHANGED got /\ acks' \subseteq acks
        BY <1>3 DEF Next, vars, PublisherStep, ReceiveMessage, SendToSubscriptors,
            StorePayload, ListReceivers, Enqueue, HandlerStep, ExistInQueue, AddSubscriptor,
            OverrideSocket, BeginReplay, PickMessage, ReplayMessage, MoveReceiver,
            MessageNotFound, EndReplay, Expire, Disconnect, Connect, AckStep,
            AckTakesSubscriptors, AckMarksReceived, Finished, clientVars
    <2>. QED BY <1>2, <2>1
<1>. QED BY <1>1, <1>3

\* A receiver that may stand in the list of message m.
Sound(m, r) ==
    /\ owner[r.socket] \in Subscribers
    /\ r.received = 1 => m \in got[owner[r.socket]]

\* ReceiversOwned and AckSound, receiver by receiver.
LEMMA SoundReceivers ==
    (ReceiversOwned /\ AckSound) <=>
        /\ \A m \in Messages : \A r \in receivers[m] : Sound(m, r)
        /\ \A p \in Publishers : \A r \in pub[p].receivers :
                r.received = 0 /\ owner[r.socket] \in Subscribers
BY DEF ReceiversOwned, AckSound, Sound

\* Sound receivers stay sound: owners are kept, what was read stays read.
LEMMA SoundKept ==
    ASSUME TypeInv, AcksRead, [Next]_vars, NEW m \in Messages, NEW r \in Receiver,
           Sound(m, r)
    PROVE  Sound(m, r)'
<1>1. r.socket \in Sockets
    BY DEF Receiver
<1>2. owner'[r.socket] = owner[r.socket]
    BY <1>1, OwnersKept DEF Sound
<1>3. got[owner[r.socket]] \subseteq got'[owner[r.socket]]
    BY NextAcksRead DEF Sound
<1>. QED BY <1>2, <1>3 DEF Sound

\* A step that gives no list a receiver it did not have.
LEMMA NoNewReceiver ==
    ASSUME IInv, [Next]_vars, UNCHANGED receivers,
           \A p \in Publishers : pub'[p].receivers \subseteq pub[p].receivers
    PROVE  ReceiversOwned' /\ AckSound'
<1>1. \A m \in Messages : receivers[m] \subseteq Receiver
    BY DEF IInv, TypeInv, TypeOK
<1>2. \A p \in Publishers : \A r \in pub[p].receivers : r.socket \in Sockets
    BY DEF IInv, TypeInv, TypeOK, PublisherState, Receiver
<1>3. \A m \in Messages : \A r \in receivers'[m] : Sound(m, r)'
    BY <1>1, SoundReceivers, SoundKept DEF IInv
<1>4. \A p \in Publishers : \A r \in pub'[p].receivers :
            r.received = 0 /\ owner'[r.socket] \in Subscribers
    BY <1>2, SoundReceivers, OwnersKept DEF IInv
<1>. QED BY <1>3, <1>4 DEF ReceiversOwned, AckSound, Sound

\* The four steps that fill or change a list of receivers.
LEMMA PublisherReceivers ==
    ASSUME IInv, NEW p \in Publishers, ListReceivers(p) \/ Enqueue(p)
    PROVE  ReceiversOwned' /\ AckSound'
<1>. USE DEF IInv
<1>1. UNCHANGED <<owner, got>>
    BY DEF ListReceivers, Enqueue, clientVars
<1>2. CASE ListReceivers(p)
    <2>1. \A r \in NewReceivers : r.received = 0 /\ owner[r.socket] \in Subscribers
        BY SubscriptorType DEF NewReceivers, SocketsOwned, TypeInv
    <2>2. \A q \in Publishers :
            pub'[q].receivers = IF q = p THEN NewReceivers ELSE pub[q].receivers
        BY <1>2 DEF ListReceivers, TypeInv, TypeOK, PublisherState
    <2>3. UNCHANGED receivers
        BY <1>2 DEF ListReceivers
    <2>. QED BY <1>1, <2>1, <2>2, <2>3 DEF ReceiversOwned, AckSound
<1>3. CASE Enqueue(p)
    <2>1. pub[p].id \in Messages
        BY <1>3 DEF Enqueue, TypeInv, ThreadsOK
    <2>2. \A m \in Messages :
            receivers'[m] = IF m = pub[p].id THEN pub[p].receivers ELSE receivers[m]
        BY <1>3, <2>1 DEF Enqueue, TypeInv, TypeOK
    <2>3. \A q \in Publishers :
            pub'[q].receivers = IF q = p THEN {} ELSE pub[q].receivers
        BY <1>3 DEF Enqueue, IdleThread, TypeInv, TypeOK
    <2>. QED BY <1>1, <2>2, <2>3 DEF ReceiversOwned, AckSound
<1>. QED BY <1>2, <1>3

\* A replay that moves a receiver to the new socket keeps its flag true of its owner.
LEMMA MoveReceivers ==
    ASSUME IInv, NEW k \in Sockets, MoveReceiver(k)
    PROVE  ReceiversOwned' /\ AckSound'
<1>. USE DEF IInv
<1>1. UNCHANGED <<owner, got, pub>>
    BY DEF MoveReceiver, clientVars
<1>2. SocketOf(k) \in Sockets /\ owner[SocketOf(k)] = owner[k]
    BY SocketOfOwner
<1>3. ASSUME NEW m \in Messages, NEW r \in receivers'[m]
      PROVE  Sound(m, r)
    <2>1. handler[k].cur \in Messages
        BY DEF MoveReceiver, TypeInv, ThreadsOK
    <2>2. CASE r \in receivers[m]
        BY <2>2, SoundReceivers
    <2>3. CASE r \notin receivers[m]
        <3>1. PICK r0 \in receivers[m] : /\ r0.socket = handler[k].old_socket
                                         /\ r = [r0 EXCEPT !.socket = SocketOf(k)]
            BY <2>1, <2>3 DEF MoveReceiver, TypeInv, TypeOK
        <3>2. Sound(m, r0) /\ r0 \in Receiver
            BY SoundReceivers DEF TypeInv, TypeOK
        <3>3. r.socket = SocketOf(k) /\ r.received = r0.received
            BY <3>1, <3>2 DEF Receiver
        <3>4. owner[r0.socket] = owner[k]
            BY <3>1, <3>2, BoundsAreNat DEF SocketsOwned, Receiver, Sockets
        <3>. QED BY <1>2, <3>2, <3>3, <3>4 DEF Sound
    <2>. QED BY <2>2, <2>3
<1>. QED BY <1>1, <1>3 DEF Sound, ReceiversOwned, AckSound

\* An acknowledgement marks a receiver of a subscriber that read the message.
LEMMA AckedReceivers ==
    ASSUME IInv, NEW a \in acks, AckMarksReceived(a)
    PROVE  ReceiversOwned' /\ AckSound'
<1>. USE DEF IInv
<1>1. UNCHANGED <<owner, got, pub>>
    BY DEF AckMarksReceived
<1>2. a[1] \in Subscribers /\ a[2] \in Messages /\ a[2] \in got[a[1]]
    BY DEF TypeInv, TypeOK, AcksRead
<1>3. ASSUME NEW i \in EntriesOf(a[1]),
             receivers' = [receivers EXCEPT ![a[2]] =
                            {IF r.socket = subscriptors[i].socket
                             THEN MarkReceived(r) ELSE r : r \in @}],
             NEW m \in Messages, NEW r \in receivers'[m]
      PROVE  Sound(m, r)
    <2>1. CASE r \in receivers[m]
        BY <2>1, SoundReceivers
    <2>2. CASE r \notin receivers[m]
        <3>1. PICK r0 \in receivers[m] : /\ r0.socket = subscriptors[i].socket
                                         /\ r = MarkReceived(r0)
                                         /\ m = a[2]
            BY <1>2, <1>3, <2>2 DEF TypeInv, TypeOK
        <3>2. r0 \in Receiver /\ r.socket = r0.socket
            BY <3>1 DEF TypeInv, TypeOK, Receiver, MarkReceived
        <3>3. owner[r.socket] = a[1]
            BY <3>1, <3>2 DEF EntriesOf, SocketsOwned
        <3>. QED BY <1>2, <3>1, <3>3 DEF Sound
    <2>. QED BY <2>1, <2>2
<1>4. \A m \in Messages : \A r \in receivers'[m] : Sound(m, r)
    <2>1. CASE receivers' = receivers
        BY <2>1, SoundReceivers
    <2>. QED BY <1>3, <2>1 DEF AckMarksReceived, Acknowledging
<1>. QED BY <1>1, <1>4 DEF Sound, ReceiversOwned, AckSound

\* No step makes a flag wrong.
LEMMA NextReceivers ==
    ASSUME IInv, [Next]_vars
    PROVE  ReceiversOwned' /\ AckSound'
<1>1. CASE \E p \in Publishers : ListReceivers(p) \/ Enqueue(p)
    BY <1>1, PublisherReceivers
<1>2. CASE \E k \in Sockets : MoveReceiver(k)
    BY <1>2, MoveReceivers
<1>3. CASE \E a \in acks : AckMarksReceived(a)
    BY <1>3, AckedReceivers
<1>4. CASE /\ ~ \E p \in Publishers : ListReceivers(p) \/ Enqueue(p)
           /\ ~ \E k \in Sockets : MoveReceiver(k)
           /\ ~ \E a \in acks : AckMarksReceived(a)
    <2>1. UNCHANGED receivers
        BY <1>4 DEF Next, vars, PublisherStep, ReceiveMessage, SendToSubscriptors,
            StorePayload, HandlerStep, ExistInQueue, AddSubscriptor, OverrideSocket,
            BeginReplay, PickMessage, ReplayMessage, MessageNotFound, EndReplay, Expire,
            Disconnect, Connect, ClientReads, AckStep, AckTakesSubscriptors, Finished
    <2>2. \A p \in Publishers : pub'[p].receivers \subseteq pub[p].receivers
        <3>1. ASSUME NEW q \in Publishers,
                     ReceiveMessage(q) \/ SendToSubscriptors(q) \/ StorePayload(q)
              PROVE  \A p \in Publishers : pub'[p].receivers \subseteq pub[p].receivers
            <4>1. pub \in [Publishers -> PublisherState]
                BY DEF IInv, TypeInv, TypeOK
            <4>2. CASE ReceiveMessage(q)
                BY <4>1, <4>2 DEF ReceiveMessage
            <4>3. CASE SendToSubscriptors(q)
                BY <4>1, <4>3 DEF SendToSubscriptors, PublisherState
            <4>4. CASE StorePayload(q)
                BY <4>1, <4>4 DEF StorePayload, PublisherState
            <4>. QED BY <3>1, <4>2, <4>3, <4>4
        <3>2. CASE ~ \E q \in Publishers :
                    ReceiveMessage(q) \/ SendToSubscriptors(q) \/ StorePayload(q)
            <4>1. UNCHANGED pub
                BY <1>4, <3>2 DEF Next, vars, PublisherStep, HandlerStep, ExistInQueue,
                    AddSubscriptor, OverrideSocket, BeginReplay, PickMessage, ReplayMessage,
                    MessageNotFound, EndReplay, Expire, Disconnect, Connect, ClientReads,
                    AckStep, AckTakesSubscriptors, Finished
            <4>. QED BY <4>1
        <3>. QED BY <3>1, <3>2
    <2>. QED BY <2>1, <2>2, NoNewReceiver
<1>. QED BY <1>1, <1>2, <1>3, <1>4

\* Every step keeps the types.
LEMMA NextTypeInv ==
    ASSUME TypeInv, SocketsOwned, [Next]_vars
    PROVE  TypeInv'
<1>1. CASE UNCHANGED vars
    BY <1>1 DEF vars, TypeInv, TypeOK, ThreadsOK
<1>2. CASE Next
    BY <1>1, <1>2, PublisherTypeInv, HandlerTypeInv, ClientTypeInv DEF Next, Finished
<1>. QED BY <1>1, <1>2

\* The invariant is inductive.
LEMMA InitIInv == Init => IInv
<1>. SUFFICES ASSUME Init PROVE SocketsOwned /\ ReceiversOwned /\ AcksRead /\ AckSound
    BY InitTypeInv DEF IInv
<1>. QED
    BY DEF Init, SocketsOwned, ReceiversOwned, AcksRead, AckSound, IdleThread, NoThread

\* The invariant is inductive.
LEMMA NextIInv == IInv /\ [Next]_vars => IInv'
BY NextTypeInv, NextSocketsOwned, NextAcksRead, NextReceivers DEF IInv

\* What every behaviour of the broker queue keeps, with AckSound among it: whose the sockets, the
\* receivers and the acknowledgements are (process_new_subscription, process_message_received).
THEOREM Invariance == Spec => []IInv
BY InitIInv, NextIInv, PTL DEF Spec

\* Every variable keeps its type: no thread of broker.c ever works with a
\* message, socket or subscriber that was not given out.
THEOREM TypeCorrect == Spec => []TypeOK
<1>1. IInv => TypeOK
    BY DEF IInv, TypeInv
<1>. QED BY <1>1, Invariance, PTL

\* process_message_ack and send_all_messages never credit a subscriber with a
\* message its client has not read, whatever the interleaving of connections,
\* overridden sockets, evictions, replays and acknowledgements.
THEOREM AcknowledgedWasRead == Spec => []AckSound
<1>1. IInv => AckSound
    BY DEF IInv
<1>. QED BY <1>1, Invariance, PTL

-----------------------------------------------------------------------------
(* Why mutex_messages leaks only when a message has lost its partition.       *)

\* Every message on its way has an id of its own, and no partition before store_message gave it one.
IdsOK ==
    /\ \A p \in Publishers : pub[p].pc # "idle" => pub[p].id <= message_count
    /\ \A p, q \in Publishers :
            pub[p].pc # "idle" /\ pub[q].pc # "idle" /\ pub[p].id = pub[q].id => p = q
    /\ \A m \in Messages : m > message_count => partition_of[m] = 0
    /\ \A p \in Publishers : pub[p].pc \in {"send", "store"} => partition_of[pub[p].id] = 0
    /\ \A p \in Publishers : pub[p].pc \in {"snapshot", "enqueue"} => partition_of[pub[p].id] # 0

\* Partition ids were given out, and none is 0.
PartitionIds ==
    /\ \A q \in partitions : q.id \in 1..partition_count
    /\ \A m \in Messages : partition_of[m] <= partition_count

Stored == {m \in Messages : partition_of[m] # 0}

\* Queued messages, and those a replay went on with, were stored.
QueuedStored ==
    /\ messages \in Seq(Stored)
    /\ \A k \in Sockets : handler[k].cur # 0 => handler[k].cur \in Stored

\* Only the holder of mutex_messages is in its replay loop.
ReplayHolds == \A k \in Sockets : Replaying(k) => mutex_messages = k

LeakInv == IdsOK /\ PartitionIds /\ QueuedStored /\ ReplayHolds /\ LeakedOnlyWithoutPartition

\* A payload's partition: a new id or one that was free, of a message that had none.
LEMMA PlaceFacts ==
    ASSUME TypeInv, IdsOK, PartitionIds, NEW p \in Publishers, pub[p].pc = "store",
           NEW occupied, NEW free, PlacePayload(p, occupied, free),
           \A q \in occupied \cup free : \E r \in partitions : q.id = r.id
    PROVE  /\ partition_count' \in Nat /\ partition_count <= partition_count'
           /\ \A q \in partitions' : /\ q.id \in 1..partition_count'
                                     /\ q.id <= partition_count => \E r \in partitions : q.id = r.id
           /\ \A m \in Messages \ {pub[p].id} : partition_of'[m] = partition_of[m]
           /\ partition_of'[pub[p].id] \in 1..partition_count'
<1>. USE DEF TypeInv, Messages
<1>1. PICK kept \in SUBSET free, id \in {partition_count + 1} \cup {f.id : f \in free} :
            /\ partitions' = occupied \cup {f \in kept : f.id # id}
                                  \cup {[id |-> id, content |-> pub[p].id]}
            /\ partition_count' = IF id > partition_count THEN id ELSE partition_count
            /\ partition_of' = [partition_of EXCEPT ![pub[p].id] = id]
    BY DEF PlacePayload
<1>2. partition_count \in Nat /\ \A r \in partitions : r.id \in 1..partition_count
    BY DEF TypeOK, PartitionIds
<1>3. \A q \in occupied \cup free : q.id \in 1..partition_count
    BY <1>2
<1>4. id = partition_count + 1 \/ (id \in 1..partition_count /\ \E r \in partitions : id = r.id)
    BY <1>2, <1>3
<1>5. partition_count' \in Nat /\ partition_count <= partition_count' /\ id \in 1..partition_count'
    BY <1>1, <1>2, <1>4
<1>6. ASSUME NEW q \in partitions'
      PROVE  /\ q.id \in 1..partition_count'
             /\ q.id <= partition_count => \E r \in partitions : q.id = r.id
    <2>1. q \in occupied \cup free \/ q.id = id
        BY <1>1
    <2>2. CASE q \in occupied \cup free
        BY <1>2, <1>3, <1>5, <2>2
    <2>3. CASE q.id = id
        BY <1>2, <1>4, <1>5, <2>3
    <2>. QED BY <2>1, <2>2, <2>3
<1>7. pub[p].id \in Messages /\ partition_of \in [Messages -> Nat]
    BY DEF TypeOK, ThreadsOK
<1>8. /\ \A m \in Messages \ {pub[p].id} : partition_of'[m] = partition_of[m]
      /\ partition_of'[pub[p].id] = id
    BY <1>1, <1>7
<1>. QED BY <1>5, <1>6, <1>8

\* A store gives the message an id above all the others and a partition of its own.
LEMMA StoreFacts ==
    ASSUME TypeInv, LeakInv, NEW p \in Publishers, StorePayload(p)
    PROVE  /\ partition_count' \in Nat /\ partition_count <= partition_count'
           /\ \A q \in partitions' : /\ q.id \in 1..partition_count'
                                     /\ q.id <= partition_count => \E r \in partitions : q.id = r.id
           /\ \A m \in Messages \ {pub[p].id} : partition_of'[m] = partition_of[m]
           /\ partition_of'[pub[p].id] \in 1..partition_count'
           /\ messages' \in Seq(Stored)
<1>1. pub[p].pc = "store" /\ IdsOK /\ PartitionIds
    BY DEF StorePayload, LeakInv
<1>2. \A q \in Occupied \cup Free : \E r \in partitions : q.id = r.id
    BY DEF Occupied, Free
<1>3. CASE messages' = messages /\ PlacePayload(p, Occupied, Free)
    BY <1>1, <1>2, <1>3, PlaceFacts DEF LeakInv, QueuedStored
<1>4. ASSUME NEW victim \in Occupied, DeleteMessageOf(victim.id),
             PlacePayload(p, Occupied \ {victim}, Free \cup {[victim EXCEPT !.content = 0]})
      PROVE  /\ partition_count' \in Nat /\ partition_count <= partition_count'
             /\ \A q \in partitions' :
                    /\ q.id \in 1..partition_count'
                    /\ q.id <= partition_count => \E r \in partitions : q.id = r.id
             /\ \A m \in Messages \ {pub[p].id} : partition_of'[m] = partition_of[m]
             /\ partition_of'[pub[p].id] \in 1..partition_count'
             /\ messages' \in Seq(Stored)
    <2>. DEFINE occupied == Occupied \ {victim}
                free == Free \cup {[victim EXCEPT !.content = 0]}
    <2>1. \A q \in occupied \cup free : \E r \in partitions : q.id = r.id
        <3>1. victim \in partitions /\ victim \in [id : Nat, content : 0..MaxMessages]
            BY DEF Occupied, TypeInv, TypeOK
        <3>2. [victim EXCEPT !.content = 0].id = victim.id
            BY <3>1
        <3>. QED BY <1>2, <3>1, <3>2
    <2>2. messages' \in Seq(Stored)
        BY <1>4, RemoveAtType DEF DeleteMessageOf, LeakInv, QueuedStored
    <2>3. PlacePayload(p, occupied, free)
        BY <1>4
    <2>. HIDE DEF occupied, free
    <2>. QED BY <1>1, <2>1, <2>2, <2>3, PlaceFacts
<1>. QED BY <1>3, <1>4 DEF StorePayload

\* A message that has no partition never gets one again: ids of partitions that are gone are not
\* used again, and a queued message is not stored again.
LEMMA StoreLeakInv ==
    ASSUME TypeInv, LeakInv, NEW p \in Publishers, StorePayload(p)
    PROVE  LeakInv'
<1>. USE DEF TypeInv
<1>0. /\ partition_count \in Nat /\ partition_of \in [Messages -> Nat]
      /\ pub \in [Publishers -> PublisherState] /\ handler \in [Sockets -> HandlerState]
      /\ message_count \in Nat /\ pub[p].id \in Messages
    BY BoundsAreNat DEF TypeOK, StorePayload, ThreadsOK
<1>1. /\ UNCHANGED <<message_count, mutex_messages, handler>>
      /\ \A q \in Publishers : /\ pub'[q].id = pub[q].id
                               /\ pub'[q].pc = IF q = p THEN "snapshot" ELSE pub[q].pc
      /\ pub[p].pc = "store"
    BY <1>0 DEF StorePayload, PublisherState
<1>2. partition_of[pub[p].id] = 0
    BY <1>1 DEF LeakInv, IdsOK
<1>3. Stored \subseteq Stored'
    BY <1>0, <1>2, StoreFacts DEF Stored
<1>4. IdsOK'
    <2>1. \A q \in Publishers : q # p /\ pub[q].pc # "idle" =>
            pub[q].id # pub[p].id /\ pub[q].id \in Messages
        BY <1>1 DEF LeakInv, IdsOK, ThreadsOK
    <2>2. partition_of'[pub[p].id] # 0 /\ pub[p].id <= message_count
        BY <1>0, <1>1, StoreFacts DEF LeakInv, IdsOK
    <2>3. \A q \in Publishers : q # p /\ pub[q].pc # "idle" =>
            partition_of'[pub[q].id] = partition_of[pub[q].id]
        BY <2>1, StoreFacts
    <2>4. \A m \in Messages : m > message_count => partition_of'[m] = 0
        BY <1>0, <2>2, StoreFacts DEF LeakInv, IdsOK, Messages
    <2>. QED BY <1>1, <2>1, <2>2, <2>3, <2>4 DEF LeakInv, IdsOK
<1>5. PartitionIds'
    BY <1>0, StoreFacts DEF LeakInv, PartitionIds
<1>6. QueuedStored'
    <2>1. messages' \in Seq(Stored')
        BY <1>3, StoreFacts, SeqMonotonic
    <2>. QED BY <1>1, <1>3, <2>1 DEF LeakInv, QueuedStored
<1>7. ReplayHolds'
    BY <1>1 DEF LeakInv, ReplayHolds, Replaying
<1>8. LeakedOnlyWithoutPartition'
    <2>. SUFFICES ASSUME mutex_messages # NoOne, ~Replaying(mutex_messages)
                  PROVE  /\ handler[mutex_messages].cur # 0
                         /\ PartitionOf(handler[mutex_messages].cur)' = {}
        BY <1>1 DEF LeakedOnlyWithoutPartition, Replaying
    <2>. DEFINE m == handler[mutex_messages].cur
    <2>1. mutex_messages \in Sockets
        BY DEF TypeOK
    <2>2. m # 0 /\ PartitionOf(m) = {} /\ m \in Messages /\ partition_of[m] # 0
        BY <2>1 DEF LeakInv, LeakedOnlyWithoutPartition, QueuedStored, Stored
    <2>3. partition_of'[m] = partition_of[m] /\ partition_of[m] <= partition_count
        BY <1>2, <2>2, StoreFacts DEF LeakInv, PartitionIds
    <2>4. \A r \in partitions : r.id # partition_of[m]
        BY <2>2 DEF PartitionOf
    <2>5. \A q \in partitions' : q.id # partition_of'[m]
        BY <2>3, <2>4, StoreFacts
    <2>. QED BY <1>1, <2>2, <2>5 DEF PartitionOf
<1>. QED BY <1>4, <1>5, <1>6, <1>7, <1>8 DEF LeakInv

\* The other steps of a publisher leave the partitions alone.
LEMMA PublisherLeakInv ==
    ASSUME TypeInv, LeakInv, NEW p \in Publishers, ReceiveMessage(p) \/ PublisherStep(p)
    PROVE  LeakInv'
<1>. USE DEF TypeInv
<1>0. /\ pub \in [Publishers -> PublisherState] /\ message_count \in 0..MaxMessages
      /\ partition_of \in [Messages -> Nat]
    BY DEF TypeOK
<1>1. CASE UNCHANGED <<partition_of, partitions, partition_count, handler, mutex_messages>>
           /\ IdsOK' /\ messages' \in Seq(Stored)
    BY <1>1 DEF LeakInv, PartitionIds, QueuedStored, Stored, ReplayHolds, Replaying,
        LeakedOnlyWithoutPartition, PartitionOf
<1>2. CASE ReceiveMessage(p)
    <2>1. /\ message_count + 1 \in Messages /\ message_count' = message_count + 1
          /\ \A q \in Publishers :
                /\ pub'[q].id = IF q = p THEN message_count + 1 ELSE pub[q].id
                /\ pub'[q].pc = IF q = p THEN "send" ELSE pub[q].pc
        BY <1>0, <1>2, BoundsAreNat DEF ReceiveMessage, Messages
    <2>2. \A q \in Publishers : pub[q].pc # "idle" => pub[q].id \in Messages
                                                      /\ pub[q].id <= message_count
        BY DEF LeakInv, IdsOK, ThreadsOK
    <2>3. UNCHANGED partition_of
        BY <1>2 DEF ReceiveMessage, cacheVars
    <2>4. IdsOK'
        <3>1. \A m \in Messages : m > message_count => partition_of[m] = 0
            BY DEF LeakInv, IdsOK
        <3>2. partition_of[message_count + 1] = 0
            BY <1>0, <2>1, <3>1 DEF Messages
        <3>3. \A m \in Messages : m > message_count + 1 => partition_of[m] = 0
            BY <1>0, <3>1 DEF Messages
        <3>4. \A q \in Publishers : pub'[q].pc # "idle" => pub'[q].id <= message_count + 1
            BY <1>0, <2>1, <2>2 DEF Messages
        <3>5. \A q, r \in Publishers :
                pub'[q].pc # "idle" /\ pub'[r].pc # "idle" /\ pub'[q].id = pub'[r].id => q = r
            BY <1>0, <2>1, <2>2 DEF LeakInv, IdsOK, Messages
        <3>. QED BY <2>1, <2>3, <3>2, <3>3, <3>4, <3>5 DEF LeakInv, IdsOK
    <2>. QED BY <1>1, <1>2, <2>4 DEF ReceiveMessage, cacheVars, LeakInv, QueuedStored
<1>3. CASE SendToSubscriptors(p) \/ ListReceivers(p)
    <2>1. \A q \in Publishers :
            /\ pub'[q].id = pub[q].id
            /\ pub'[q].pc = IF q # p THEN pub[q].pc
                            ELSE IF pub[p].pc = "send" THEN "store" ELSE "enqueue"
        BY <1>0, <1>3 DEF SendToSubscriptors, ListReceivers, PublisherState
    <2>2. pub[p].pc \in {"send", "snapshot"} /\ UNCHANGED <<message_count, partition_of>>
        BY <1>3 DEF SendToSubscriptors, ListReceivers, cacheVars
    <2>3. IdsOK'
        BY <2>1, <2>2 DEF LeakInv, IdsOK
    <2>. QED BY <1>1, <1>3, <2>3 DEF SendToSubscriptors, ListReceivers, cacheVars, LeakInv,
                QueuedStored
<1>4. CASE StorePayload(p)
    BY <1>4, StoreLeakInv
<1>5. CASE Enqueue(p)
    <2>1. \A q \in Publishers : /\ pub'[q].pc = IF q = p THEN "idle" ELSE pub[q].pc
                                /\ q # p => pub'[q].id = pub[q].id
        BY <1>0, <1>5 DEF Enqueue, IdleThread
    <2>2. IdsOK'
        BY <1>5, <2>1 DEF Enqueue, cacheVars, LeakInv, IdsOK
    <2>3. pub[p].id \in Stored
        BY <1>5 DEF Enqueue, LeakInv, IdsOK, ThreadsOK, Stored
    <2>4. messages' \in Seq(Stored)
        BY <1>5, <2>3, AppendProperties DEF Enqueue, LeakInv, QueuedStored
    <2>. QED BY <1>1, <1>5, <2>2, <2>4 DEF Enqueue, cacheVars
<1>. QED BY <1>2, <1>3, <1>4, <1>5 DEF PublisherStep

\* A subscription thread's step: only BeginReplay takes mutex_messages, and only the early return
\* of send_all_messages leaves the loop without giving it back.
LEMMA HandlerLeakInv ==
    ASSUME TypeInv, LeakInv, NEW k \in Sockets, HandlerStep(k) \/ Expire(k) \/ Disconnect(k)
    PROVE  LeakInv'
<1>. USE DEF TypeInv
<1>0. /\ handler \in [Sockets -> HandlerState] /\ handler[k] \in HandlerState
      /\ mutex_messages \in Sockets \cup {NoOne} /\ NoOne \notin Sockets
    BY NoOneIsNobody DEF TypeOK, Sockets
<1>1. UNCHANGED <<message_count, messages, partition_of, partitions, partition_count, pub>>
    BY DEF HandlerStep, ExistInQueue, AddSubscriptor, OverrideSocket, BeginReplay, PickMessage,
        ReplayMessage, MoveReceiver, MessageNotFound, EndReplay, Expire, Disconnect,
        cacheVars, clientVars
<1>2. IdsOK' /\ PartitionIds' /\ Stored' = Stored
    BY <1>1 DEF LeakInv, IdsOK, PartitionIds, Stored
<1>3. \A m : PartitionOf(m)' = PartitionOf(m)
    BY <1>1 DEF PartitionOf
<1>4. SUFFICES /\ \A j \in Sockets : handler'[j].cur # 0 => handler'[j].cur \in Stored
               /\ \A j \in Sockets : handler'[j].pc \in {"pick", "replay", "move"}
                                            => mutex_messages' = j
               /\ mutex_messages' # NoOne /\ handler'[mutex_messages'].pc \notin {"pick", "replay", "move"}
                    => /\ handler'[mutex_messages'].cur # 0
                       /\ PartitionOf(handler'[mutex_messages'].cur) = {}
    BY <1>1, <1>2, <1>3 DEF LeakInv, QueuedStored, ReplayHolds, LeakedOnlyWithoutPartition, Replaying, PartitionOf
<1>5. /\ \A j \in Sockets : handler[j].cur # 0 => handler[j].cur \in Stored
      /\ \A j \in Sockets : handler[j].pc \in {"pick", "replay", "move"} => mutex_messages = j
      /\ mutex_messages # NoOne /\ handler[mutex_messages].pc \notin {"pick", "replay", "move"}
            => /\ handler[mutex_messages].cur # 0
               /\ PartitionOf(handler[mutex_messages].cur) = {}
    BY DEF LeakInv, QueuedStored, ReplayHolds, LeakedOnlyWithoutPartition, Replaying
<1>. DEFINE moved(pc) == \A j \in Sockets : /\ handler'[j].cur = handler[j].cur
                                            /\ handler'[j].pc = IF j = k THEN pc ELSE handler[j].pc
<1>6. CASE ExistInQueue(k)
    <2>1. handler[k].pc = "exists" /\ UNCHANGED mutex_messages
        BY <1>6 DEF ExistInQueue
    <2>2. \E v : handler' = [handler EXCEPT ![k] = [@ EXCEPT !.pc = "add", !.socket_exist = v]]
        BY <1>6, Zenon DEF ExistInQueue
    <2>3. moved("add")
        BY <1>0, <2>2 DEF HandlerState
    <2>. QED BY <1>0, <1>5, <2>1, <2>3
<1>7. CASE AddSubscriptor(k)
    <2>1. handler[k].pc = "add" /\ UNCHANGED mutex_messages
        BY <1>7 DEF AddSubscriptor
    <2>2. \/ handler' = [handler EXCEPT ![k].pc = "override"]
          \/ \E e : handler' = [handler EXCEPT ![k] = [@ EXCEPT !.pc = "override", !.entry = e]]
        BY <1>7, Zenon DEF AddSubscriptor
    <2>3. moved("override")
        <3>1. CASE handler' = [handler EXCEPT ![k].pc = "override"]
            BY <1>0, <3>1 DEF HandlerState
        <3>2. CASE \E e : handler' = [handler EXCEPT ![k] =
                                        [@ EXCEPT !.pc = "override", !.entry = e]]
            BY <1>0, <3>2 DEF HandlerState
        <3>. QED BY <2>2, <3>1, <3>2
    <2>. QED BY <1>0, <1>5, <2>1, <2>3
<1>8. CASE OverrideSocket(k)
    <2>1. moved("lock") /\ handler[k].pc = "override" /\ UNCHANGED mutex_messages
        BY <1>0, <1>8 DEF OverrideSocket, HandlerState
    <2>. QED BY <1>0, <1>5, <2>1
<1>9. CASE BeginReplay(k)
    <2>1. moved("pick") /\ mutex_messages = NoOne /\ mutex_messages' = k
        BY <1>0, <1>9 DEF BeginReplay, HandlerState
    <2>. QED BY <1>0, <1>5, <2>1
<1>10. CASE PickMessage(k)
    <2>1. handler[k].pc = "pick" /\ UNCHANGED mutex_messages /\ mutex_messages = k
        BY <1>5, <1>10 DEF PickMessage
    <2>2. messages[handler[k].i] \in Stored
        <3>1. handler[k].i \in Nat \ {0} /\ handler[k].i <= Len(messages)
            BY <1>0, <1>10 DEF PickMessage, ThreadsOK, HandlerState
        <3>2. messages \in Seq(Stored) /\ Len(messages) \in Nat
            BY LenProperties DEF LeakInv, QueuedStored
        <3>. QED BY <3>1, <3>2, ElementOfSeq
    <2>3. CASE handler' = [handler EXCEPT ![k].i = @ + 1]
        <3>1. moved("pick")
            BY <1>0, <2>1, <2>3 DEF HandlerState
        <3>. QED BY <1>0, <1>5, <2>1, <3>1
    <2>4. CASE \E m \in Stored :
                    handler' = [handler EXCEPT ![k] = [@ EXCEPT !.pc = "replay", !.cur = m]]
        <3>0. PICK m \in Stored :
                    handler' = [handler EXCEPT ![k] = [@ EXCEPT !.pc = "replay", !.cur = m]]
            BY <2>4
        <3>1. handler'[k].cur = m /\ handler'[k].pc = "replay"
            BY <1>0, <3>0 DEF HandlerState
        <3>2. \A j \in Sockets \ {k} : handler'[j] = handler[j]
            BY <1>0, <3>0
        <3>. QED BY <1>0, <1>5, <2>1, <3>1, <3>2
    <2>. QED BY <1>10, <2>2, <2>3, <2>4 DEF PickMessage
<1>11. CASE ReplayMessage(k)
    <2>1. moved("move") /\ handler[k].pc = "replay" /\ UNCHANGED mutex_messages
        BY <1>0, <1>11 DEF ReplayMessage, HandlerState
    <2>. QED BY <1>0, <1>5, <2>1
<1>12. CASE MoveReceiver(k)
    <2>1. moved("pick") /\ handler[k].pc = "move" /\ UNCHANGED mutex_messages
        BY <1>0, <1>12 DEF MoveReceiver, HandlerState
    <2>. QED BY <1>0, <1>5, <2>1
<1>13. CASE MessageNotFound(k)
    <2>1. moved(AfterReplay(k)) /\ handler[k].pc = "replay" /\ UNCHANGED mutex_messages
        BY <1>0, <1>13 DEF MessageNotFound, HandlerState
    <2>2. handler[k].cur # 0 /\ PartitionOf(handler[k].cur) = {} /\ mutex_messages = k
        BY <1>5, <1>13 DEF MessageNotFound, ThreadsOK, Messages
    <2>3. AfterReplay(k) \notin {"pick", "replay", "move"}
        BY DEF AfterReplay
    <2>. HIDE DEF moved
    <2>4. \A j \in Sockets : /\ handler'[j].cur = handler[j].cur
                              /\ handler'[j].pc = IF j = k THEN AfterReplay(k) ELSE handler[j].pc
        BY <2>1 DEF moved
    <2>. QED BY <1>0, <1>5, <2>1, <2>2, <2>3, <2>4
<1>14. CASE EndReplay(k)
    <2>1. moved(AfterReplay(k)) /\ handler[k].pc = "pick" /\ mutex_messages' = NoOne
        BY <1>0, <1>14 DEF EndReplay, HandlerState
    <2>3. AfterReplay(k) \notin {"pick", "replay", "move"}
        BY DEF AfterReplay
    <2>. QED BY <1>0, <1>5, <2>1, <2>3
<1>15. CASE Expire(k)
    <2>1. moved("ended") /\ handler[k].pc = "serving" /\ UNCHANGED mutex_messages
        BY <1>0, <1>15 DEF Expire, HandlerState
    <2>. QED BY <1>0, <1>5, <2>1
<1>16. CASE Disconnect(k)
    <2>1. UNCHANGED <<handler, mutex_messages>>
        BY <1>16 DEF Disconnect
    <2>. QED BY <1>5, <2>1
<1>. QED BY <1>6, <1>7, <1>8, <1>9, <1>10, <1>11, <1>12, <1>13, <1>14, <1>15, <1>16
        DEF HandlerStep

\* A client's steps and an acknowledgement's leave the queue, the cache and the loop alone.
LEMMA ClientLeakInv ==
    ASSUME TypeInv, LeakInv,
           \/ \E s \in Subscribers : Connect(s)
           \/ \E k \in Sockets, m \in Messages : ClientReads(k, m)
           \/ \E a \in acks : AckStep(a)
    PROVE  LeakInv'
<1>1. UNCHANGED <<message_count, messages, partition_of, partitions, partition_count, pub,
                  mutex_messages>>
    BY DEF Connect, ClientReads, AckStep, AckTakesSubscriptors, AckMarksReceived, cacheVars
<1>2. \A j \in Sockets : /\ handler'[j].cur = handler[j].cur
                          /\ \/ handler'[j].pc = handler[j].pc
                             \/ handler[j].pc = "none" /\ handler'[j].pc = "exists"
    <2>1. ASSUME NEW s \in Subscribers, Connect(s)
          PROVE  \A j \in Sockets : /\ handler'[j].cur = handler[j].cur
                                     /\ handler'[j].pc = IF j = opened + 1 THEN "exists"
                                                          ELSE handler[j].pc
        BY <2>1 DEF Connect, TypeInv, TypeOK, HandlerState
    <2>2. \A j \in Sockets : j = opened + 1 => handler[j].pc = "none"
        <3>1. opened \in Nat /\ \A j \in Sockets : handler[j].pc = "none" <=> j > opened
            BY BoundsAreNat DEF TypeInv, TypeOK, ThreadsOK
        <3>. QED BY <3>1
    <2>3. CASE UNCHANGED handler
        BY <2>3
    <2>. QED BY <2>1, <2>2, <2>3 DEF ClientReads, AckStep, AckTakesSubscriptors, AckMarksReceived
<1>3. mutex_messages # NoOne => mutex_messages \in Sockets
    BY DEF TypeInv, TypeOK
<1>4. \A j \in Sockets : Replaying(j)' <=> Replaying(j)
    BY <1>2 DEF Replaying
<1>5. IdsOK' /\ PartitionIds' /\ QueuedStored' /\ ReplayHolds'
    BY <1>1, <1>2, <1>4 DEF LeakInv, IdsOK, PartitionIds, QueuedStored, Stored, ReplayHolds
<1>6. LeakedOnlyWithoutPartition'
    BY <1>1, <1>2, <1>3 DEF LeakInv, LeakedOnlyWithoutPartition, Replaying, PartitionOf
<1>. QED BY <1>5, <1>6 DEF LeakInv

\* Nothing has leaked when the broker starts.
LEMMA InitLeakInv == Init => LeakInv
<1>. SUFFICES ASSUME Init PROVE LeakInv
    OBVIOUS
<1>1. messages \in Seq(Stored)
    BY DEF Init
<1>. QED BY <1>1, BoundsAreNat DEF Init, LeakInv, IdsOK, PartitionIds, QueuedStored, ReplayHolds,
    LeakedOnlyWithoutPartition, Replaying, IdleThread, NoThread, Messages

\* LeakInv is inductive, given the types.
LEMMA NextLeakInv == TypeInv /\ LeakInv /\ [Next]_vars => LeakInv'
<1>. SUFFICES ASSUME TypeInv, LeakInv, [Next]_vars PROVE LeakInv'
    OBVIOUS
<1>1. CASE UNCHANGED vars
    BY <1>1 DEF vars, LeakInv, IdsOK, PartitionIds, QueuedStored, Stored, ReplayHolds, Replaying,
        LeakedOnlyWithoutPartition, PartitionOf
<1>2. CASE Next
    BY <1>1, <1>2, PublisherLeakInv, HandlerLeakInv, ClientLeakInv DEF Next, Finished
<1>. QED BY <1>1, <1>2

\* send_all_messages returns with mutex_messages locked in one case only, whatever is published,
\* evicted, acknowledged or reconnected meanwhile: the queued message it came to has no partition,
\* and never gets one again, so that nothing but a restart frees the queue.
THEOREM LeakedWithoutPartition == Spec => []LeakedOnlyWithoutPartition
<1>1. IInv => TypeInv
    BY DEF IInv
<1>2. LeakInv => LeakedOnlyWithoutPartition
    BY DEF LeakInv
<1>. QED BY <1>1, <1>2, Invariance, InitLeakInv, NextLeakInv, PTL DEF Spec

-----------------------------------------------------------------------------
(* What a replay delivers: a subscriber that came back misses nothing but  *)
(* what was between its send and its list_add when the replay ended, as    *)
(* long as the cache is large enough that nothing is evicted.              *)

\* The cache has room for every message.
NoEviction == Capacity >= MaxMessages

\* Every partition is the one of its message, and every message stored has one.
NothingEvicted ==
    /\ \A q \in partitions : q.content \in Messages /\ partition_of[q.content] = q.id
    /\ \A m \in Stored : \E q \in partitions : q.id = partition_of[m]

\* A replay is at work on the message its index says.
AtIndex ==
    \A k \in Sockets : handler[k].pc \in {"replay", "move"} =>
        handler[k].i \in DOMAIN messages /\ messages[handler[k].i] = handler[k].cur

Listed(k) == \E i \in DOMAIN subscriptors : subscriptors[i].socket = k

\* A socket the queue uses is the one its own thread works with, from the moment the thread
\* added its subscriptor; before, the thread has none.
OwnSocket ==
    \A k \in Sockets :
        IF handler[k].pc \in {"none", "exists", "add"} THEN handler[k].entry = 0
        ELSE Listed(k) => SocketOf(k) = k

Covered(k, m) == m \in got[owner[k]] \cup inbox[k] \/ <<k, m>> \in gap

\* What the client of a socket in use has got: in its replay, the messages the replay is past;
\* afterwards all of the queue, and all that were sent and will join it.
CoversAt(k) ==
    Listed(k) =>
        /\ Replaying(k) =>
            \A j \in DOMAIN messages : j < handler[k].i => Covered(k, messages[j])
        /\ handler[k].pc = "move" => Covered(k, handler[k].cur)
        /\ handler[k].pc \in {"serving", "ended"} =>
            /\ \A j \in DOMAIN messages : Covered(k, messages[j])
            /\ \A m \in InFlight : Covered(k, m)

ReplayCovers == \A k \in open : CoversAt(k)

DeliveryInv == NothingEvicted /\ AtIndex /\ OwnSocket /\ ReplayCovers

AllInv == IInv /\ LeakInv /\ DeliveryInv

-----------------------------------------------------------------------------
(* The cache has room for every payload it is asked to store.               *)

\* Every occupied partition holds another message than the one about to be stored.
LEMMA RoomLeft ==
    ASSUME NoEviction, TypeInv, LeakInv, NothingEvicted,
           NEW p \in Publishers, pub[p].pc = "store"
    PROVE  Cardinality(Occupied) \in Nat /\ Cardinality(Occupied) < Capacity /\ Free = {}
<1>. USE DEF TypeInv
<1>. DEFINE others == Messages \ {pub[p].id}
            content == [q \in Occupied |-> q.content]
<1>1. partitions \in SUBSET [id : Nat, content : 0..MaxMessages]
    BY DEF TypeOK
<1>2. pub[p].id \in Messages /\ partition_of[pub[p].id] = 0
    BY DEF ThreadsOK, LeakInv, IdsOK
<1>3. \A q \in partitions : /\ q.content \in Messages /\ partition_of[q.content] = q.id
                            /\ q.id # 0
    BY DEF NothingEvicted, LeakInv, PartitionIds, TypeOK
<1>4. content \in Injection(Occupied, others)
    <2>1. content \in [Occupied -> others]
        BY <1>2, <1>3 DEF Occupied
    <2>2. \A q, r \in Occupied : content[q] = content[r] => q = r
        BY <1>1, <1>3 DEF Occupied
    <2>. QED BY <2>1, <2>2 DEF Injection, IsInjective
<1>5. IsFiniteSet(Messages) /\ Cardinality(Messages) = MaxMessages
    <2>1. 1 \in Int /\ MaxMessages \in Int /\ MaxMessages - 1 + 1 = MaxMessages /\ MaxMessages >= 1
        BY <1>2, BoundsAreNat DEF Messages
    <2>2. /\ IsFiniteSet(1..MaxMessages)
          /\ Cardinality(1..MaxMessages) = IF 1 > MaxMessages THEN 0 ELSE MaxMessages - 1 + 1
        BY <2>1, FS_Interval, Zenon
    <2>. QED BY <2>1, <2>2 DEF Messages
<1>6. IsFiniteSet(others) /\ Cardinality(others) = MaxMessages - 1
    BY <1>2, <1>5, FS_RemoveElement
<1>. HIDE DEF others, content
<1>7. IsFiniteSet(Occupied) /\ Cardinality(Occupied) <= MaxMessages - 1
    BY <1>4, <1>6, FS_Injection
<1>8. Cardinality(Occupied) \in Nat
    BY <1>7, FS_CardinalityType
<1>9. Free = {}
    BY <1>3 DEF Free, Messages
<1>. QED BY <1>7, <1>8, <1>9, BoundsAreNat DEF NoEviction

\* So the payload gets a new partition, and the others stay.
LEMMA StoredApart ==
    ASSUME NoEviction, TypeInv, LeakInv, NothingEvicted, NEW p \in Publishers, StorePayload(p)
    PROVE  /\ messages' = messages
           /\ partitions' = partitions
                \cup {[id |-> partition_count + 1, content |-> pub[p].id]}
           /\ partition_of' = [partition_of EXCEPT ![pub[p].id] = partition_count + 1]
<1>1. Cardinality(Occupied) \in Nat /\ Cardinality(Occupied) < Capacity /\ Free = {}
    BY RoomLeft DEF StorePayload
<1>2. messages' = messages /\ PlacePayload(p, Occupied, {})
    BY <1>1, BoundsAreNat DEF StorePayload
<1>3. Occupied = partitions
    BY <1>1 DEF Occupied, Free
<1>. QED BY <1>2, <1>3 DEF PlacePayload

\* Every partition stays the one of its message.
LEMMA NextNothingEvicted ==
    ASSUME NoEviction, TypeInv, LeakInv, NothingEvicted, [Next]_vars
    PROVE  NothingEvicted'
<1>. USE DEF TypeInv
<1>1. ASSUME NEW p \in Publishers, StorePayload(p) PROVE NothingEvicted'
    <2>1. pub[p].id \in Messages /\ partition_of[pub[p].id] = 0 /\ partition_count \in Nat
        BY <1>1 DEF StorePayload, TypeOK, ThreadsOK, LeakInv, IdsOK
    <2>2. \A m \in Messages :
            partition_of'[m] = IF m = pub[p].id THEN partition_count + 1 ELSE partition_of[m]
        BY <1>1, <2>1, StoredApart DEF TypeOK
    <2>3. \A q \in partitions : /\ q.content \in Messages /\ partition_of[q.content] = q.id
                                /\ q.id # 0
        BY DEF NothingEvicted, LeakInv, PartitionIds, TypeOK
    <2>. DEFINE new == [id |-> partition_count + 1, content |-> pub[p].id]
    <2>4. /\ partitions' = partitions \cup {new}
          /\ new.id = partition_count + 1 /\ new.content = pub[p].id
        BY <1>1, StoredApart
    <2>. HIDE DEF new
    <2>5. ASSUME NEW q \in partitions'
          PROVE  q.content \in Messages /\ partition_of'[q.content] = q.id
        BY <2>1, <2>2, <2>3, <2>4
    <2>6. ASSUME NEW m \in Stored'
          PROVE  \E q \in partitions' : q.id = partition_of'[m]
        <3>1. CASE m = pub[p].id
            BY <2>1, <2>2, <2>4, <3>1
        <3>2. CASE m # pub[p].id
            BY <2>2, <2>4, <3>2 DEF Stored, NothingEvicted
        <3>. QED BY <3>1, <3>2
    <2>. QED BY <2>5, <2>6 DEF NothingEvicted
<1>2. CASE UNCHANGED <<partition_of, partitions>>
    BY <1>2 DEF NothingEvicted, Stored
<1>3. CASE ~ \E p \in Publishers : StorePayload(p)
    <2>1. UNCHANGED <<partition_of, partitions>>
        BY <1>3 DEF Next, vars, PublisherStep, ReceiveMessage, SendToSubscriptors,
            ListReceivers, Enqueue, HandlerStep, ExistInQueue, AddSubscriptor, OverrideSocket,
            BeginReplay, PickMessage, ReplayMessage, MoveReceiver, MessageNotFound, EndReplay,
            Expire, Disconnect, Connect, ClientReads, AckStep, AckTakesSubscriptors,
            AckMarksReceived, Finished, cacheVars
    <2>. QED BY <1>2, <2>1
<1>. QED BY <1>1, <1>3

-----------------------------------------------------------------------------
(* What each step of a subscription thread does to its record.              *)

\* The thread's record changes, in the fields the delivery depends on, to these values.
Record(k, pc, entry, i, cur) ==
    /\ handler'[k].pc = pc /\ handler'[k].entry = entry
    /\ handler'[k].i = i /\ handler'[k].cur = cur
    /\ \A j \in Sockets \ {k} : handler'[j] = handler[j]

\* Each step of a socket's thread leaves its record as its code says, and no other thread's changed.
LEMMA ThreadFields ==
    ASSUME TypeInv, NEW k \in Sockets
    PROVE  LET h == handler[k]
               m == messages[h.i]
           IN  /\ ExistInQueue(k) => Record(k, "add", h.entry, h.i, h.cur)
               /\ AddSubscriptor(k) => /\ h.socket_exist # 0 =>
                                            Record(k, "override", h.entry, h.i, h.cur)
                                       /\ h.socket_exist = 0 =>
                                            Record(k, "override", Len(subscriptors) + 1, h.i, h.cur)
               /\ OverrideSocket(k) => Record(k, "lock", h.entry, h.i, h.cur)
               /\ BeginReplay(k) => Record(k, "pick", h.entry, 1, h.cur)
               /\ PickMessage(k) => IF AlreadyReceived(k, m)
                                    THEN Record(k, "pick", h.entry, h.i + 1, h.cur)
                                    ELSE Record(k, "replay", h.entry, h.i, m)
               /\ ReplayMessage(k) => Record(k, "move", h.entry, h.i, h.cur)
               /\ MoveReceiver(k) => Record(k, "pick", h.entry, h.i + 1, h.cur)
               /\ MessageNotFound(k) \/ EndReplay(k) =>
                    Record(k, AfterReplay(k), h.entry, h.i, h.cur)
               /\ Expire(k) => Record(k, "ended", h.entry, h.i, h.cur)
<1>0. handler \in [Sockets -> HandlerState] /\ handler[k] \in HandlerState
    BY DEF TypeInv, TypeOK
<1>2. ASSUME NEW pc, handler' = [handler EXCEPT ![k] = [@ EXCEPT !.pc = pc]]
      PROVE  Record(k, pc, handler[k].entry, handler[k].i, handler[k].cur)
    BY <1>0, <1>2 DEF Record, HandlerState
<1>3. ASSUME NEW pc, NEW v, handler' = [handler EXCEPT ![k] = [@ EXCEPT !.pc = pc, !.socket_exist = v]]
      PROVE  Record(k, pc, handler[k].entry, handler[k].i, handler[k].cur)
    BY <1>0, <1>3 DEF Record, HandlerState
<1>4. ASSUME NEW pc, NEW i, handler' = [handler EXCEPT ![k] = [@ EXCEPT !.pc = pc, !.i = i]]
      PROVE  Record(k, pc, handler[k].entry, i, handler[k].cur)
    BY <1>0, <1>4 DEF Record, HandlerState
<1>5. ExistInQueue(k) => Record(k, "add", handler[k].entry, handler[k].i, handler[k].cur)
    BY <1>3 DEF ExistInQueue
<1>6. ASSUME AddSubscriptor(k)
      PROVE  /\ handler[k].socket_exist # 0 =>
                    Record(k, "override", handler[k].entry, handler[k].i, handler[k].cur)
             /\ handler[k].socket_exist = 0 =>
                    Record(k, "override", Len(subscriptors) + 1, handler[k].i, handler[k].cur)
    <2>1. CASE handler[k].socket_exist # 0
        <3>1. handler' = [handler EXCEPT ![k] = [@ EXCEPT !.pc = "override"]]
            BY <1>6, <2>1 DEF AddSubscriptor
        <3>. QED BY <1>2, <2>1, <3>1
    <2>2. CASE handler[k].socket_exist = 0
        <3>1. handler' = [handler EXCEPT ![k] =
                            [@ EXCEPT !.pc = "override", !.entry = Len(subscriptors) + 1]]
            BY <1>6, <2>2 DEF AddSubscriptor
        <3>2. Record(k, "override", Len(subscriptors) + 1, handler[k].i, handler[k].cur)
            BY <1>0, <3>1 DEF Record, HandlerState
        <3>. QED BY <2>2, <3>2
    <2>. QED BY <2>1, <2>2
<1>7. OverrideSocket(k) => Record(k, "lock", handler[k].entry, handler[k].i, handler[k].cur)
    BY <1>0 DEF OverrideSocket, Record, HandlerState
<1>8. BeginReplay(k) => Record(k, "pick", handler[k].entry, 1, handler[k].cur)
    BY <1>4 DEF BeginReplay
<1>9. ASSUME PickMessage(k)
      PROVE  IF AlreadyReceived(k, messages[handler[k].i])
             THEN Record(k, "pick", handler[k].entry, handler[k].i + 1, handler[k].cur)
             ELSE Record(k, "replay", handler[k].entry, handler[k].i, messages[handler[k].i])
    <2>1. CASE AlreadyReceived(k, messages[handler[k].i])
        <3>1. handler[k].pc = "pick" /\ handler' = [handler EXCEPT ![k].i = @ + 1]
            BY <1>9, <2>1 DEF PickMessage
        <3>2. Record(k, "pick", handler[k].entry, handler[k].i + 1, handler[k].cur)
            BY <1>0, <3>1 DEF Record, HandlerState
        <3>. QED BY <2>1, <3>2
    <2>2. CASE ~AlreadyReceived(k, messages[handler[k].i])
        <3>1. handler' = [handler EXCEPT ![k] =
                            [@ EXCEPT !.pc = "replay", !.cur = messages[handler[k].i]]]
            BY <1>9, <2>2 DEF PickMessage
        <3>2. Record(k, "replay", handler[k].entry, handler[k].i, messages[handler[k].i])
            BY <1>0, <3>1 DEF Record, HandlerState
        <3>. QED BY <2>2, <3>2
    <2>. QED BY <2>1, <2>2
<1>10. ReplayMessage(k) => Record(k, "move", handler[k].entry, handler[k].i, handler[k].cur)
    BY <1>2 DEF ReplayMessage
<1>11. MoveReceiver(k) => Record(k, "pick", handler[k].entry, handler[k].i + 1, handler[k].cur)
    BY <1>4 DEF MoveReceiver, Advanced
<1>12. MessageNotFound(k) \/ EndReplay(k) =>
            Record(k, AfterReplay(k), handler[k].entry, handler[k].i, handler[k].cur)
    BY <1>2 DEF MessageNotFound, EndReplay
<1>13. Expire(k) => Record(k, "ended", handler[k].entry, handler[k].i, handler[k].cur)
    BY <1>2 DEF Expire
<1>. QED BY <1>5, <1>6, <1>7, <1>8, <1>9, <1>10, <1>11, <1>12, <1>13

\* Steps of publishers and clients change no thread, and start one when a connection is accepted.
LEMMA OtherThreads ==
    ASSUME TypeInv, [Next]_vars, ~ \E k \in Sockets : HandlerStep(k) \/ Expire(k)
    PROVE  \A j \in Sockets : \/ handler'[j] = handler[j]
                              \/ /\ handler[j].pc = "none" /\ handler'[j].pc = "exists"
                                 /\ handler'[j].entry = handler[j].entry /\ j \notin open
<1>1. ASSUME NEW s \in Subscribers, Connect(s), NEW j \in Sockets
      PROVE  IF j = opened + 1
             THEN /\ handler[j].pc = "none" /\ handler'[j].pc = "exists"
                  /\ handler'[j].entry = handler[j].entry /\ j \notin open
             ELSE handler'[j] = handler[j]
    <2>1. j = opened + 1 => handler[j].pc = "none" /\ j \notin open
        BY <1>1, BoundsAreNat DEF Connect, TypeInv, ThreadsOK, TypeOK, Sockets
    <2>. QED BY <1>1, <2>1 DEF Connect, TypeInv, TypeOK, HandlerState
<1>2. CASE ~ \E s \in Subscribers : Connect(s)
    <2>1. UNCHANGED handler
        BY <1>2 DEF Next, vars, PublisherStep, ReceiveMessage, SendToSubscriptors, StorePayload,
            ListReceivers, Enqueue, Disconnect, ClientReads, AckStep, AckTakesSubscriptors,
            AckMarksReceived, Finished
    <2>. QED BY <2>1
<1>. QED BY <1>1, <1>2

\* The queue only grows at its end, and nobody is in its replay loop then.
LEMMA NextMessages ==
    ASSUME NoEviction, TypeInv, LeakInv, NothingEvicted, [Next]_vars
    PROVE  \/ messages' = messages
           \/ \E p \in Publishers : /\ Enqueue(p)
                                    /\ messages' = Append(messages, pub[p].id)
                                    /\ \A k \in Sockets : ~Replaying(k)
<1>1. ASSUME NEW p \in Publishers, StorePayload(p) PROVE messages' = messages
    BY <1>1, StoredApart
<1>2. ASSUME NEW p \in Publishers, Enqueue(p)
      PROVE  messages' = Append(messages, pub[p].id) /\ \A k \in Sockets : ~Replaying(k)
    BY <1>2, NoOneIsNobody DEF Enqueue, LeakInv, ReplayHolds, Sockets
<1>3. CASE ~ \E p \in Publishers : StorePayload(p) \/ Enqueue(p)
    BY <1>3 DEF Next, vars, PublisherStep, ReceiveMessage, SendToSubscriptors, ListReceivers,
        HandlerStep, ExistInQueue, AddSubscriptor, OverrideSocket, BeginReplay, PickMessage,
        ReplayMessage, MoveReceiver, MessageNotFound, EndReplay, Expire, Disconnect, Connect,
        ClientReads, AckStep, AckTakesSubscriptors, AckMarksReceived, Finished
<1>. QED BY <1>1, <1>2, <1>3

\* The index of a replay stays at the message it is at work on.
LEMMA NextAtIndex ==
    ASSUME NoEviction, TypeInv, LeakInv, NothingEvicted, AtIndex, [Next]_vars
    PROVE  AtIndex'
<1>1. ASSUME NEW k \in Sockets, HandlerStep(k) \/ Expire(k)
      PROVE  AtIndex'
    <2>0. messages' = messages
        BY <1>1 DEF HandlerStep, ExistInQueue, AddSubscriptor, OverrideSocket, BeginReplay,
            PickMessage, ReplayMessage, MoveReceiver, MessageNotFound, EndReplay, Expire
    <2>1. CASE PickMessage(k)
        <3>1. handler[k].i \in DOMAIN messages
            <4>1. handler[k].i \in Nat \ {0} /\ handler[k].i <= Len(messages)
                BY <2>1 DEF PickMessage, TypeInv, TypeOK, ThreadsOK, HandlerState
            <4>. QED BY <4>1, LenProperties DEF TypeInv, TypeOK
        <3>2. IF AlreadyReceived(k, messages[handler[k].i])
              THEN Record(k, "pick", handler[k].entry, handler[k].i + 1, handler[k].cur)
              ELSE Record(k, "replay", handler[k].entry, handler[k].i, messages[handler[k].i])
            BY <2>1, ThreadFields
        <3>. QED BY <2>0, <3>1, <3>2 DEF Record, AtIndex
    <2>2. CASE ReplayMessage(k)
        <3>1. Record(k, "move", handler[k].entry, handler[k].i, handler[k].cur)
            BY <2>2, ThreadFields
        <3>2. handler[k].pc = "replay"
            BY <2>2 DEF ReplayMessage
        <3>. QED BY <2>0, <3>1, <3>2 DEF Record, AtIndex
    <2>3. CASE ~PickMessage(k) /\ ~ReplayMessage(k)
        <3>1. handler'[k].pc \notin {"replay", "move"}
                /\ \A j \in Sockets \ {k} : handler'[j] = handler[j]
            <4>1. AfterReplay(k) \notin {"replay", "move"}
                BY DEF AfterReplay
            <4>. QED BY <1>1, <2>3, <4>1, ThreadFields DEF HandlerStep, Record
        <3>. QED BY <2>0, <3>1 DEF AtIndex
    <2>. QED BY <2>1, <2>2, <2>3
<1>2. CASE ~ \E k \in Sockets : HandlerStep(k) \/ Expire(k)
    <2>1. \A k \in Sockets : handler'[k].pc \in {"replay", "move"} => handler'[k] = handler[k]
        BY <1>2, OtherThreads
    <2>2. CASE messages' = messages
        BY <2>1, <2>2 DEF AtIndex
    <2>3. CASE \A k \in Sockets : ~Replaying(k)
        BY <2>1, <2>3 DEF AtIndex, Replaying
    <2>. QED BY <2>2, <2>3, NextMessages
<1>. QED BY <1>1, <1>2

\* An override gives its thread's socket to the subscriber's entries, the one that another thread
\* may work with included, and to no other.
LEMMA NextOwnSocket ==
    ASSUME TypeInv, SocketsOwned, OwnSocket, [Next]_vars
    PROVE  OwnSocket'
<1>. DEFINE Early == {"none", "exists", "add"}
<1>1. ASSUME NEW k \in Sockets, AddSubscriptor(k) PROVE OwnSocket'
    <2>1. handler[k].pc = "add" /\ handler[k].entry = 0
        BY <1>1 DEF AddSubscriptor, OwnSocket
    <2>2. CASE handler[k].socket_exist # 0
        <3>1. subscriptors' = subscriptors
              /\ Record(k, "override", handler[k].entry, handler[k].i, handler[k].cur)
            BY <1>1, <2>2, ThreadFields DEF AddSubscriptor
        <3>. QED BY <2>1, <3>1 DEF Record, OwnSocket, Listed, SocketOf
    <2>3. CASE handler[k].socket_exist = 0
        <3>1. subscriptors' = Append(subscriptors, [id |-> owner[k], socket |-> k])
              /\ Record(k, "override", Len(subscriptors) + 1, handler[k].i, handler[k].cur)
            BY <1>1, <2>3, ThreadFields DEF AddSubscriptor
        <3>2. /\ Len(subscriptors) \in Nat
              /\ DOMAIN subscriptors = 1..Len(subscriptors)
              /\ DOMAIN subscriptors' = 1..(Len(subscriptors) + 1)
              /\ \A i \in 1..Len(subscriptors) : subscriptors'[i] = subscriptors[i]
              /\ subscriptors'[Len(subscriptors) + 1].socket = k
            <4>0. owner[k] \in Subscribers
                BY <1>1 DEF AddSubscriptor, TypeInv, ThreadsOK, TypeOK, Sockets
            <4>. DEFINE e == [id |-> owner[k], socket |-> k]
            <4>1. e \in [id : Subscribers, socket : Sockets] /\ e.socket = k
                BY <4>0
            <4>2. subscriptors' = Append(subscriptors, e)
                BY <3>1
            <4>. HIDE DEF e
            <4>. QED BY <4>1, <4>2, AppendProperties, LenProperties DEF TypeInv, TypeOK
        <3>3. SocketOf(k)' = k
            BY <3>1, <3>2 DEF Record, SocketOf
        <3>4. ASSUME NEW j \in Sockets \ {k}
              PROVE  /\ handler'[j] = handler[j] /\ Listed(j)' => Listed(j)
                     /\ SocketOf(j)' = SocketOf(j)
            <4>1. handler[j].entry # 0 => handler[j].entry \in 1..Len(subscriptors)
                BY <3>2 DEF SocketsOwned
            <4>. QED BY <3>1, <3>2, <4>1 DEF Record, Listed, SocketOf
        <3>. QED BY <3>1, <3>3, <3>4 DEF Record, OwnSocket
    <2>. QED BY <2>2, <2>3
<1>2. ASSUME NEW k \in Sockets, OverrideSocket(k) PROVE OwnSocket'
    <2>. DEFINE v == SocketOf(k)
    <2>1. v \in Sockets /\ owner[v] = owner[k]
        BY SocketOfOwner
    <2>2. /\ DOMAIN subscriptors' = DOMAIN subscriptors
          /\ \A i \in DOMAIN subscriptors :
                subscriptors'[i].socket = IF subscriptors[i].id = owner[k]
                                          THEN v ELSE subscriptors[i].socket
        <3>1. \A i \in DOMAIN subscriptors :
                subscriptors[i] \in [id : Subscribers, socket : Sockets]
            BY SubscriptorElement DEF TypeInv
        <3>. QED BY <1>2, <3>1 DEF OverrideSocket
    <2>3. Record(k, "lock", handler[k].entry, handler[k].i, handler[k].cur)
          /\ handler[k].pc = "override"
        BY <1>2, ThreadFields DEF OverrideSocket
    <2>. HIDE DEF v
    <2>4. \A j \in Sockets : /\ handler'[j].entry = handler[j].entry
                             /\ handler'[j].pc \in Early <=> handler[j].pc \in Early
        BY <2>3 DEF Record
    <2>5. \A j \in Sockets :
            SocketOf(j)' = IF handler[j].entry # 0 /\ owner[j] = owner[k] THEN v ELSE SocketOf(j)
        BY <2>2, <2>4 DEF SocketOf, SocketsOwned
    <2>6. \A j \in Sockets : Listed(j)' => IF owner[j] = owner[k] THEN j = v ELSE Listed(j)
        BY <2>1, <2>2 DEF Listed, SocketsOwned
    <2>7. \A j \in Sockets : handler[j].entry = 0 => SocketOf(j) = j
        BY DEF SocketOf
    <2>. QED BY <2>4, <2>5, <2>6, <2>7 DEF OwnSocket
<1>3. CASE ~ \E k \in Sockets : AddSubscriptor(k) \/ OverrideSocket(k)
    <2>1. UNCHANGED subscriptors
        BY <1>3 DEF Next, vars, PublisherStep, ReceiveMessage, SendToSubscriptors, StorePayload,
            ListReceivers, Enqueue, HandlerStep, ExistInQueue, BeginReplay, PickMessage,
            ReplayMessage, MoveReceiver, MessageNotFound, EndReplay, Expire, Disconnect, Connect,
            ClientReads, AckStep, AckTakesSubscriptors, AckMarksReceived, Finished
    <2>2. \A j \in Sockets : /\ handler'[j].entry = handler[j].entry
                             /\ handler'[j].pc \in Early <=> handler[j].pc \in Early
        <3>1. ASSUME NEW k \in Sockets, HandlerStep(k) \/ Expire(k)
              PROVE  /\ handler'[k].entry = handler[k].entry
                     /\ handler'[k].pc \in Early <=> handler[k].pc \in Early
                     /\ \A j \in Sockets \ {k} : handler'[j] = handler[j]
            <4>1. AfterReplay(k) \notin Early
                BY DEF AfterReplay
            <4>2. CASE ExistInQueue(k)
                BY <4>2, ThreadFields DEF ExistInQueue, Record
            <4>3. CASE ~ExistInQueue(k)
                <5>1. handler[k].pc \notin Early
                    BY <1>3, <3>1, <4>3 DEF HandlerStep, BeginReplay, PickMessage, ReplayMessage,
                        MoveReceiver, MessageNotFound, EndReplay, Expire
                <5>. QED BY <1>3, <3>1, <4>1, <4>3, <5>1, ThreadFields DEF HandlerStep, Record
            <4>. QED BY <4>2, <4>3
        <3>. QED BY <3>1, OtherThreads
    <2>. QED BY <2>1, <2>2 DEF OwnSocket, Listed, SocketOf
<1>. QED BY <1>1, <1>2, <1>3

-----------------------------------------------------------------------------
(* What the client of a socket has got.                                     *)

\* What a connected client has got or will read stays so: a replay finds no empty payload.
LEMMA StillCovered ==
    ASSUME TypeInv, AcksRead, NothingEvicted, [Next]_vars,
           NEW k \in open, k \in open', NEW m, Covered(k, m)
    PROVE  Covered(k, m)'
<1>. USE DEF TypeInv
<1>1. k \in Sockets /\ owner[k] \in Subscribers /\ owner'[k] = owner[k]
    <2>1. k \in Sockets /\ owner[k] \in Subscribers
        BY DEF TypeOK, ThreadsOK
    <2>. QED BY <2>1, OwnersKept
<1>2. got[owner[k]] \subseteq got'[owner[k]]
    BY <1>1, NextAcksRead
<1>3. gap \subseteq gap'
    <2>1. CASE \E j \in Sockets : EndReplay(j)
        BY <2>1 DEF EndReplay
    <2>2. CASE ~ \E j \in Sockets : EndReplay(j)
        <3>1. UNCHANGED gap
            BY <2>2 DEF Next, vars, PublisherStep, ReceiveMessage, SendToSubscriptors,
                StorePayload, ListReceivers, Enqueue, HandlerStep, ExistInQueue, AddSubscriptor,
                OverrideSocket, BeginReplay, PickMessage, ReplayMessage, MoveReceiver,
                MessageNotFound, Expire, Disconnect, Connect, ClientReads, AckStep,
                AckTakesSubscriptors, AckMarksReceived, Finished
        <3>. QED BY <3>1
    <2>. QED BY <2>1, <2>2
<1>4. inbox[k] \subseteq inbox'[k] \cup got'[owner[k]]
    <2>0. inbox \in [Sockets -> SUBSET Messages] /\ got \in [Subscribers -> SUBSET Messages]
        BY DEF TypeOK
    <2>1. ASSUME NEW p \in Publishers, SendToSubscriptors(p)
          PROVE  inbox[k] \subseteq inbox'[k]
        BY <1>1, <2>0, <2>1 DEF SendToSubscriptors
    <2>2. ASSUME NEW j \in Sockets, ReplayMessage(j)
          PROVE  inbox[k] \subseteq inbox'[k]
        <3>1. \A q \in PartitionOf(handler[j].cur) : q.content # 0
            BY DEF PartitionOf, NothingEvicted, Messages
        <3>2. inbox' = inbox \/ inbox' = [inbox EXCEPT ![SocketOf(j)] = @ \cup {handler[j].cur}]
            BY <2>2, <3>1 DEF ReplayMessage
        <3>. QED BY <1>1, <2>0, <3>2
    <2>3. ASSUME NEW j \in Sockets, NEW n \in Messages, ClientReads(j, n)
          PROVE  inbox[k] \subseteq inbox'[k] \cup got'[owner[k]]
        BY <1>1, <2>0, <2>3 DEF ClientReads
    <2>4. ASSUME NEW j \in Sockets, Disconnect(j)
          PROVE  inbox[k] \subseteq inbox'[k]
        BY <1>1, <2>0, <2>4 DEF Disconnect
    <2>5. CASE /\ ~ \E p \in Publishers : SendToSubscriptors(p)
               /\ ~ \E j \in Sockets : ReplayMessage(j) \/ Disconnect(j)
               /\ ~ \E j \in Sockets, n \in Messages : ClientReads(j, n)
        <3>1. UNCHANGED inbox
            BY <2>5 DEF Next, vars, PublisherStep, ReceiveMessage,
                StorePayload, ListReceivers, Enqueue, HandlerStep, ExistInQueue, AddSubscriptor,
                OverrideSocket, BeginReplay, PickMessage, MoveReceiver, EndReplay,
                MessageNotFound, Expire, Connect, AckStep,
                AckTakesSubscriptors, AckMarksReceived, Finished, cacheVars, clientVars
        <3>. QED BY <3>1
    <2>. QED BY <2>1, <2>2, <2>3, <2>4, <2>5
<1>. QED BY <1>1, <1>2, <1>3, <1>4 DEF Covered

\* Only a socket's own thread puts it in the list: an override uses a socket that is in it, or its
\* thread's own.
LEMMA StillListed ==
    ASSUME TypeInv, SocketsOwned, [Next]_vars, NEW j \in Sockets,
           ~AddSubscriptor(j), ~OverrideSocket(j), Listed(j)'
    PROVE  Listed(j)
<1>1. ASSUME NEW k \in Sockets, k # j, AddSubscriptor(k) PROVE Listed(j)
    <2>1. CASE subscriptors' = subscriptors
        BY <2>1 DEF Listed
    <2>2. CASE subscriptors' = Append(subscriptors, [id |-> owner[k], socket |-> k])
        <3>0. owner[k] \in Subscribers
            BY <1>1 DEF AddSubscriptor, TypeInv, ThreadsOK, TypeOK, Sockets
        <3>. DEFINE e == [id |-> owner[k], socket |-> k]
        <3>1. e \in [id : Subscribers, socket : Sockets] /\ e.socket = k
            BY <3>0
        <3>2. subscriptors' = Append(subscriptors, e)
            BY <2>2
        <3>. HIDE DEF e
        <3>3. /\ Len(subscriptors) \in Nat
              /\ DOMAIN subscriptors = 1..Len(subscriptors)
              /\ DOMAIN subscriptors' = 1..(Len(subscriptors) + 1)
              /\ \A i \in 1..Len(subscriptors) : subscriptors'[i] = subscriptors[i]
              /\ subscriptors'[Len(subscriptors) + 1].socket = k
            BY <3>1, <3>2, AppendProperties, LenProperties DEF TypeInv, TypeOK
        <3>. QED BY <1>1, <3>3 DEF Listed
    <2>. QED BY <1>1, <2>1, <2>2 DEF AddSubscriptor
<1>2. ASSUME NEW k \in Sockets, k # j, OverrideSocket(k) PROVE Listed(j)
    <2>1. /\ DOMAIN subscriptors' = DOMAIN subscriptors
          /\ \A i \in DOMAIN subscriptors :
                subscriptors'[i].socket \in {subscriptors[i].socket, SocketOf(k)}
        <3>1. \A i \in DOMAIN subscriptors :
                subscriptors[i] \in [id : Subscribers, socket : Sockets]
            BY SubscriptorElement DEF TypeInv
        <3>. QED BY <1>2, <3>1 DEF OverrideSocket
    <2>2. SocketOf(k) = j => Listed(j)
        BY <1>2 DEF SocketOf, SocketsOwned, Listed
    <2>. QED BY <2>1, <2>2 DEF Listed
<1>3. CASE ~ \E k \in Sockets : AddSubscriptor(k) \/ OverrideSocket(k)
    <2>1. UNCHANGED subscriptors
        BY <1>3 DEF Next, vars, PublisherStep, ReceiveMessage, SendToSubscriptors, StorePayload,
            ListReceivers, Enqueue, HandlerStep, ExistInQueue, BeginReplay, PickMessage,
            ReplayMessage, MoveReceiver, MessageNotFound, EndReplay, Expire, Disconnect, Connect,
            ClientReads, AckStep, AckTakesSubscriptors, AckMarksReceived, Finished
    <2>. QED BY <2>1 DEF Listed
<1>. QED BY <1>1, <1>2, <1>3

\* A message is between its send and its list_add from SendToSubscriptors on.
LEMMA NextInFlight ==
    ASSUME TypeInv, [Next]_vars, NEW m \in InFlight'
    PROVE  m \in InFlight \/ \E p \in Publishers : SendToSubscriptors(p) /\ m = pub[p].id
<1>. DEFINE Sent == {"store", "snapshot", "enqueue"}
<1>0. pub \in [Publishers -> PublisherState]
    BY DEF TypeInv, TypeOK
<1>1. ASSUME NEW p \in Publishers, ReceiveMessage(p) \/ PublisherStep(p)
      PROVE  \A q \in Publishers : pub'[q].pc \in Sent =>
                /\ pub'[q].id = pub[q].id
                /\ pub[q].pc \in Sent \/ (q = p /\ SendToSubscriptors(p))
    <2>1. CASE ReceiveMessage(p)
        BY <1>0, <2>1 DEF ReceiveMessage
    <2>2. CASE SendToSubscriptors(p)
        BY <1>0, <2>2 DEF SendToSubscriptors, PublisherState
    <2>3. CASE StorePayload(p)
        BY <1>0, <2>3 DEF StorePayload, PublisherState
    <2>4. CASE ListReceivers(p)
        BY <1>0, <2>4 DEF ListReceivers, PublisherState
    <2>5. CASE Enqueue(p)
        BY <1>0, <2>5 DEF Enqueue, IdleThread
    <2>. QED BY <1>1, <2>1, <2>2, <2>3, <2>4, <2>5 DEF PublisherStep
<1>2. CASE \E p \in Publishers : ReceiveMessage(p) \/ PublisherStep(p)
    <2>1. PICK q \in Publishers : pub'[q].pc \in Sent /\ m = pub'[q].id
        BY DEF InFlight
    <2>. QED BY <1>1, <1>2, <2>1 DEF InFlight
<1>3. CASE ~ \E p \in Publishers : ReceiveMessage(p) \/ PublisherStep(p)
    <2>1. UNCHANGED pub
        BY <1>3 DEF Next, vars, HandlerStep, ExistInQueue, AddSubscriptor, OverrideSocket,
            BeginReplay, PickMessage, ReplayMessage, MoveReceiver, MessageNotFound, EndReplay,
            Expire, Disconnect, Connect, ClientReads, AckStep, AckTakesSubscriptors,
            AckMarksReceived, Finished
    <2>. QED BY <2>1 DEF InFlight
<1>. QED BY <1>2, <1>3

\* The steps of a socket's own thread.
LEMMA OwnStepCovers ==
    ASSUME AllInv, [Next]_vars, NEW k \in Sockets, k \in open, k \in open',
           HandlerStep(k) \/ Expire(k)
    PROVE  CoversAt(k)'
<1>. USE DEF AllInv, IInv, DeliveryInv, TypeInv
<1>0. /\ handler[k] \in HandlerState /\ Len(messages) \in Nat
      /\ DOMAIN messages = 1..Len(messages) /\ handler[k].i \in Nat
    BY LenProperties DEF TypeOK, HandlerState
<1>1. /\ UNCHANGED <<messages, pub, owner>> /\ InFlight' = InFlight
      /\ \A m : Covered(k, m) => Covered(k, m)'
    <2>1. UNCHANGED <<messages, pub, owner>>
        BY DEF HandlerStep, ExistInQueue, AddSubscriptor, OverrideSocket, BeginReplay,
            PickMessage, ReplayMessage, MoveReceiver, MessageNotFound, EndReplay, Expire, clientVars
    <2>. QED BY <2>1, StillCovered DEF InFlight
<1>2. CoversAt(k)
    BY DEF ReplayCovers
<1>3. CASE ExistInQueue(k) \/ AddSubscriptor(k) \/ OverrideSocket(k)
    <2>1. handler'[k].pc \in {"add", "override", "lock"}
        BY <1>3, ThreadFields DEF Record
    <2>. QED BY <2>1 DEF CoversAt, Replaying
<1>4. ~AddSubscriptor(k) /\ ~OverrideSocket(k) /\ Listed(k)' => Listed(k)
    BY StillListed
<1>5. CASE BeginReplay(k)
    <2>1. handler'[k].pc = "pick" /\ handler'[k].i = 1
        BY <1>5, ThreadFields DEF Record
    <2>. QED BY <1>0, <1>1, <2>1 DEF CoversAt, Replaying
<1>. DEFINE m == messages[handler[k].i]
<1>6. CASE PickMessage(k)
    <2>1. handler[k].pc = "pick" /\ ~AddSubscriptor(k) /\ ~OverrideSocket(k)
        BY <1>6 DEF PickMessage, AddSubscriptor, OverrideSocket
    <2>2. CASE AlreadyReceived(k, m)
        <3>1. handler'[k].pc = "pick" /\ handler'[k].i = handler[k].i + 1
            BY <1>6, <2>2, ThreadFields DEF Record
        <3>2. m \in Messages
            <4>1. handler[k].i # 0 /\ handler[k].i <= Len(messages)
                BY <1>6 DEF PickMessage, ThreadsOK
            <4>. QED BY <1>0, <4>1, ElementOfSeq DEF TypeOK
        <3>3. m \in got[owner[k]]
            <4>. DEFINE r == [socket |-> handler[k].old_socket, received |-> 1]
            <4>1. r \in receivers[m] /\ r \in Receiver
                BY <2>2, <3>2 DEF AlreadyReceived, TypeOK
            <4>2. r.socket = handler[k].old_socket /\ r.received = 1 /\ r.socket \in Sockets
                BY <4>1 DEF Receiver
            <4>. HIDE DEF r
            <4>3. m \in got[owner[r.socket]]
                BY <3>2, <4>1, <4>2 DEF AckSound
            <4>4. owner[r.socket] = owner[k]
                BY <4>2, BoundsAreNat DEF SocketsOwned, Sockets
            <4>. QED BY <4>3, <4>4
        <3>4. Covered(k, m)
            BY <3>3 DEF Covered
        <3>. HIDE DEF m
        <3>5. \A j \in DOMAIN messages : j < handler[k].i + 1 => j < handler[k].i \/ messages[j] = m
            BY <1>0 DEF m
        <3>. QED BY <1>1, <1>2, <1>4, <2>1, <3>1, <3>4, <3>5 DEF CoversAt, Replaying
    <2>3. CASE ~AlreadyReceived(k, m)
        <3>1. handler'[k].pc = "replay" /\ handler'[k].i = handler[k].i
            BY <1>6, <2>3, ThreadFields DEF Record
        <3>. QED BY <1>1, <1>2, <1>4, <2>1, <3>1 DEF CoversAt, Replaying
    <2>. QED BY <2>2, <2>3
<1>7. CASE ReplayMessage(k)
    <2>1. handler'[k].pc = "move" /\ handler'[k].i = handler[k].i /\ handler'[k].cur = handler[k].cur
        BY <1>7, ThreadFields DEF Record
    <2>2. handler[k].pc = "replay" /\ ~AddSubscriptor(k) /\ ~OverrideSocket(k)
        BY <1>7 DEF ReplayMessage, AddSubscriptor, OverrideSocket
    <2>3. Listed(k) => Covered(k, handler[k].cur)'
        <3>1. \A q \in PartitionOf(handler[k].cur) : q.content # 0
            BY DEF PartitionOf, NothingEvicted, Messages
        <3>2. Listed(k) => SocketOf(k) = k
            BY <2>2 DEF OwnSocket
        <3>3. Listed(k) => inbox' = [inbox EXCEPT ![k] = @ \cup {handler[k].cur}]
            BY <1>7, <3>1, <3>2 DEF ReplayMessage
        <3>. QED BY <2>1, <3>3 DEF Covered, TypeOK
    <2>. QED BY <1>1, <1>2, <1>4, <2>1, <2>2, <2>3 DEF CoversAt, Replaying
<1>8. CASE MoveReceiver(k)
    <2>1. handler'[k].pc = "pick" /\ handler'[k].i = handler[k].i + 1
        BY <1>8, ThreadFields DEF Record
    <2>2. handler[k].pc = "move" /\ ~AddSubscriptor(k) /\ ~OverrideSocket(k)
        BY <1>8 DEF MoveReceiver, AddSubscriptor, OverrideSocket
    <2>3. m = handler[k].cur
        BY <2>2 DEF AtIndex
    <2>. HIDE DEF m
    <2>4. \A j \in DOMAIN messages : j < handler[k].i + 1 => j < handler[k].i \/ messages[j] = m
        BY <1>0 DEF m
    <2>. QED BY <1>1, <1>2, <1>4, <2>1, <2>2, <2>3, <2>4 DEF CoversAt, Replaying
<1>9. CASE MessageNotFound(k)
    <2>1. handler[k].cur \in Stored /\ PartitionOf(handler[k].cur) = {}
        BY <1>9 DEF MessageNotFound, LeakInv, QueuedStored, ThreadsOK, Messages
    <2>2. PartitionOf(handler[k].cur) # {}
        BY <2>1 DEF NothingEvicted, PartitionOf
    <2>. QED BY <2>1, <2>2
<1>10. CASE EndReplay(k)
    <2>1. handler'[k].pc \in {"serving", "ended"}
        BY <1>10, ThreadFields DEF Record, AfterReplay
    <2>2. /\ handler[k].pc = "pick" /\ ~AddSubscriptor(k) /\ ~OverrideSocket(k)
          /\ handler[k].i > Len(messages) /\ gap' = gap \cup ({k} \X InFlight)
        BY <1>10 DEF EndReplay, AddSubscriptor, OverrideSocket
    <2>3. \A n \in InFlight : Covered(k, n)'
        BY <2>2 DEF Covered
    <2>4. \A j \in DOMAIN messages : j < handler[k].i
        BY <1>0, <2>2
    <2>. QED BY <1>1, <1>2, <1>4, <2>1, <2>2, <2>3, <2>4 DEF CoversAt, Replaying
<1>11. CASE Expire(k)
    <2>1. handler'[k].pc = "ended"
        BY <1>11, ThreadFields DEF Record
    <2>2. handler[k].pc = "serving" /\ ~AddSubscriptor(k) /\ ~OverrideSocket(k)
        BY <1>11 DEF Expire, AddSubscriptor, OverrideSocket
    <2>. QED BY <1>1, <1>2, <1>4, <2>1, <2>2 DEF CoversAt, Replaying
<1>. QED BY <1>3, <1>5, <1>6, <1>7, <1>8, <1>9, <1>10, <1>11 DEF HandlerStep

\* The steps of the other threads and of the clients.
LEMMA OtherStepCovers ==
    ASSUME NoEviction, AllInv, [Next]_vars, NEW k \in Sockets, k \in open, k \in open',
           ~HandlerStep(k), ~Expire(k)
    PROVE  CoversAt(k)'
<1>. USE DEF AllInv, IInv, DeliveryInv, TypeInv
<1>1. handler'[k] = handler[k]
    <2>1. ASSUME NEW j \in Sockets \ {k}, HandlerStep(j) \/ Expire(j)
          PROVE  handler'[k] = handler[k]
        BY <2>1, ThreadFields DEF HandlerStep, Record
    <2>. QED BY <2>1, OtherThreads
<1>2. Listed(k)' => Listed(k)
    BY StillListed DEF HandlerStep
<1>3. \A m : Covered(k, m) => Covered(k, m)'
    BY StillCovered
<1>4. CoversAt(k)
    BY DEF ReplayCovers
<1>5. ASSUME Listed(k), handler[k].pc \in {"serving", "ended"}, NEW m \in InFlight'
      PROVE  Covered(k, m)'
    <2>1. CASE m \in InFlight
        BY <1>3, <1>4, <1>5, <2>1 DEF CoversAt
    <2>2. ASSUME NEW p \in Publishers, SendToSubscriptors(p), m = pub[p].id
          PROVE  Covered(k, m)'
        BY <1>5, <2>2 DEF SendToSubscriptors, Listed, Covered
    <2>. QED BY <2>1, <2>2, NextInFlight
<1>6. CASE messages' = messages
    BY <1>1, <1>2, <1>3, <1>4, <1>5, <1>6 DEF CoversAt, Replaying
<1>7. ASSUME NEW p \in Publishers, Enqueue(p), messages' = Append(messages, pub[p].id), ~Replaying(k)
      PROVE  CoversAt(k)'
    <2>1. pub[p].id \in Messages /\ pub[p].id \in InFlight
        BY <1>7 DEF Enqueue, ThreadsOK, InFlight
    <2>2. \A j \in DOMAIN messages' :
            messages'[j] = pub[p].id \/ (j \in DOMAIN messages /\ messages'[j] = messages[j])
        BY <1>7, <2>1, AppendProperties, LenProperties DEF TypeOK
    <2>3. Listed(k) /\ handler[k].pc \in {"serving", "ended"} =>
            (\A j \in DOMAIN messages : Covered(k, messages[j]))'
        <3>1. \A n : n = pub[p].id \/ (\E j \in DOMAIN messages : n = messages[j]) =>
                (Listed(k) /\ handler[k].pc \in {"serving", "ended"} => Covered(k, n)')
            BY <1>3, <1>4, <2>1 DEF CoversAt
        <3>. QED BY <2>2, <3>1
    <2>. QED BY <1>1, <1>2, <1>5, <1>7, <2>3 DEF CoversAt, Replaying
<1>. QED BY <1>6, <1>7, NextMessages

\* A socket that stays open stays covered, and a new one has nothing to cover yet.
LEMMA NextReplayCovers ==
    ASSUME NoEviction, AllInv, [Next]_vars
    PROVE  ReplayCovers'
<1>. USE DEF AllInv, IInv, TypeInv
<1>. SUFFICES ASSUME NEW k \in open' PROVE CoversAt(k)'
    BY DEF ReplayCovers
<1>1. CASE k \in open
    BY <1>1, OwnStepCovers, OtherStepCovers DEF TypeOK
<1>2. CASE k \notin open
    <2>1. \E s \in Subscribers : Connect(s)
        <3>1. CASE ~ \E s \in Subscribers : Connect(s)
            <4>1. open' \subseteq open
                BY <3>1 DEF Next, vars, PublisherStep, ReceiveMessage, SendToSubscriptors,
                    StorePayload, ListReceivers, Enqueue, HandlerStep, ExistInQueue,
                    AddSubscriptor, OverrideSocket, BeginReplay, PickMessage, ReplayMessage,
                    MoveReceiver, MessageNotFound, EndReplay, Expire, Disconnect, ClientReads,
                    AckStep, AckTakesSubscriptors, AckMarksReceived, Finished, clientVars
            <4>. QED BY <1>2, <4>1
        <3>. QED BY <3>1
    <2>2. k = opened + 1 /\ k \in Sockets
        BY <1>2, <2>1, BoundsAreNat DEF Connect, TypeOK, Sockets
    <2>3. handler'[k].pc = "exists"
        BY <2>1, <2>2 DEF Connect, TypeOK, HandlerState
    <2>. QED BY <2>3 DEF CoversAt, Replaying
<1>. QED BY <1>1, <1>2

-----------------------------------------------------------------------------
\* Nothing is stored, no thread is at work and no socket is open in the beginning.
LEMMA InitDeliveryInv == Init => DeliveryInv
BY DEF Init, DeliveryInv, NothingEvicted, Stored, AtIndex, OwnSocket, Listed, ReplayCovers, NoThread

\* Every step preserves the whole invariant.
LEMMA NextAllInv ==
    ASSUME NoEviction, AllInv, [Next]_vars
    PROVE  AllInv'
BY NextIInv, NextLeakInv, NextNothingEvicted, NextAtIndex, NextOwnSocket, NextReplayCovers
DEF AllInv, IInv, DeliveryInv

\* A subscriber that came back, however often and whatever was published, acknowledged or replayed
\* to it before, has read every queued message or has it on its socket when its replay is over,
\* but for those that were between their send and their list_add at that moment: the old sockets'
\* receivers skip nothing it did not get, and the override and the loop of send_all_messages work
\* on the same socket.  Only an eviction could break it: the cache is taken large enough.
THEOREM MissesOnlyInGap ==
    ASSUME NoEviction
    PROVE  Spec => []MissedOnlyInGap
<1>1. Init => AllInv
    BY InitIInv, InitLeakInv, InitDeliveryInv DEF AllInv
<1>2. AllInv /\ [Next]_vars => AllInv'
    BY NextAllInv
<1>3. AllInv => MissedOnlyInGap
    <2>. SUFFICES ASSUME AllInv, NEW k \in Sockets, NEW s \in Subscribers,
                         NEW i \in DOMAIN messages, owner[k] = s, Serves(k, s)
                  PROVE  messages[i] \in got[s] \cup inbox[k] \/ <<k, messages[i]>> \in gap
        BY DEF MissedOnlyInGap
    <2>1. Listed(k) /\ k \in open /\ handler[k].pc \in {"serving", "ended"}
        BY DEF Serves, EntriesOf, Listed
    <2>. QED BY <2>1 DEF AllInv, DeliveryInv, ReplayCovers, CoversAt, Covered
<1>. QED BY <1>1, <1>2, <1>3, PTL DEF Spec
=============================================================================
