------------------------ MODULE Conversation_proofs ------------------------
(***************************************************************************)
(* The conversation of GameBoy, Team, broker and GameCard, for any number of *)
(* requests, trainers and deaths: the types, that the answer that wakes a    *)
(* trainer is for what it asked last, and that a request is done once.       *)
(***************************************************************************)
EXTENDS Conversation, TLAPS, FiniteSetTheorems, SequenceTheorems, NumberTheorems

-----------------------------------------------------------------------------
(* The bounds, bags, and what a replay sends.                               *)

\* A finite set of numbers that is not empty has a greatest element.
LEMMA FiniteHasMax ==
    ASSUME NEW S \in SUBSET Nat, IsFiniteSet(S), S # {}
    PROVE  Max(S) \in S /\ \A x \in S : x <= Max(S)
<1>. DEFINE Sizes0 == {n \in Nat : \E T \in SUBSET Nat : /\ IsFiniteSet(T) /\ Cardinality(T) = n /\ T # {}
                                           /\ ~ \E x \in T : \A y \in T : x >= y}
<1>1. Sizes0 = {}
    <2>. SUFFICES ASSUME Sizes0 # {} PROVE FALSE
        OBVIOUS
    <2>1. Sizes0 \in SUBSET Nat
        OBVIOUS
    <2>2. PICK n \in Sizes0 : \A m \in Sizes0 : n <= m
        <3>. HIDE DEF Sizes0
        <3>. QED BY <2>1, LeastNumber
    <2>3. PICK T \in SUBSET Nat : /\ IsFiniteSet(T) /\ Cardinality(T) = n /\ T # {}
                                  /\ ~ \E x \in T : \A y \in T : x >= y
        BY <2>2
    <2>4. PICK a \in T : TRUE
        BY <2>3
    <2>. DEFINE rest == T \ {a}
    <2>5. IsFiniteSet(rest) /\ Cardinality(rest) = n - 1 /\ Cardinality(rest) \in Nat
        BY <2>3, <2>4, FS_RemoveElement, FS_CardinalityType
    <2>6. rest # {}
        BY <2>3, <2>4
    <2>7. Cardinality(rest) \notin Sizes0
        <3>1. n \in Nat
            BY <2>2
        <3>2. ~(n <= Cardinality(rest))
            BY <2>5, <3>1
        <3>. QED BY <2>2, <3>2
    <2>8. PICK x \in rest : \A y \in rest : x >= y
        BY <2>5, <2>6, <2>7
    <2>9. \E z \in T : \A y \in T : z >= y
        <3>1. CASE a >= x
            BY <2>3, <2>4, <2>8, <3>1
        <3>2. CASE ~(a >= x)
            BY <2>3, <2>4, <2>8, <3>2
        <3>. QED BY <3>1, <3>2
    <2>. QED BY <2>3, <2>9
<1>2. \E x \in S : \A y \in S : x >= y
    <2>1. Cardinality(S) \in Nat
        BY FS_CardinalityType
    <2>. QED BY <1>1, <2>1
<1>. QED BY <1>2 DEF Max

\* No case asks for more requests than there are.
LEMMA Bounded ==
    ASSUME NEW b \in Bounds
    PROVE  /\ MostRequests \in Nat /\ b.commands <= MostRequests /\ b.catches <= MostRequests
           /\ b.commands \in Nat /\ b.catches \in Nat /\ b.stock \in Nat
           /\ b.deaths \in Nat /\ b.broker_deaths \in Nat /\ b.ids \subseteq Nat
           /\ b.code \in {"NEW_POKEMON", "CATCH_POKEMON", "GET_POKEMON"}
           /\ b.catches > 0 => b.code = "CATCH_POKEMON"
<1>. DEFINE most == {c.commands : c \in Bounds} \cup {c.catches : c \in Bounds}
<1>1. IsFiniteSet({c.commands : c \in Bounds}) /\ IsFiniteSet({c.catches : c \in Bounds})
    <2>. DEFINE commands == [c \in Bounds |-> c.commands]
                catches == [c \in Bounds |-> c.catches]
    <2>1. /\ commands \in Surjection(Bounds, {c.commands : c \in Bounds})
          /\ catches \in Surjection(Bounds, {c.catches : c \in Bounds})
        BY DEF Surjection
    <2>. QED BY <2>1, Sizes, FS_Surjection
<1>2. IsFiniteSet(most)
    BY <1>1, FS_Union
<1>3. most \in SUBSET Nat /\ b.commands \in most /\ b.catches \in most
    BY Sizes
<1>4. Max(most) \in Nat /\ b.commands <= Max(most) /\ b.catches <= Max(most)
    <2>. HIDE DEF most
    <2>1. Max(most) \in most /\ \A x \in most : x <= Max(most)
        BY <1>2, <1>3, FiniteHasMax
    <2>. QED BY <1>3, <2>1
<1>. QED BY <1>4, Sizes DEF MostRequests, Answer

\* A trainer has a number, and is not the GameBoy.
LEMMA TrainersAreNumbered == Trainers \subseteq Nat \ {0}
BY DEF Trainers

\* A bag with one more x.
LEMMA BagAdd ==
    ASSUME NEW B, IsABag(B), NEW x
    PROVE  /\ IsABag(B (+) One(x)) /\ DOMAIN (B (+) One(x)) = DOMAIN B \cup {x}
           /\ \A y \in DOMAIN B \ {x} : (B (+) One(x))[y] = B[y]
           /\ (B (+) One(x))[x] = IF x \in DOMAIN B THEN B[x] + 1 ELSE 1
BY DEF IsABag, One, SetToBag, (+)

\* A bag with one x less.
LEMMA BagRemove ==
    ASSUME NEW B, IsABag(B), NEW x \in DOMAIN B
    PROVE  /\ IsABag(B (-) One(x))
           /\ DOMAIN (B (-) One(x)) = IF B[x] = 1 THEN DOMAIN B \ {x} ELSE DOMAIN B
           /\ \A y \in DOMAIN B \ {x} : (B (-) One(x))[y] = B[y]
BY DEF IsABag, One, SetToBag, (-)

\* The empty bag.
LEMMA EmptyIsBag == IsABag(EmptyBag) /\ DOMAIN EmptyBag = {}
BY DEF IsABag, EmptyBag, SetToBag

\* Sent's recursive function is defined on every queue.
Sends(f, places, n) ==
    \A i \in 0..n : f[i] = IF i = 0 THEN inbox
                           ELSE IF i \in places THEN Append(f[i - 1], messages[i].m) ELSE f[i - 1]

\* So there is such a function, for every length.
LEMMA SentDefined ==
    ASSUME NEW M, NEW places, inbox \in Seq(M), Len(messages) \in Nat,
           \A i \in 1..Len(messages) : i \in places => messages[i].m \in M
    PROVE  \A n \in 0..Len(messages) : \E f \in [0..n -> Seq(M)] : Sends(f, places, n)
<1>. DEFINE Step(f, n) == Sends(f, places, n)
            Lacking == {n \in 0..Len(messages) : ~ \E f \in [0..n -> Seq(M)] : Step(f, n)}
<1>. USE DEF Sends
<1>. SUFFICES ASSUME Lacking # {} PROVE FALSE
    OBVIOUS
<1>2. PICK n \in Lacking : \A m \in Lacking : n <= m
    <2>1. Lacking \in SUBSET Nat
        OBVIOUS
    <2>. QED BY <2>1, LeastNumber
<1>3. n \in 0..Len(messages) /\ n \in Nat
    OBVIOUS
<1>4. n # 0
    <2>. DEFINE first == [i \in 0..0 |-> inbox]
    <2>1. first \in [0..0 -> Seq(M)] /\ Step(first, 0)
        OBVIOUS
    <2>. QED BY <2>1
<1>5. n - 1 \in 0..Len(messages) /\ n - 1 \in Nat /\ n - 1 \notin Lacking
    <2>1. n - 1 \in 0..Len(messages) /\ n - 1 \in Nat /\ ~(n <= n - 1)
        BY <1>3, <1>4
    <2>. HIDE DEF Lacking
    <2>. QED BY <1>2, <2>1
<1>6. PICK f \in [0..(n - 1) -> Seq(M)] : Step(f, n - 1)
    BY <1>5
<1>. DEFINE last == IF n \in places THEN Append(f[n - 1], messages[n].m) ELSE f[n - 1]
            g == [i \in 0..n |-> IF i = n THEN last ELSE f[i]]
<1>7. last \in Seq(M)
    <2>1. f[n - 1] \in Seq(M)
        BY <1>3, <1>4
    <2>2. n \in places => messages[n].m \in M
        BY <1>3, <1>4
    <2>. QED BY <2>1, <2>2, AppendProperties
<1>8. g \in [0..n -> Seq(M)]
    <2>. HIDE DEF last
    <2>. QED BY <1>3, <1>7
<1>9. Step(g, n)
    <2>. SUFFICES ASSUME NEW i \in 0..n
                  PROVE  g[i] = IF i = 0 THEN inbox
                                ELSE IF i \in places THEN Append(g[i - 1], messages[i].m)
                                ELSE g[i - 1]
        OBVIOUS
    <2>1. CASE i = n
        BY <1>3, <1>4, <2>1
    <2>2. CASE i # n
        <3>1. i \in 0..(n - 1) /\ i - 1 # n /\ (i # 0 => i - 1 \in 0..n)
            BY <1>3, <2>2
        <3>2. g[i] = f[i] /\ (i # 0 => g[i - 1] = f[i - 1])
            <4>. HIDE DEF last
            <4>. QED BY <2>2, <3>1
        <3>. QED BY <1>6, <3>1, <3>2
    <2>. QED BY <2>1, <2>2
<1>. QED BY <1>2, <1>8, <1>9

\* What holds of the inbox and is kept with each place of the queue holds of what a replay sends.
LEMMA SentInductive ==
    ASSUME NEW M, NEW places, inbox \in Seq(M), Len(messages) \in Nat,
           \A i \in 1..Len(messages) : i \in places => messages[i].m \in M,
           NEW good, inbox \in good[0],
           \A i \in 1..Len(messages) : \A s \in Seq(M) :
                s \in good[i - 1] =>
                    (IF i \in places THEN Append(s, messages[i].m) ELSE s) \in good[i]
    PROVE  Sent(places) \in Seq(M) /\ Sent(places) \in good[Len(messages)]
<1>0. \A n \in 0..Len(messages) : \E f \in [0..n -> Seq(M)] : Sends(f, places, n)
    BY SentDefined
<1>. DEFINE Step(f) == [i \in 0..Len(messages) |->
                IF i = 0 THEN inbox
                ELSE IF i \in places THEN Append(f[i - 1], messages[i].m) ELSE f[i - 1]]
            sent == CHOOSE f : f = Step(f)
            Wrong == {i \in 0..Len(messages) : ~(sent[i] \in Seq(M) /\ sent[i] \in good[i])}
<1>1. PICK f \in [0..Len(messages) -> Seq(M)] : Sends(f, places, Len(messages))
    <2>1. Len(messages) \in 0..Len(messages)
        OBVIOUS
    <2>. QED BY <1>0, <2>1
<1>2. f = Step(f)
    BY <1>1 DEF Sends
<1>3. sent = Step(sent)
    BY <1>2
<1>4. \A i \in 0..Len(messages) :
        sent[i] = IF i = 0 THEN inbox
                  ELSE IF i \in places THEN Append(sent[i - 1], messages[i].m) ELSE sent[i - 1]
    BY <1>3
<1>5. Sent(places) = sent[Len(messages)]
    BY DEF Sent
<1>. HIDE DEF sent
<1>6. Wrong = {}
    <2>. SUFFICES ASSUME Wrong # {} PROVE FALSE
        OBVIOUS
    <2>1. PICK i \in Wrong : \A j \in Wrong : i <= j
        <3>1. Wrong \in SUBSET Nat
            OBVIOUS
        <3>. QED BY <3>1, LeastNumber
    <2>2. i \in 0..Len(messages) /\ ~(sent[i] \in Seq(M) /\ sent[i] \in good[i])
        OBVIOUS
    <2>3. i # 0
        BY <1>4, <2>2
    <2>4. i \in 1..Len(messages) /\ i - 1 \in 0..Len(messages) /\ ~(i <= i - 1)
        BY <2>2, <2>3
    <2>5. /\ sent[i - 1] \in Seq(M) /\ sent[i - 1] \in good[i - 1]
          /\ i \in places => messages[i].m \in M
        BY <2>1, <2>2, <2>3, <2>4
    <2>6. sent[i] = IF i \in places THEN Append(sent[i - 1], messages[i].m) ELSE sent[i - 1]
        BY <1>4, <2>2, <2>3
    <2>7. sent[i] \in good[i]
        BY <2>4, <2>5, <2>6
    <2>. QED BY <2>2, <2>5, <2>6, <2>7, AppendProperties
<1>. QED BY <1>5, <1>6

\* So it is messages, of the inbox and of the queue.
LEMMA SentIsSeq ==
    ASSUME NEW M, NEW places, inbox \in Seq(M), Len(messages) \in Nat,
           \A i \in 1..Len(messages) : i \in places => messages[i].m \in M
    PROVE  Sent(places) \in Seq(M)
<1>1. PICK good : good = [i \in 0..Len(messages) |-> Seq(M)]
    OBVIOUS
<1>2. inbox \in good[0]
    BY <1>1
<1>3. ASSUME NEW i \in 1..Len(messages), NEW s \in Seq(M)
      PROVE  (IF i \in places THEN Append(s, messages[i].m) ELSE s) \in good[i]
    <2>1. i \in places => Append(s, messages[i].m) \in Seq(M)
        BY AppendProperties
    <2>2. good[i] = Seq(M)
        BY <1>1
    <2>. QED BY <2>1, <2>2
<1>. QED BY <1>2, <1>3, SentInductive

-----------------------------------------------------------------------------
(* Types.                                                                   *)

Codes == {"NEW_POKEMON", "CATCH_POKEMON", "GET_POKEMON", "APPEARED_POKEMON", "CAUGHT_POKEMON",
          "LOCALIZED_POKEMON"}

Reasons == {"cut", "gap", "overtaken", "early", "raced", "forged", "named", "hasty", "broker died"}

MessageRecord ==
    [code : Codes, id : Nat, correlative_id : Nat, request : Requests, result : {0, 1}]

\* What the GameCard's queue is for, and what the Team waits for.
Queued == {m \in MessageRecord : m.code = bound.code}
Caught == {m \in MessageRecord : m.code = "CAUGHT_POKEMON"}

Publisher ==
    [pc : {"send", "list", "enqueue"}, m : Queued \cup Caught, sent : Nat, receiver : Nat]

Entry == [m : Queued, receiver : Nat, received : BOOLEAN]

HandlerState == [pc : {"apply", "answer"}, m : Queued, result : {0, 1}]

TrainerState ==
    [pc : {"free", "wait"}, n : Nat, returned : SUBSET Nat, id_message : Nat, sem_caught : {0, 1},
     result_catch : {0, 1}, answer : Requests \cup {<<0, 0>>}, heard : SUBSET Requests]

BrokerTypes ==
    /\ broker_up \in BOOLEAN /\ message_count \in Nat
    /\ publishers \in SUBSET Publisher
    /\ \A p \in publishers : p.m.code = "CAUGHT_POKEMON" => p.pc = "send"
    /\ subscriptor \in Nat
    /\ subscribing \in SUBSET [pc : {"override", "replay"}, socket : Nat, old_socket : Nat]
    /\ messages \in Seq(Entry)
    /\ IsABag(acks) /\ DOMAIN acks \subseteq [id : Nat, request : Requests]

ClientTypes ==
    /\ sockets \in Nat /\ connection \in Nat /\ inbox \in Seq(Queued)
    /\ reader \in [pc : {"connect", "recv", "ack", "ended", "off"},
                   m : MessageRecord \cup {NoMessage}]
    /\ reader.pc = "ack" => reader.m \in Queued

GameCardTypes ==
    /\ gamecard_up \in BOOLEAN /\ direct \in SUBSET Queued
    /\ IsABag(threads) /\ DOMAIN threads \subseteq HandlerState
    /\ pokemons \in Nat /\ read \in SUBSET Requests /\ applied \in [Requests -> Nat]

TeamTypes ==
    /\ team_socket \in BOOLEAN /\ IsABag(answers) /\ DOMAIN answers \subseteq Caught
    /\ trainer \in [Trainers -> TrainerState]
    /\ \A t \in Trainers : trainer[t].n <= bound.catches

OtherTypes ==
    /\ bound \in Bounds /\ told \in 0..bound.commands /\ deaths \in Nat /\ broker_deaths \in Nat
    /\ doubts \in [Requests -> SUBSET Reasons]

ConvTypes == BrokerTypes /\ ClientTypes /\ GameCardTypes /\ TeamTypes /\ OtherTypes

\* What a message that a process sends is made of.
LEMMA MessageFacts ==
    ASSUME NEW code \in Codes, NEW id \in Nat, NEW r \in Requests, NEW result \in {0, 1}
    PROVE  /\ Message(code, id, r, result) \in MessageRecord
           /\ Message(code, id, r, result).code = code
           /\ Message(code, id, r, result).correlative_id = id
           /\ Message(code, id, r, result).request = r
BY DEF Message, NoMessage, MessageRecord

\* The thread of the broker that takes m.
NewPublisher(m) ==
    [pc |-> "send", m |-> [m EXCEPT !.id = message_count + 1], sent |-> 0, receiver |-> 0]

\* A message the broker accepts gets the next id, and a thread if it is for one of the two queues.
LEMMA AcceptFacts ==
    ASSUME ConvTypes, NEW m \in MessageRecord, Accept(m)
    PROVE  /\ message_count' = message_count + 1
           /\ publishers' = IF m.code \in {bound.code, "CAUGHT_POKEMON"}
                            THEN publishers \cup {NewPublisher(m)} ELSE publishers
           /\ m.code \in {bound.code, "CAUGHT_POKEMON"} => NewPublisher(m) \in Publisher
           /\ NewPublisher(m).m.id = message_count + 1 /\ NewPublisher(m).pc = "send"
           /\ NewPublisher(m).m.request = m.request /\ NewPublisher(m).m.code = m.code
           /\ NewPublisher(m).m.correlative_id = m.correlative_id
<1>1. message_count' = message_count + 1 /\ message_count \in Nat
    BY DEF Accept, Counted, ConvTypes, BrokerTypes
<1>. DEFINE n == [m EXCEPT !.id = message_count + 1]
<1>2. /\ n \in MessageRecord /\ n.code = m.code /\ n.id = message_count + 1
      /\ n.request = m.request /\ n.correlative_id = m.correlative_id
    BY <1>1 DEF MessageRecord
<1>3. publishers' = publishers \cup {NewPublisher(m) : q \in {bound.code, "CAUGHT_POKEMON"} \cap {m.code}}
    BY Zenon DEF Accept, NewPublisher
<1>4. NewPublisher(m) = [pc |-> "send", m |-> n, sent |-> 0, receiver |-> 0]
    BY DEF NewPublisher
<1>. HIDE DEF n
<1>5. m.code \in {bound.code, "CAUGHT_POKEMON"} => NewPublisher(m) \in Publisher
    BY <1>2, <1>4 DEF Publisher, Queued, Caught
<1>6. publishers' = IF m.code \in {bound.code, "CAUGHT_POKEMON"}
                    THEN publishers \cup {NewPublisher(m)} ELSE publishers
    BY <1>3
<1>. QED BY <1>1, <1>2, <1>4, <1>5, <1>6

\* A doubt is for good.
DoubtsGrow ==
    /\ doubts' \in [Requests -> SUBSET Reasons]
    /\ \A r \in Requests : doubts[r] \subseteq doubts'[r]

\* One more reason.
LEMMA DoubtGrows ==
    ASSUME OtherTypes, NEW S, NEW why \in Reasons, doubts' = Doubt(S, why)
    PROVE  DoubtsGrow
<1>1. doubts \in [Requests -> SUBSET Reasons]
    BY DEF OtherTypes
<1>. QED BY <1>1 DEF Doubt, DoubtsGrow

\* Two sets of reasons for each request.
LEMMA TwoDoubtsGrow ==
    ASSUME OtherTypes, NEW f, NEW g,
           doubts' = [r \in Requests |-> doubts[r] \cup f[r] \cup g[r]],
           \A r \in Requests : f[r] \subseteq Reasons /\ g[r] \subseteq Reasons
    PROVE  DoubtsGrow
<1>1. doubts \in [Requests -> SUBSET Reasons]
    BY DEF OtherTypes
<1>2. ASSUME NEW r \in Requests PROVE (doubts[r] \cup f[r] \cup g[r]) \in SUBSET Reasons
    BY <1>1
<1>. QED BY <1>1, <1>2 DEF DoubtsGrow

\* No step forgets a doubt.
LEMMA DoubtsMove ==
    ASSUME OtherTypes, Next
    PROVE  DoubtsGrow
<1>. USE DEF Reasons
<1>0. UNCHANGED doubts => DoubtsGrow
    BY DEF OtherTypes, DoubtsGrow
<1>1. ASSUME NEW h \in subscribing, OverrideSocket(h) PROVE DoubtsGrow
    BY <1>0, <1>1, DoubtGrows DEF OverrideSocket
<1>2. ASSUME NEW p \in publishers,
             SendToSubscriptors(p) \/ SendToTeam(p) \/ ListReceivers(p) \/ Enqueue(p)
      PROVE  DoubtsGrow
    BY <1>0, <1>2 DEF SendToSubscriptors, SendToTeam, ListReceivers, Enqueue
<1>3. ASSUME NEW h \in subscribing, Replay(h) PROVE DoubtsGrow
    <2>. DEFINE f == [r \in Requests |-> {"gap" : p \in {p \in publishers :
                         /\ p.m.request = r /\ p.m.code = bound.code
                         /\ p.pc # "send" /\ p.sent # h.socket}}]
                g == [r \in Requests |-> {"raced" : e \in {e \in ToSet(messages) :
                         e.m.request = r /\ e.receiver = h.socket}}]
    <2>1. doubts' = [r \in Requests |-> doubts[r] \cup f[r] \cup g[r]]
        <3>1. doubts' = [r \in Requests |-> doubts[r]
                \cup {"gap" : p \in {p \in publishers : /\ p.m.request = r /\ p.m.code = bound.code
                                                       /\ p.pc # "send" /\ p.sent # h.socket}}
                \cup {"raced" : e \in {e \in ToSet(messages) : e.m.request = r /\ e.receiver = h.socket}}]
            BY <1>3, Zenon DEF Replay
        <3>. QED BY <3>1
    <2>2. \A r \in Requests : f[r] \subseteq {"gap"} /\ g[r] \subseteq {"raced"}
        OBVIOUS
    <2>3. PICK x, y : /\ doubts' = [r \in Requests |-> doubts[r] \cup x[r] \cup y[r]]
                      /\ \A r \in Requests : x[r] \subseteq Reasons /\ y[r] \subseteq Reasons
        <3>. HIDE DEF f, g
        <3>. QED BY <2>1, <2>2
    <2>. QED BY <2>3, TwoDoubtsGrow
<1>4. ASSUME NEW a, process_message_ack(a) PROVE DoubtsGrow
    <2>. DEFINE f == [r \in Requests |-> {"early" : p \in {p \in publishers :
                         p.m.code = bound.code /\ p.m.id = a.id /\ p.m.request = r}}]
                g == [r \in Requests |-> {"forged" : e \in {e \in ToSet(messages) :
                         (e.m.id = a.id /\ e.receiver = subscriptor) /\ e.m.request = r
                          /\ r \notin read}}]
    <2>1. doubts' = [r \in Requests |-> doubts[r] \cup f[r] \cup g[r]]
        <3>1. doubts' = [r \in Requests |-> doubts[r]
                \cup {"early" : p \in {p \in publishers : p.m.code = bound.code /\ p.m.id = a.id
                                                         /\ p.m.request = r}}
                \cup {"forged" : e \in {e \in ToSet(messages) :
                         (e.m.id = a.id /\ e.receiver = subscriptor) /\ e.m.request = r
                          /\ r \notin read}}]
            BY <1>4, Zenon DEF process_message_ack
        <3>. QED BY <3>1
    <2>2. \A r \in Requests : f[r] \subseteq {"early"} /\ g[r] \subseteq {"forged"}
        OBVIOUS
    <2>3. PICK x, y : /\ doubts' = [r \in Requests |-> doubts[r] \cup x[r] \cup y[r]]
                      /\ \A r \in Requests : x[r] \subseteq Reasons /\ y[r] \subseteq Reasons
        <3>. HIDE DEF f, g
        <3>. QED BY <2>1, <2>2
    <2>. QED BY <2>3, TwoDoubtsGrow
<1>5. ASSUME Client PROVE DoubtsGrow
    BY <1>0, <1>5 DEF Client, subscribe_to, handle_event, send_message_received_to_broker,
           Disconnected
<1>6. ASSUME Handlers PROVE DoubtsGrow
    BY <1>0, <1>6 DEF Handlers, AckDirect, Apply, SendAnswer
<1>7. ASSUME NEW m, handle_caught(m) PROVE DoubtsGrow
    BY <1>0, <1>7, DoubtGrows DEF handle_caught
<1>8. ASSUME NEW t, receive_message_id(t) \/ wait_catch(t) \/ catch_pokemon(t)
      PROVE  DoubtsGrow
    BY <1>0, <1>8 DEF receive_message_id, wait_catch, catch_pokemon
<1>9. ASSUME NEW id, GameBoyToGameCard(id) PROVE DoubtsGrow
    BY <1>9, DoubtGrows DEF GameBoyToGameCard
<1>10. ASSUME GameBoyToBroker \/ GameCardStarts \/ BrokerStarts PROVE DoubtsGrow
    BY <1>0, <1>10 DEF GameBoyToBroker, GameCardStarts, BrokerStarts
<1>11. ASSUME GameCardDies PROVE DoubtsGrow
    BY <1>11, DoubtGrows DEF GameCardDies
<1>12. ASSUME BrokerDies PROVE DoubtsGrow
    BY <1>12, DoubtGrows DEF BrokerDies
<1>13. Broker => DoubtsGrow
    BY <1>1, <1>2, <1>3, <1>4 DEF Broker
<1>14. TeamThreads => DoubtsGrow
    BY <1>7, <1>8 DEF TeamThreads
<1>. QED BY <1>5, <1>6, <1>8, <1>9, <1>10, <1>11, <1>12, <1>13, <1>14 DEF Next

\* Every step keeps these types.
LEMMA NextOtherTypes ==
    ASSUME OtherTypes, [Next]_vars
    PROVE  OtherTypes' /\ bound' = bound /\ DoubtsGrow
<1>1. CASE UNCHANGED vars
    BY <1>1 DEF vars, deathVars, OtherTypes, DoubtsGrow
<1>2. CASE Next
    <2>1. DoubtsGrow
        BY <1>2, DoubtsMove
    <2>2. /\ bound' = bound
          /\ \/ UNCHANGED <<told, deaths, broker_deaths>>
             \/ told < bound.commands /\ told' = told + 1 /\ UNCHANGED <<deaths, broker_deaths>>
             \/ deaths' = deaths + 1 /\ UNCHANGED <<told, broker_deaths>>
             \/ broker_deaths' = broker_deaths + 1 /\ UNCHANGED <<told, deaths>>
        BY <1>2 DEF Next, Broker, SendToSubscriptors, SendToTeam, ListReceivers, Enqueue,
               OverrideSocket, Replay, process_message_ack, Client, subscribe_to, handle_event,
               send_message_received_to_broker, Disconnected, Handlers, AckDirect, Apply,
               SendAnswer, TeamThreads, receive_message_id, wait_catch, handle_caught,
               GameBoyToBroker, GameBoyToGameCard, catch_pokemon, GameCardDies, GameCardStarts,
               BrokerDies, BrokerStarts, TeamFrame, deathVars
    <2>3. bound.commands \in Nat
        BY Bounded DEF OtherTypes
    <2>. QED BY <2>1, <2>2, <2>3 DEF OtherTypes, DoubtsGrow
<1>. QED BY <1>1, <1>2

\* A trainer that may ask once more has a number for it.
LEMMA MoreCatches ==
    ASSUME ConvTypes, NEW t \in Trainers, Cardinality(Catches) < bound.catches
    PROVE  /\ trainer[t].n + 1 <= bound.catches /\ trainer[t].n + 1 \in Nat
           /\ <<t, trainer[t].n + 1>> \in Requests /\ bound.code = "CATCH_POKEMON"
<1>1. /\ bound.catches \in Nat /\ MostRequests \in Nat /\ bound.catches <= MostRequests
      /\ bound.catches > 0 => bound.code = "CATCH_POKEMON"
    BY Bounded DEF ConvTypes, OtherTypes
<1>2. trainer[t].n \in Nat /\ trainer[t].n <= bound.catches
    BY DEF ConvTypes, TeamTypes, TrainerState
<1>3. IsFiniteSet(Catches)
    <2>1. \A T : T = Trainers => IsFiniteSet(T)
        <3>1. Max({b.trainers : b \in Bounds}) \in Nat
            <4>. DEFINE sizes == {b.trainers : b \in Bounds}
                        f == [c \in Bounds |-> c.trainers]
            <4>1. f \in Surjection(Bounds, sizes)
                BY DEF Surjection
            <4>2. IsFiniteSet(sizes)
                BY <4>1, Sizes, FS_Surjection
            <4>3. sizes \in SUBSET Nat /\ sizes # {}
                BY Sizes
            <4>. HIDE DEF sizes
            <4>4. Max(sizes) \in Nat
                BY <4>2, <4>3, FiniteHasMax
            <4>. QED BY <4>4 DEF sizes
        <3>. QED BY <3>1, FS_Interval DEF Trainers
    <2>2. IsFiniteSet(1..MostRequests)
        BY <1>1, FS_Interval
    <2>3. IsFiniteSet(Trainers \X (1..MostRequests))
        BY <2>1, <2>2, FS_Product
    <2>. QED BY <2>3, FS_Subset DEF Catches
<1>. DEFINE asked == {r \in {t} \X (1..MostRequests) : r[2] <= trainer[t].n}
<1>4. asked \subseteq Catches
    BY DEF Catches
<1>5. Cardinality(asked) <= Cardinality(Catches) /\ Cardinality(Catches) \in Nat /\ IsFiniteSet(asked)
    BY <1>3, <1>4, FS_Subset, FS_CardinalityType
<1>6. Cardinality(asked) = trainer[t].n
    <2>. DEFINE f == [k \in 1..trainer[t].n |-> <<t, k>>]
    <2>1. f \in Bijection(1..trainer[t].n, asked)
        <3>1. f \in Injection(1..trainer[t].n, asked)
            BY <1>1, <1>2 DEF Injection, IsInjective
        <3>2. f \in Surjection(1..trainer[t].n, asked)
            BY <1>1, <1>2 DEF Surjection
        <3>. QED BY <3>1, <3>2 DEF Bijection
    <2>2. IsFiniteSet(1..trainer[t].n) /\ Cardinality(1..trainer[t].n) = trainer[t].n
        <3>1. PICK n \in Nat : n = trainer[t].n
            BY <1>2
        <3>2. IsFiniteSet(1..n) /\ Cardinality(1..n) = IF 1 > n THEN 0 ELSE n - 1 + 1
            BY FS_Interval
        <3>3. Cardinality(1..n) = n
            BY <3>2
        <3>. QED BY <3>1, <3>2, <3>3
    <2>3. ExistsBijection(1..trainer[t].n, asked)
        <3>. HIDE DEF f, asked
        <3>. QED BY <2>1 DEF ExistsBijection
    <2>. HIDE DEF f, asked
    <2>. QED BY <2>2, <2>3, FS_Bijection
<1>7. trainer[t].n < bound.catches
    <2>. HIDE DEF asked
    <2>. QED BY <1>1, <1>2, <1>5, <1>6
<1>. QED BY <1>1, <1>2, <1>7 DEF Requests

\* The messages that the GameBoy, a trainer and a handler send.
FromGameBoy == Message(bound.code, 0, <<0, told + 1>>, 0)
FromTrainer(t) == Message("CATCH_POKEMON", 0, <<t, trainer[t].n + 1>>, 0)
FromHandler(h) == Message(Answer[h.m.code], CorrelativeId(h.m), h.m.request, h.result)

\* The GameBoy's next message is for the queue looked at.
LEMMA GameBoySends ==
    ASSUME OtherTypes, told < bound.commands
    PROVE  /\ <<0, told + 1>> \in Requests /\ FromGameBoy \in MessageRecord
           /\ FromGameBoy.code = bound.code /\ FromGameBoy.request = <<0, told + 1>>
           /\ bound.code \in {"NEW_POKEMON", "CATCH_POKEMON", "GET_POKEMON"}
<1>1. /\ bound.commands \in Nat /\ MostRequests \in Nat /\ bound.commands <= MostRequests
      /\ bound.code \in {"NEW_POKEMON", "CATCH_POKEMON", "GET_POKEMON"}
    BY Bounded DEF OtherTypes
<1>2. <<0, told + 1>> \in Requests
    BY <1>1 DEF Requests, OtherTypes
<1>. QED BY <1>1, <1>2, MessageFacts DEF FromGameBoy, Codes

\* So is a trainer's, which asks for one request more.
LEMMA TrainerSends ==
    ASSUME ConvTypes, NEW t \in Trainers, Cardinality(Catches) < bound.catches
    PROVE  /\ FromTrainer(t) \in MessageRecord
           /\ FromTrainer(t).code = bound.code /\ FromTrainer(t).request = <<t, trainer[t].n + 1>>
BY MoreCatches, MessageFacts DEF FromTrainer, Codes

\* A handler's is for another queue, and if for the Team's it names the request's id.
LEMMA HandlerSends ==
    ASSUME OtherTypes, NEW h \in HandlerState
    PROVE  /\ FromHandler(h) \in MessageRecord /\ FromHandler(h).request = h.m.request
           /\ FromHandler(h).code # bound.code /\ h.m \in Queued /\ h.m.request \in Requests
           /\ FromHandler(h).code = "CAUGHT_POKEMON" => FromHandler(h).correlative_id = h.m.id
<1>1. /\ h.m \in MessageRecord /\ h.m.code = bound.code /\ h.result \in {0, 1} /\ h.m \in Queued
      /\ bound.code \in {"NEW_POKEMON", "CATCH_POKEMON", "GET_POKEMON"}
    BY Bounded DEF OtherTypes, HandlerState, Queued
<1>2. h.m.request \in Requests /\ h.m.id \in Nat
    BY <1>1 DEF MessageRecord
<1>3. /\ CorrelativeId(h.m) \in Nat
      /\ h.m.code = "CATCH_POKEMON" => CorrelativeId(h.m) = h.m.id
    BY <1>2 DEF CorrelativeId
<1>4. /\ Answer[h.m.code] \in Codes /\ Answer[h.m.code] # bound.code
      /\ Answer[h.m.code] = "CAUGHT_POKEMON" => h.m.code = "CATCH_POKEMON"
    BY <1>1 DEF Answer, Codes
<1>. QED BY <1>1, <1>2, <1>3, <1>4, MessageFacts DEF FromHandler

\* Every step keeps the broker's types.
LEMMA NextBrokerTypes ==
    ASSUME ConvTypes, [Next]_vars
    PROVE  BrokerTypes'
<1>0. /\ BrokerTypes /\ ClientTypes /\ GameCardTypes /\ TeamTypes /\ OtherTypes
      /\ bound' = bound /\ Queued' = Queued /\ Publisher' = Publisher /\ Entry' = Entry
    BY NextOtherTypes DEF ConvTypes, Queued, Publisher, Entry
<1>1. ASSUME UNCHANGED brokerVars PROVE BrokerTypes'
    BY <1>0, <1>1, Zenon DEF BrokerTypes, brokerVars
<1>2. ASSUME NEW m \in MessageRecord, m.code \in {bound.code, "CAUGHT_POKEMON"} \/ TRUE, Accept(m),
             UNCHANGED <<broker_up, subscriptor, subscribing, messages, acks>>
      PROVE  BrokerTypes'
    BY <1>0, <1>2, AcceptFacts DEF BrokerTypes
<1>3. ASSUME NEW p \in publishers, SendToSubscriptors(p) PROVE BrokerTypes'
    <2>1. p \in Publisher /\ p.m.code = bound.code /\ subscriptor \in Nat
        BY <1>0, <1>3 DEF SendToSubscriptors, BrokerTypes
    <2>2. PICK q \in Publisher : /\ q = [p EXCEPT !.pc = "list", !.sent = subscriptor]
                                 /\ q.m = p.m
        <3>. DEFINE q == [p EXCEPT !.pc = "list", !.sent = subscriptor]
        <3>1. q \in Publisher /\ q.m = p.m
            BY <2>1 DEF Publisher
        <3>. HIDE DEF q
        <3>. QED BY <3>1 DEF q
    <2>3. p.m.code # "CAUGHT_POKEMON"
        BY <1>0, <2>1, Bounded DEF OtherTypes
    <2>4. publishers' = (publishers \ {p}) \cup {q}
        BY <1>3, <2>2 DEF SendToSubscriptors
    <2>5. UNCHANGED <<broker_up, message_count, subscriptor, subscribing, messages, acks>>
        BY <1>3 DEF SendToSubscriptors
    <2>. QED BY <1>0, <2>2, <2>3, <2>4, <2>5, Zenon DEF BrokerTypes
<1>4. ASSUME NEW p \in publishers, SendToTeam(p) PROVE BrokerTypes'
    BY <1>0, <1>4 DEF SendToTeam, BrokerTypes
<1>5. ASSUME NEW p \in publishers, ListReceivers(p) PROVE BrokerTypes'
    <2>1. p \in Publisher /\ p.pc = "list" /\ subscriptor \in Nat /\ p.m.code # "CAUGHT_POKEMON"
        BY <1>0, <1>5 DEF ListReceivers, BrokerTypes
    <2>2. PICK q \in Publisher : /\ q = [p EXCEPT !.pc = "enqueue", !.receiver = subscriptor]
                                 /\ q.m = p.m
        <3>. DEFINE q == [p EXCEPT !.pc = "enqueue", !.receiver = subscriptor]
        <3>1. q \in Publisher /\ q.m = p.m
            BY <2>1 DEF Publisher
        <3>. HIDE DEF q
        <3>. QED BY <3>1 DEF q
    <2>4. publishers' = (publishers \ {p}) \cup {q}
        BY <1>5, <2>2 DEF ListReceivers
    <2>5. UNCHANGED <<broker_up, message_count, subscriptor, subscribing, messages, acks>>
        BY <1>5 DEF ListReceivers
    <2>. QED BY <1>0, <2>1, <2>2, <2>4, <2>5, Zenon DEF BrokerTypes
<1>6. ASSUME NEW p \in publishers, Enqueue(p) PROVE BrokerTypes'
    <2>1. p \in Publisher /\ p.pc = "enqueue" /\ p.m.code # "CAUGHT_POKEMON"
        BY <1>0, <1>6 DEF Enqueue, BrokerTypes
    <2>2. [m |-> p.m, receiver |-> p.receiver, received |-> FALSE] \in Entry
        BY <2>1 DEF Publisher, Entry, Caught
    <2>3. messages' \in Seq(Entry)
        BY <1>0, <1>6, <2>2, AppendProperties DEF Enqueue, BrokerTypes
    <2>. QED BY <1>0, <1>6, <2>3 DEF Enqueue, BrokerTypes
<1>7. ASSUME NEW h \in subscribing, OverrideSocket(h) PROVE BrokerTypes'
    <2>1. h \in [pc : {"override", "replay"}, socket : Nat, old_socket : Nat] /\ subscriptor \in Nat
        BY <1>0 DEF BrokerTypes
    <2>2. [h EXCEPT !.pc = "replay", !.old_socket = IF subscriptor = 0 THEN h.socket
                                                    ELSE subscriptor]
            \in [pc : {"override", "replay"}, socket : Nat, old_socket : Nat] /\ h.socket \in Nat
        BY <2>1
    <2>. QED BY <1>0, <1>7, <2>2 DEF OverrideSocket, BrokerTypes
<1>8. ASSUME NEW h \in subscribing, Replay(h) PROVE BrokerTypes'
    <2>1. PICK f : /\ messages' = [i \in DOMAIN messages |-> f[i]]
                   /\ \A i \in DOMAIN messages :
                        f[i] \in {messages[i], [messages[i] EXCEPT !.receiver = h.socket]}
        <3>. DEFINE missed == {i \in DOMAIN messages : ~AlreadyReceived(messages[i], h.old_socket)}
                    g == [i \in DOMAIN messages |->
                            IF i \in missed /\ messages[i].receiver = h.old_socket
                            THEN [messages[i] EXCEPT !.receiver = h.socket] ELSE messages[i]]
        <3>1. messages' = g
            BY <1>8 DEF Replay
        <3>2. messages' = [i \in DOMAIN messages |-> g[i]]
            BY <3>1
        <3>3. \A i \in DOMAIN messages :
                g[i] \in {messages[i], [messages[i] EXCEPT !.receiver = h.socket]}
            OBVIOUS
        <3>. HIDE DEF g
        <3>. QED BY <3>2, <3>3
    <2>2. h.socket \in Nat /\ \A i \in DOMAIN messages : messages[i] \in Entry
        BY <1>0, ElementOfSeq DEF BrokerTypes
    <2>3. \A i \in DOMAIN messages : f[i] \in Entry
        BY <2>1, <2>2 DEF Entry
    <2>4. messages' \in Seq(Entry)
        <3>1. messages \in Seq(Entry)
            BY <1>0 DEF BrokerTypes
        <3>. QED BY <2>1, <2>3, <3>1, LenProperties
    <2>. QED BY <1>0, <1>8, <2>4 DEF Replay, BrokerTypes
<1>9. ASSUME NEW a \in DOMAIN acks, process_message_ack(a) PROVE BrokerTypes'
    <2>1. PICK f : /\ messages' = [i \in DOMAIN messages |-> f[i]]
                   /\ \A i \in DOMAIN messages :
                        f[i] \in {messages[i], [messages[i] EXCEPT !.received = TRUE]}
        <3>. DEFINE g == [i \in DOMAIN messages |->
                            IF messages[i].m.id = a.id /\ messages[i].receiver = subscriptor
                            THEN [messages[i] EXCEPT !.received = TRUE] ELSE messages[i]]
        <3>1. messages' = g
            BY <1>9 DEF process_message_ack
        <3>2. messages' = [i \in DOMAIN messages |-> g[i]]
            BY <3>1
        <3>3. \A i \in DOMAIN messages :
                g[i] \in {messages[i], [messages[i] EXCEPT !.received = TRUE]}
            OBVIOUS
        <3>. HIDE DEF g
        <3>. QED BY <3>2, <3>3
    <2>2. \A i \in DOMAIN messages : messages[i] \in Entry
        BY <1>0, ElementOfSeq DEF BrokerTypes
    <2>3. \A i \in DOMAIN messages : f[i] \in Entry
        BY <2>1, <2>2 DEF Entry
    <2>4. messages' \in Seq(Entry)
        <3>1. messages \in Seq(Entry)
            BY <1>0 DEF BrokerTypes
        <3>. QED BY <2>1, <2>3, <3>1, LenProperties
    <2>5. IsABag(acks)' /\ DOMAIN acks' \subseteq DOMAIN acks
        BY <1>0, <1>9, BagRemove DEF process_message_ack, BrokerTypes
    <2>. QED BY <1>0, <1>9, <2>4, <2>5 DEF process_message_ack, BrokerTypes
<1>10. CASE subscribe_to
    BY <1>0, <1>10 DEF subscribe_to, BrokerTypes, ClientTypes
<1>11. ASSUME NEW m \in Queued, SendAck(m),
              UNCHANGED <<broker_up, message_count, publishers, subscriptor, subscribing, messages>>
       PROVE  BrokerTypes'
    <2>1. [id |-> m.id, request |-> m.request] \in [id : Nat, request : Requests]
        BY DEF Queued, MessageRecord
    <2>2. IsABag(acks)' /\ DOMAIN acks' \subseteq [id : Nat, request : Requests]
        <3>1. IsABag(acks) /\ DOMAIN acks \subseteq [id : Nat, request : Requests]
            BY <1>0 DEF BrokerTypes
        <3>2. PICK x : x = [id |-> m.id, request |-> m.request]
            OBVIOUS
        <3>3. acks' = IF broker_up THEN acks (+) One(x) ELSE acks
            BY <1>11, <3>2, Zenon DEF SendAck
        <3>4. IsABag(acks (+) One(x)) /\ DOMAIN (acks (+) One(x)) = DOMAIN acks \cup {x}
            BY <3>1, BagAdd
        <3>5. CASE broker_up
            BY <2>1, <3>1, <3>2, <3>3, <3>4, <3>5
        <3>6. CASE ~broker_up
            BY <3>1, <3>3, <3>6
        <3>. QED BY <3>5, <3>6
    <2>. QED BY <1>0, <1>11, <2>2 DEF BrokerTypes
<1>12. CASE send_message_received_to_broker
    BY <1>0, <1>11, <1>12 DEF send_message_received_to_broker, ClientTypes
<1>13. ASSUME NEW m \in direct, AckDirect(m) PROVE BrokerTypes'
    BY <1>0, <1>11, <1>13 DEF AckDirect, GameCardTypes
<1>14. CASE GameBoyToBroker
    <2>1. CASE broker_up
        BY <1>0, <1>2, <1>14, <2>1, GameBoySends DEF GameBoyToBroker, FromGameBoy
    <2>2. CASE ~broker_up
        BY <1>1, <1>14, <2>2 DEF GameBoyToBroker, brokerVars
    <2>. QED BY <2>1, <2>2
<1>15. ASSUME NEW h \in DOMAIN threads, SendAnswer(h) PROVE BrokerTypes'
    <2>0. h \in HandlerState
        BY <1>0 DEF GameCardTypes
    <2>1. CASE broker_up
        BY <1>0, <1>2, <1>15, <2>0, <2>1, HandlerSends DEF SendAnswer, FromHandler
    <2>2. CASE ~broker_up
        BY <1>1, <1>15, <2>2 DEF SendAnswer, brokerVars
    <2>. QED BY <2>1, <2>2
<1>16. ASSUME NEW t \in Trainers, catch_pokemon(t) PROVE BrokerTypes'
    <2>1. CASE broker_up
        BY <1>2, <1>16, <2>1, TrainerSends DEF catch_pokemon, TeamFrame, FromTrainer
    <2>2. CASE ~broker_up
        BY <1>1, <1>16, <2>2 DEF catch_pokemon, TeamFrame, brokerVars
    <2>. QED BY <2>1, <2>2
<1>17. CASE BrokerDies
    <2>1. messages' \in Seq(Entry) /\ IsABag(acks)' /\ DOMAIN acks' = {}
        <3>1. messages' = <<>> /\ acks' = EmptyBag
            BY <1>17, Zenon DEF BrokerDies
        <3>. QED BY <3>1, EmptyIsBag, EmptySeq
    <2>. QED BY <1>0, <1>17, <2>1 DEF BrokerDies, BrokerTypes
<1>18. CASE BrokerStarts
    BY <1>0, <1>18 DEF BrokerStarts, BrokerTypes
<1>19. ASSUME handle_event \/ Disconnected \/ GameCardDies \/ GameCardStarts
              \/ (\E id \in bound.ids : GameBoyToGameCard(id))
              \/ (\E h \in DOMAIN threads : Apply(h))
       PROVE  UNCHANGED brokerVars
    BY <1>19 DEF handle_event, Disconnected, GameCardDies, GameCardStarts, GameBoyToGameCard, Apply
<1>20. ASSUME NEW t, receive_message_id(t) \/ wait_catch(t) PROVE UNCHANGED brokerVars
    BY <1>20 DEF receive_message_id, wait_catch, TeamFrame, brokerVars
<1>21. ASSUME NEW m, handle_caught(m) PROVE UNCHANGED brokerVars
    BY <1>21 DEF handle_caught, TeamFrame, brokerVars
<1>22. CASE UNCHANGED vars
    BY <1>1, <1>22 DEF vars
<1>23. Broker => BrokerTypes'
    BY <1>3, <1>4, <1>5, <1>6, <1>7, <1>8, <1>9 DEF Broker, BagToSet
<1>24. Client => BrokerTypes'
    BY <1>1, <1>10, <1>12, <1>19 DEF Client
<1>25. Handlers => BrokerTypes'
    BY <1>1, <1>13, <1>15, <1>19 DEF Handlers, BagToSet
<1>26. TeamThreads => BrokerTypes'
    BY <1>1, <1>20, <1>21 DEF TeamThreads
<1>. QED BY <1>1, <1>14, <1>16, <1>17, <1>18, <1>19, <1>22, <1>23, <1>24, <1>25, <1>26 DEF Next

\* The messages in the queue are for the GameCard, and so is what a replay sends.
LEMMA QueueIsQueued ==
    ASSUME BrokerTypes, ClientTypes, NEW places
    PROVE  /\ \A i \in DOMAIN messages : messages[i].m \in Queued
           /\ Len(messages) \in Nat /\ DOMAIN messages = 1..Len(messages)
           /\ Sent(places) \in Seq(Queued)
<1>1. messages \in Seq(Entry) /\ inbox \in Seq(Queued)
    BY DEF BrokerTypes, ClientTypes
<1>2. \A i \in DOMAIN messages : messages[i] \in Entry
    BY <1>1, ElementOfSeq
<1>3. \A i \in DOMAIN messages : messages[i].m \in Queued
    BY <1>2 DEF Entry
<1>4. Len(messages) \in Nat /\ DOMAIN messages = 1..Len(messages)
    BY <1>1, LenProperties
<1>. QED BY <1>1, <1>3, <1>4, SentIsSeq

\* Every step keeps the types of the GameCard's connection.
LEMMA NextClientTypes ==
    ASSUME ConvTypes, [Next]_vars
    PROVE  ClientTypes'
<1>0. /\ BrokerTypes /\ ClientTypes /\ GameCardTypes /\ TeamTypes /\ OtherTypes
      /\ bound' = bound /\ Queued' = Queued
    BY NextOtherTypes DEF ConvTypes, Queued
<1>1. ASSUME UNCHANGED clientVars PROVE ClientTypes'
    BY <1>0, <1>1, Zenon DEF ClientTypes, clientVars
<1>2. ASSUME inbox' \in Seq(Queued), UNCHANGED <<sockets, connection, reader>>
      PROVE  ClientTypes'
    BY <1>0, <1>2, Zenon DEF ClientTypes
<1>3. ASSUME NEW p \in publishers, SendToSubscriptors(p) PROVE ClientTypes'
    <2>1. p.m \in Queued
        BY <1>0, <1>3, Bounded DEF SendToSubscriptors, BrokerTypes, Publisher, OtherTypes, Caught,
               Queued
    <2>2. inbox' \in Seq(Queued)
        BY <1>0, <1>3, <2>1, AppendProperties DEF SendToSubscriptors, ClientTypes
    <2>. QED BY <1>2, <1>3, <2>2 DEF SendToSubscriptors
<1>4. ASSUME NEW h \in subscribing, Replay(h) PROVE ClientTypes'
    <2>1. inbox' \in Seq(Queued)
        <3>1. PICK places : inbox' = IF connection = h.socket THEN Sent(places) ELSE inbox
            BY <1>4 DEF Replay
        <3>. QED BY <1>0, <3>1, QueueIsQueued DEF ClientTypes
    <2>. QED BY <1>2, <1>4, <2>1 DEF Replay
<1>5. CASE subscribe_to
    BY <1>0, <1>5 DEF subscribe_to, ClientTypes
<1>6. CASE handle_event
    <2>1. inbox \in Seq(Queued) /\ inbox # <<>>
        BY <1>0, <1>6 DEF handle_event, ClientTypes
    <2>2. Head(inbox) \in Queued /\ Tail(inbox) \in Seq(Queued)
        BY <2>1, HeadTailProperties
    <2>3. reader' = [pc |-> "ack", m |-> Head(inbox)] /\ inbox' = Tail(inbox)
          /\ UNCHANGED <<sockets, connection>>
        BY <1>6 DEF handle_event
    <2>. QED BY <1>0, <2>2, <2>3 DEF ClientTypes, Queued
<1>7. CASE send_message_received_to_broker \/ Disconnected \/ GameCardStarts
    BY <1>0, <1>7 DEF send_message_received_to_broker, Disconnected, GameCardStarts, ClientTypes
<1>8. CASE GameCardDies
    BY <1>0, <1>8, EmptySeq DEF GameCardDies, ClientTypes
<1>9. CASE BrokerDies
    BY <1>0, <1>9 DEF BrokerDies, ClientTypes
<1>10. ASSUME NEW p \in publishers, SendToTeam(p) \/ ListReceivers(p) \/ Enqueue(p)
       PROVE  UNCHANGED clientVars
    BY <1>10 DEF SendToTeam, ListReceivers, Enqueue
<1>11. ASSUME NEW h, OverrideSocket(h) PROVE UNCHANGED clientVars
    BY <1>11 DEF OverrideSocket
<1>12. ASSUME NEW a, process_message_ack(a) PROVE UNCHANGED clientVars
    BY <1>12 DEF process_message_ack
<1>13. ASSUME Handlers PROVE UNCHANGED clientVars
    BY <1>13 DEF Handlers, AckDirect, Apply, SendAnswer
<1>14. ASSUME TeamThreads \/ \E t \in Trainers : catch_pokemon(t) PROVE UNCHANGED clientVars
    BY <1>14 DEF TeamThreads, receive_message_id, wait_catch, handle_caught, catch_pokemon,
           TeamFrame
<1>15. ASSUME GameBoyToBroker \/ (\E id \in bound.ids : GameBoyToGameCard(id)) \/ BrokerStarts
       PROVE  UNCHANGED clientVars
    BY <1>15 DEF GameBoyToBroker, GameBoyToGameCard, BrokerStarts
<1>16. CASE UNCHANGED vars
    BY <1>1, <1>16 DEF vars
<1>17. Broker => ClientTypes'
    BY <1>1, <1>3, <1>4, <1>10, <1>11, <1>12 DEF Broker
<1>18. Client => ClientTypes'
    BY <1>5, <1>6, <1>7 DEF Client
<1>. QED BY <1>1, <1>7, <1>8, <1>9, <1>13, <1>14, <1>15, <1>16, <1>17, <1>18 DEF Next

\* A handler that Apply leaves for its answer.
Applied(h) == [h EXCEPT !.pc = "answer", !.result = IF pokemons > 0 THEN 1 ELSE 0]

\* What a handler does: the pokemons, its request applied, and perhaps an answer to send.
LEMMA ApplyFacts ==
    ASSUME ConvTypes, NEW h \in DOMAIN threads, Apply(h)
    PROVE  /\ h \in HandlerState /\ h.pc = "apply" /\ h.m.request \in Requests
           /\ Applied(h) \in HandlerState /\ Applied(h).m = h.m /\ Applied(h).pc = "answer"
           /\ threads' \in {threads (-) One(h), (threads (-) One(h)) (+) One(Applied(h))}
           /\ applied' = [applied EXCEPT ![h.m.request] = @ + 1]
           /\ pokemons' \in Nat
<1>1. /\ h \in HandlerState /\ pokemons \in Nat /\ h.pc = "apply" /\ IsABag(threads)
    BY DEF ConvTypes, GameCardTypes, Apply
<1>2. h.m \in MessageRecord /\ h.m.request \in Requests
    BY <1>1 DEF HandlerState, Queued, MessageRecord
<1>3. Applied(h) \in HandlerState /\ Applied(h).m = h.m /\ Applied(h).pc = "answer"
    BY <1>1 DEF Applied, HandlerState
<1>4. /\ threads' = (threads (-) One(h)) (+)
                        (IF h.m.code = "GET_POKEMON" /\ ~(pokemons > 0) THEN EmptyBag
                         ELSE One(Applied(h)))
      /\ applied' = [applied EXCEPT ![h.m.request] = @ + 1]
    BY DEF Apply, Applied
<1>5. (threads (-) One(h)) (+) EmptyBag = threads (-) One(h)
    <2>1. PICK B : B = threads (-) One(h)
        OBVIOUS
    <2>2. IsABag(B)
        BY <1>1, <2>1, BagRemove
    <2>3. B (+) EmptyBag = B
        BY <2>2 DEF IsABag, EmptyBag, SetToBag, (+)
    <2>. QED BY <2>1, <2>3
<1>6. pokemons' \in Nat
    BY <1>1 DEF Apply
<1>. QED BY <1>1, <1>2, <1>3, <1>4, <1>5, <1>6

\* A thread that has read m.
Reading(m) == [pc |-> "apply", m |-> m, result |-> 0]

\* Every step keeps the types of the GameCard.
LEMMA NextGameCardTypes ==
    ASSUME ConvTypes, [Next]_vars
    PROVE  GameCardTypes'
<1>0. /\ BrokerTypes /\ ClientTypes /\ GameCardTypes /\ TeamTypes /\ OtherTypes
      /\ bound' = bound /\ Queued' = Queued /\ HandlerState' = HandlerState
    BY NextOtherTypes DEF ConvTypes, Queued, HandlerState
<1>1. ASSUME UNCHANGED gamecardVars PROVE GameCardTypes'
    BY <1>0, <1>1, Zenon DEF GameCardTypes, gamecardVars
<1>2. ASSUME NEW m \in Queued
      PROVE  /\ Reading(m) \in HandlerState /\ m.request \in Requests
             /\ IsABag(threads (+) Thread(m))
             /\ DOMAIN (threads (+) Thread(m)) \subseteq HandlerState
    <2>1. Reading(m) \in HandlerState /\ m.request \in Requests
        BY DEF Reading, HandlerState, Queued, MessageRecord
    <2>2. Thread(m) = One(Reading(m))
        BY DEF Thread, Reading
    <2>3. IsABag(threads) /\ DOMAIN threads \subseteq HandlerState
        BY <1>0 DEF GameCardTypes
    <2>4. PICK x \in HandlerState : x = Reading(m)
        BY <2>1
    <2>5. IsABag(threads (+) One(x)) /\ DOMAIN (threads (+) One(x)) = DOMAIN threads \cup {x}
        BY <2>3, BagAdd
    <2>. QED BY <2>1, <2>2, <2>3, <2>4, <2>5
<1>3. CASE handle_event
    <2>1. Head(inbox) \in Queued
        BY <1>0, <1>3, HeadTailProperties DEF handle_event, ClientTypes
    <2>2. /\ threads' = threads (+) Thread(Head(inbox)) /\ read' = read \cup {Head(inbox).request}
          /\ UNCHANGED <<gamecard_up, direct, pokemons, applied>>
        BY <1>3 DEF handle_event
    <2>. QED BY <1>0, <1>2, <2>1, <2>2 DEF GameCardTypes
<1>4. ASSUME NEW id \in bound.ids, GameBoyToGameCard(id) PROVE GameCardTypes'
    <2>1. told < bound.commands /\ id \in Nat
        BY <1>0, <1>4, Bounded DEF GameBoyToGameCard, OtherTypes
    <2>2. PICK m : m = [FromGameBoy EXCEPT !.id = id]
        OBVIOUS
    <2>3. m \in Queued
        BY <1>0, <2>1, <2>2, GameBoySends DEF Queued, MessageRecord
    <2>4. /\ threads' = threads (+) Thread(m) /\ read' = read \cup {m.request}
          /\ direct' = direct \cup {m} /\ UNCHANGED <<gamecard_up, pokemons, applied>>
        BY <1>4, <2>2 DEF GameBoyToGameCard, FromGameBoy
    <2>. QED BY <1>0, <1>2, <2>3, <2>4 DEF GameCardTypes
<1>5. ASSUME NEW m \in direct, AckDirect(m) PROVE GameCardTypes'
    BY <1>0, <1>5 DEF AckDirect, GameCardTypes
<1>6. ASSUME NEW h \in DOMAIN threads, Apply(h) PROVE GameCardTypes'
    <2>1. /\ IsABag(threads) /\ DOMAIN threads \subseteq HandlerState
          /\ Applied(h) \in HandlerState /\ h.m.request \in Requests
          /\ threads' \in {threads (-) One(h), (threads (-) One(h)) (+) One(Applied(h))}
          /\ applied' = [applied EXCEPT ![h.m.request] = @ + 1] /\ pokemons' \in Nat
        BY <1>0, <1>6, ApplyFacts DEF GameCardTypes
    <2>2. PICK B : B = threads (-) One(h)
        OBVIOUS
    <2>3. IsABag(B) /\ DOMAIN B \subseteq HandlerState
        BY <2>1, <2>2, BagRemove
    <2>4. IsABag(B (+) One(Applied(h))) /\ DOMAIN (B (+) One(Applied(h))) \subseteq HandlerState
        <3>1. PICK x \in HandlerState : x = Applied(h)
            BY <2>1
        <3>2. IsABag(B (+) One(x)) /\ DOMAIN (B (+) One(x)) = DOMAIN B \cup {x}
            BY <2>3, BagAdd
        <3>. QED BY <2>3, <3>1, <3>2
    <2>5. IsABag(threads') /\ DOMAIN threads' \subseteq HandlerState
        BY <2>1, <2>2, <2>3, <2>4
    <2>6. applied' \in [Requests -> Nat]
        BY <1>0, <2>1 DEF GameCardTypes
    <2>7. UNCHANGED <<gamecard_up, direct, read>>
        BY <1>6 DEF Apply
    <2>. QED BY <1>0, <2>1, <2>5, <2>6, <2>7 DEF GameCardTypes
<1>7. ASSUME NEW h \in DOMAIN threads, SendAnswer(h) PROVE GameCardTypes'
    <2>1. IsABag(threads)' /\ DOMAIN threads' \subseteq DOMAIN threads
        BY <1>0, <1>7, BagRemove DEF SendAnswer, GameCardTypes
    <2>. QED BY <1>0, <1>7, <2>1 DEF SendAnswer, GameCardTypes
<1>8. CASE GameCardDies
    BY <1>0, <1>8, EmptyIsBag DEF GameCardDies, GameCardTypes
<1>9. CASE GameCardStarts
    BY <1>0, <1>9 DEF GameCardStarts, GameCardTypes
<1>10. ASSUME Broker PROVE UNCHANGED gamecardVars
    BY <1>10 DEF Broker, SendToSubscriptors, SendToTeam, ListReceivers, Enqueue, OverrideSocket,
           Replay, process_message_ack
<1>11. CASE Client /\ ~handle_event
    BY <1>1, <1>11 DEF Client, subscribe_to, send_message_received_to_broker, Disconnected
<1>12. ASSUME TeamThreads \/ \E t \in Trainers : catch_pokemon(t) PROVE UNCHANGED gamecardVars
    BY <1>12 DEF TeamThreads, receive_message_id, wait_catch, handle_caught, catch_pokemon,
           TeamFrame
<1>13. ASSUME GameBoyToBroker \/ BrokerDies \/ BrokerStarts PROVE UNCHANGED gamecardVars
    BY <1>13 DEF GameBoyToBroker, BrokerDies, BrokerStarts
<1>14. CASE UNCHANGED vars
    BY <1>1, <1>14 DEF vars
<1>15. Handlers => GameCardTypes'
    BY <1>5, <1>6, <1>7 DEF Handlers, BagToSet
<1>. QED BY <1>1, <1>3, <1>4, <1>8, <1>9, <1>10, <1>11, <1>12, <1>13, <1>14, <1>15 DEF Next

\* A trainer is the same but for what is named.
OthersStay(t) == \A u \in Trainers \ {t} : trainer'[u] = trainer[u]

\* What a step of the Team does to a trainer.
LEMMA TrainerSteps ==
    ASSUME ConvTypes, NEW t \in Trainers
    PROVE  /\ receive_message_id(t) =>
                /\ OthersStay(t) /\ trainer'[t] \in TrainerState /\ trainer[t] \in TrainerState
                /\ trainer'[t].pc = trainer[t].pc /\ trainer'[t].n = trainer[t].n
                /\ trainer'[t].sem_caught = trainer[t].sem_caught
                /\ trainer'[t].answer = trainer[t].answer /\ trainer'[t].heard = trainer[t].heard
                /\ trainer'[t].returned \subseteq trainer[t].returned
                /\ trainer'[t].id_message \in trainer[t].returned
           /\ wait_catch(t) =>
                /\ OthersStay(t) /\ trainer'[t] \in TrainerState /\ trainer[t] \in TrainerState
                /\ trainer[t].pc = "wait" /\ trainer[t].sem_caught = 1
                /\ trainer'[t].pc = "free" /\ trainer'[t].n = trainer[t].n
                /\ trainer'[t].sem_caught = 0
                /\ trainer'[t].answer = trainer[t].answer /\ trainer'[t].heard = trainer[t].heard
                /\ trainer'[t].returned = trainer[t].returned
                /\ trainer'[t].id_message = trainer[t].id_message
<1>1. trainer \in [Trainers -> TrainerState] /\ trainer[t] \in TrainerState
    BY DEF ConvTypes, TeamTypes
<1>2. receive_message_id(t) =>
                /\ OthersStay(t) /\ trainer'[t] \in TrainerState /\ trainer[t] \in TrainerState
                /\ trainer'[t].pc = trainer[t].pc /\ trainer'[t].n = trainer[t].n
                /\ trainer'[t].sem_caught = trainer[t].sem_caught
                /\ trainer'[t].answer = trainer[t].answer /\ trainer'[t].heard = trainer[t].heard
                /\ trainer'[t].returned \subseteq trainer[t].returned
                /\ trainer'[t].id_message \in trainer[t].returned
    <2>. SUFFICES ASSUME receive_message_id(t)
                  PROVE  /\ OthersStay(t) /\ trainer'[t] \in TrainerState
                         /\ trainer'[t].pc = trainer[t].pc /\ trainer'[t].n = trainer[t].n
                         /\ trainer'[t].sem_caught = trainer[t].sem_caught
                         /\ trainer'[t].answer = trainer[t].answer
                         /\ trainer'[t].heard = trainer[t].heard
                         /\ trainer'[t].returned \subseteq trainer[t].returned
                         /\ trainer'[t].id_message \in trainer[t].returned
        BY <1>1
    <2>1. PICK id \in trainer[t].returned :
            trainer' = [trainer EXCEPT ![t].returned = trainer[t].returned \ {id},
                                       ![t].id_message = id]
        BY DEF receive_message_id
    <2>2. PICK left : left = trainer[t].returned \ {id}
        OBVIOUS
    <2>3. left \in SUBSET Nat /\ left \subseteq trainer[t].returned /\ id \in Nat
        BY <1>1, <2>2 DEF TrainerState
    <2>4. trainer' = [trainer EXCEPT ![t].returned = left, ![t].id_message = id]
        BY <2>1, <2>2
    <2>5. /\ trainer'[t].pc = trainer[t].pc /\ trainer'[t].n = trainer[t].n
          /\ trainer'[t].sem_caught = trainer[t].sem_caught
          /\ trainer'[t].answer = trainer[t].answer /\ trainer'[t].heard = trainer[t].heard
          /\ trainer'[t].returned = left /\ trainer'[t].id_message = id
          /\ trainer'[t] \in TrainerState
        BY <1>1, <2>3, <2>4 DEF TrainerState
    <2>6. OthersStay(t)
        BY <1>1, <2>4 DEF OthersStay
    <2>. QED BY <2>3, <2>5, <2>6
<1>3. wait_catch(t) =>
                /\ OthersStay(t) /\ trainer'[t] \in TrainerState /\ trainer[t] \in TrainerState
                /\ trainer[t].pc = "wait" /\ trainer[t].sem_caught = 1
                /\ trainer'[t].pc = "free" /\ trainer'[t].n = trainer[t].n
                /\ trainer'[t].sem_caught = 0
                /\ trainer'[t].answer = trainer[t].answer /\ trainer'[t].heard = trainer[t].heard
                /\ trainer'[t].returned = trainer[t].returned
                /\ trainer'[t].id_message = trainer[t].id_message
    BY <1>1 DEF wait_catch, OthersStay, TrainerState
<1>. QED BY <1>2, <1>3

\* A trainer that asks: without a broker its pokemon counts as caught.
LEMMA AskingFacts ==
    ASSUME ConvTypes, NEW t \in Trainers, catch_pokemon(t)
    PROVE  /\ OthersStay(t) /\ trainer'[t] \in TrainerState /\ trainer[t] \in TrainerState
           /\ trainer[t].pc = "free" /\ trainer'[t].n = trainer[t].n + 1
           /\ trainer'[t].pc = IF broker_up THEN "wait" ELSE "free"
           /\ trainer'[t].returned = IF broker_up THEN trainer[t].returned \cup {message_count + 1}
                                     ELSE trainer[t].returned
           /\ trainer'[t].id_message = trainer[t].id_message
           /\ trainer'[t].sem_caught = trainer[t].sem_caught
           /\ trainer'[t].answer = trainer[t].answer /\ trainer'[t].heard = trainer[t].heard
           /\ Cardinality(Catches) < bound.catches
           /\ broker_up => Accept(FromTrainer(t))
           /\ ~broker_up => UNCHANGED <<message_count, publishers>>
<1>1. trainer \in [Trainers -> TrainerState] /\ trainer[t] \in TrainerState /\ message_count \in Nat
    BY DEF ConvTypes, TeamTypes, BrokerTypes
<1>2. /\ trainer[t].pc = "free" /\ Cardinality(Catches) < bound.catches
      /\ broker_up => Accept(FromTrainer(t))
      /\ ~broker_up => UNCHANGED <<message_count, publishers>>
    BY DEF catch_pokemon, FromTrainer
<1>3. CASE broker_up
    <2>1. PICK known : known = trainer[t].returned \cup {message_count + 1}
        OBVIOUS
    <2>2. known \in SUBSET Nat /\ trainer[t].n + 1 \in Nat
        BY <1>1, <2>1 DEF TrainerState
    <2>3. trainer' = [trainer EXCEPT ![t].pc = "wait", ![t].n = trainer[t].n + 1,
                                     ![t].returned = known]
        BY <1>3, <2>1 DEF catch_pokemon
    <2>4. OthersStay(t)
        BY <1>1, <2>3 DEF OthersStay
    <2>5. /\ trainer'[t] \in TrainerState
          /\ trainer'[t].pc = "wait" /\ trainer'[t].n = trainer[t].n + 1
          /\ trainer'[t].returned = known
          /\ trainer'[t].id_message = trainer[t].id_message
          /\ trainer'[t].sem_caught = trainer[t].sem_caught
          /\ trainer'[t].answer = trainer[t].answer /\ trainer'[t].heard = trainer[t].heard
        BY <1>1, <2>2, <2>3 DEF TrainerState
    <2>. QED BY <1>1, <1>2, <1>3, <2>1, <2>4, <2>5
<1>4. CASE ~broker_up
    <2>1. trainer[t].n + 1 \in Nat
        BY <1>1 DEF TrainerState
    <2>3. trainer' = [trainer EXCEPT ![t].n = trainer[t].n + 1, ![t].result_catch = 1]
        BY <1>4 DEF catch_pokemon
    <2>4. OthersStay(t)
        BY <1>1, <2>3 DEF OthersStay
    <2>5. /\ trainer'[t] \in TrainerState
          /\ trainer'[t].pc = trainer[t].pc /\ trainer'[t].n = trainer[t].n + 1
          /\ trainer'[t].returned = trainer[t].returned
          /\ trainer'[t].id_message = trainer[t].id_message
          /\ trainer'[t].sem_caught = trainer[t].sem_caught
          /\ trainer'[t].answer = trainer[t].answer /\ trainer'[t].heard = trainer[t].heard
        BY <1>1, <2>1, <2>3 DEF TrainerState
    <2>. QED BY <1>1, <1>2, <1>4, <2>4, <2>5
<1>. QED BY <1>3, <1>4

\* What wakes a trainer: t holds the id of the request that m answers.
Woken(t, m) ==
    /\ trainer[t].id_message = m.correlative_id
    /\ OthersStay(t) /\ trainer'[t] \in TrainerState /\ trainer[t] \in TrainerState
    /\ trainer'[t].pc = trainer[t].pc /\ trainer'[t].n = trainer[t].n
    /\ trainer'[t].returned = trainer[t].returned
    /\ trainer'[t].id_message = trainer[t].id_message
    /\ trainer'[t].sem_caught = 1 /\ trainer'[t].answer = m.request
    /\ trainer'[t].heard = trainer[t].heard \cup {m.request}

\* An answer wakes a trainer that holds its id, or nobody.
LEMMA AnswerFacts ==
    ASSUME ConvTypes, NEW m \in DOMAIN answers, handle_caught(m)
    PROVE  /\ m \in Caught /\ answers' = answers (-) One(m)
           /\ UNCHANGED trainer \/ \E t \in Trainers : Woken(t, m)
<1>1. trainer \in [Trainers -> TrainerState] /\ m \in Caught
    BY DEF ConvTypes, TeamTypes
<1>2. m.request \in Requests /\ m.result \in {0, 1}
    BY <1>1 DEF Caught, MessageRecord
<1>. DEFINE holding == {t \in Trainers : trainer[t].id_message = m.correlative_id}
            first == CHOOSE t \in holding : \A u \in holding : t <= u
<1>3. CASE holding = {}
    BY <1>1, <1>3 DEF handle_caught
<1>4. CASE holding # {}
    <2>1. first \in holding
        <3>1. holding \in SUBSET Nat
            BY TrainersAreNumbered
        <3>2. \E t \in holding : \A u \in holding : t <= u
            <4>. HIDE DEF holding
            <4>. QED BY <1>4, <3>1, LeastNumber
        <3>. HIDE DEF holding
        <3>. QED BY <3>2
    <2>2. trainer' = [trainer EXCEPT ![first].result_catch = m.result,
                                     ![first].sem_caught = 1, ![first].answer = m.request,
                                     ![first].heard = trainer[first].heard \cup {m.request}]
        BY <1>4 DEF handle_caught
    <2>3. answers' = answers (-) One(m)
        BY DEF handle_caught
    <2>4. PICK t \in Trainers : t = first /\ trainer[t].id_message = m.correlative_id
        BY <2>1
    <2>. HIDE DEF first, holding
    <2>5. PICK all : all = trainer[t].heard \cup {m.request}
        OBVIOUS
    <2>6. trainer' = [trainer EXCEPT ![t].result_catch = m.result, ![t].sem_caught = 1,
                                     ![t].answer = m.request, ![t].heard = all]
        BY <2>2, <2>4, <2>5
    <2>7. trainer[t] \in TrainerState /\ all \in SUBSET Requests
        BY <1>1, <1>2, <2>5 DEF TrainerState
    <2>8. OthersStay(t)
        BY <1>1, <2>6 DEF OthersStay
    <2>9. /\ trainer'[t] \in TrainerState
          /\ trainer'[t].pc = trainer[t].pc /\ trainer'[t].n = trainer[t].n
          /\ trainer'[t].returned = trainer[t].returned
          /\ trainer'[t].id_message = trainer[t].id_message
          /\ trainer'[t].sem_caught = 1 /\ trainer'[t].answer = m.request
          /\ trainer'[t].heard = all
        BY <1>1, <1>2, <2>6, <2>7 DEF TrainerState
    <2>. QED BY <1>1, <2>3, <2>4, <2>5, <2>7, <2>8, <2>9 DEF Woken
<1>. QED BY <1>3, <1>4

\* Every step keeps the types of the Team.
LEMMA NextTeamTypes ==
    ASSUME ConvTypes, [Next]_vars
    PROVE  TeamTypes' /\ DOMAIN trainer' = Trainers
<1>0. /\ BrokerTypes /\ ClientTypes /\ GameCardTypes /\ TeamTypes /\ OtherTypes
      /\ bound' = bound /\ Caught' = Caught /\ TrainerState' = TrainerState
    BY NextOtherTypes DEF ConvTypes, Caught, TrainerState
<1>. SUFFICES TeamTypes'
    BY DEF TeamTypes
<1>1. ASSUME UNCHANGED teamVars PROVE TeamTypes'
    BY <1>0, <1>1, Zenon DEF TeamTypes, teamVars
<1>2. ASSUME NEW t \in Trainers, OthersStay(t), trainer'[t] \in TrainerState,
             trainer'[t].n <= bound.catches, DOMAIN trainer' = Trainers,
             trainer' = [u \in Trainers |-> trainer'[u]]
      PROVE  /\ trainer' \in [Trainers -> TrainerState]
             /\ \A u \in Trainers : trainer'[u].n <= bound.catches
    <2>1. \A u \in Trainers : trainer'[u] \in TrainerState /\ trainer'[u].n <= bound.catches
        BY <1>0, <1>2 DEF OthersStay, TeamTypes
    <2>. QED BY <1>2, <2>1
<1>3. ASSUME NEW t \in Trainers, receive_message_id(t) \/ wait_catch(t) \/ catch_pokemon(t)
      PROVE  TeamTypes'
    <2>1. trainer' = [u \in Trainers |-> trainer'[u]] /\ UNCHANGED <<team_socket, answers>>
        BY <1>0, <1>3 DEF receive_message_id, wait_catch, catch_pokemon, TeamFrame, TeamTypes
    <2>2. OthersStay(t) /\ trainer'[t] \in TrainerState /\ trainer'[t].n <= bound.catches
        BY <1>0, <1>3, TrainerSteps, AskingFacts, MoreCatches DEF TeamTypes
    <2>3. DOMAIN trainer' = Trainers
        BY <2>1
    <2>. QED BY <1>0, <1>2, <2>1, <2>2, <2>3 DEF TeamTypes
<1>4. ASSUME NEW m \in DOMAIN answers, handle_caught(m) PROVE TeamTypes'
    <2>1. UNCHANGED trainer \/ \E t \in Trainers : Woken(t, m)
        BY <1>4, AnswerFacts
    <2>2. IsABag(answers)' /\ DOMAIN answers' \subseteq Caught /\ UNCHANGED team_socket
        BY <1>0, <1>4, BagRemove DEF handle_caught, TeamFrame, TeamTypes
    <2>3. CASE UNCHANGED trainer
        BY <1>0, <2>2, <2>3 DEF TeamTypes
    <2>4. ASSUME NEW t \in Trainers, Woken(t, m) PROVE TeamTypes'
        <3>1. trainer' = [u \in Trainers |-> trainer'[u]]
            BY <1>0, <1>4 DEF handle_caught, TeamTypes
        <3>2. OthersStay(t) /\ trainer'[t] \in TrainerState /\ trainer'[t].n <= bound.catches
            BY <1>0, <2>4 DEF TeamTypes, Woken
        <3>3. DOMAIN trainer' = Trainers
            BY <3>1
        <3>. QED BY <1>0, <1>2, <2>2, <3>1, <3>2, <3>3 DEF TeamTypes
    <2>. QED BY <2>1, <2>3, <2>4
<1>5. ASSUME NEW p \in publishers, SendToTeam(p) PROVE TeamTypes'
    <2>1. p.m \in Caught
        BY <1>0, <1>5 DEF SendToTeam, BrokerTypes, Publisher, Caught, Queued
    <2>2. PICK x \in Caught : x = p.m
        BY <2>1
    <2>3. IsABag(answers (+) One(x)) /\ DOMAIN (answers (+) One(x)) = DOMAIN answers \cup {x}
        BY <1>0, BagAdd DEF TeamTypes
    <2>4. /\ answers' = IF team_socket THEN answers (+) One(x) ELSE answers
          /\ UNCHANGED <<team_socket, trainer>>
        BY <1>5, <2>2 DEF SendToTeam
    <2>5. IsABag(answers)' /\ DOMAIN answers' \subseteq Caught
        BY <1>0, <2>3, <2>4 DEF TeamTypes
    <2>. QED BY <1>0, <2>4, <2>5 DEF TeamTypes
<1>6. CASE BrokerDies
    BY <1>0, <1>6 DEF BrokerDies, TeamTypes
<1>7. ASSUME NEW p, SendToSubscriptors(p) \/ ListReceivers(p) \/ Enqueue(p)
      PROVE  UNCHANGED teamVars
    BY <1>7 DEF SendToSubscriptors, ListReceivers, Enqueue
<1>8. ASSUME NEW h, OverrideSocket(h) \/ Replay(h) PROVE UNCHANGED teamVars
    BY <1>8 DEF OverrideSocket, Replay
<1>9. ASSUME NEW a, process_message_ack(a) PROVE UNCHANGED teamVars
    BY <1>9 DEF process_message_ack
<1>10. ASSUME Client \/ Handlers PROVE UNCHANGED teamVars
    BY <1>10 DEF Client, subscribe_to, handle_event, send_message_received_to_broker, Disconnected,
           Handlers, AckDirect, Apply, SendAnswer
<1>11. ASSUME GameBoyToBroker \/ (\E id \in bound.ids : GameBoyToGameCard(id)) \/ GameCardDies
              \/ GameCardStarts \/ BrokerStarts
       PROVE  UNCHANGED teamVars
    BY <1>11 DEF GameBoyToBroker, GameBoyToGameCard, GameCardDies, GameCardStarts, BrokerStarts
<1>12. CASE UNCHANGED vars
    BY <1>1, <1>12 DEF vars
<1>13. Broker => TeamTypes'
    BY <1>1, <1>5, <1>7, <1>8, <1>9 DEF Broker, BagToSet
<1>14. TeamThreads => TeamTypes'
    BY <1>3, <1>4 DEF TeamThreads, BagToSet
<1>. QED BY <1>1, <1>3, <1>6, <1>10, <1>11, <1>12, <1>13, <1>14 DEF Next

\* Every step keeps all the types.
LEMMA NextConvTypes ==
    ASSUME ConvTypes, [Next]_vars
    PROVE  ConvTypes'
BY NextBrokerTypes, NextClientTypes, NextGameCardTypes, NextTeamTypes, NextOtherTypes
   DEF ConvTypes

\* The types hold when the processes start.
LEMMA InitConvTypes == Init => ConvTypes
<1>. SUFFICES ASSUME Init PROVE ConvTypes
    OBVIOUS
<1>1. BrokerTypes
    BY EmptyIsBag, EmptySeq DEF Init, BrokerTypes
<1>2. ClientTypes
    BY EmptySeq DEF Init, ClientTypes, NoMessage
<1>3. GameCardTypes
    BY EmptyIsBag, Bounded DEF Init, GameCardTypes
<1>4. TeamTypes
    <2>1. bound.catches \in Nat
        BY Bounded DEF Init
    <2>. QED BY <2>1, EmptyIsBag DEF Init, TeamTypes, TrainerState
<1>5. OtherTypes
    BY Bounded DEF Init, OtherTypes
<1>. QED BY <1>1, <1>2, <1>3, <1>4, <1>5 DEF ConvTypes

-----------------------------------------------------------------------------
(* The ranges of TypeOK.                                                    *)

\* A connection of the GameCard for each time it was started.
SocketsInv ==
    /\ sockets >= 1 /\ connection \in {0, sockets} /\ subscriptor <= sockets
    /\ \A h \in subscribing : h.socket <= sockets
    /\ gamecard_up <=> reader.pc # "off"
    /\ sockets + (IF reader.pc \in {"connect", "off"} THEN 1 ELSE 0) <= 1 + deaths

\* Ids of threads at work were given out, each to one; there is no thread without the broker.
IdsInv ==
    /\ \A p \in publishers : p.m.id \in 1..message_count
    /\ \A p, r \in publishers : p.m.id = r.m.id => p = r
    /\ ~broker_up => publishers = {}

\* Every step keeps SocketsInv.
LEMMA NextSocketsInv ==
    ASSUME ConvTypes, SocketsInv, [Next]_vars
    PROVE  SocketsInv'
<1>0. /\ sockets \in Nat /\ deaths \in Nat /\ connection \in Nat /\ subscriptor \in Nat
      /\ \A h \in subscribing : h \in [pc : {"override", "replay"}, socket : Nat, old_socket : Nat]
    BY DEF ConvTypes, ClientTypes, OtherTypes, BrokerTypes
<1>. USE DEF SocketsInv
<1>1. ASSUME UNCHANGED <<sockets, connection, subscriptor, reader, gamecard_up, deaths>>,
             subscribing' \subseteq subscribing
      PROVE  SocketsInv'
    BY <1>1
<1>2. ASSUME NEW p \in publishers,
             SendToSubscriptors(p) \/ SendToTeam(p) \/ ListReceivers(p) \/ Enqueue(p)
      PROVE  SocketsInv'
    BY <1>1, <1>2 DEF SendToSubscriptors, SendToTeam, ListReceivers, Enqueue, clientVars,
           gamecardVars, deathVars
<1>3. ASSUME NEW h \in subscribing, OverrideSocket(h) PROVE SocketsInv'
    <2>1. PICK old : subscribing' = (subscribing \ {h}) \cup
                        {[h EXCEPT !.pc = "replay", !.old_socket = old]}
        BY <1>3 DEF OverrideSocket
    <2>2. [h EXCEPT !.pc = "replay", !.old_socket = old].socket = h.socket
        BY <1>0
    <2>3. \A g \in subscribing' : g.socket <= sockets
        BY <2>1, <2>2
    <2>. QED BY <1>3, <2>3 DEF OverrideSocket, clientVars, gamecardVars, deathVars
<1>4. ASSUME NEW h \in subscribing, Replay(h) PROVE SocketsInv'
    BY <1>1, <1>4 DEF Replay, gamecardVars, deathVars
<1>5. ASSUME NEW a, process_message_ack(a) PROVE SocketsInv'
    BY <1>1, <1>5 DEF process_message_ack, clientVars, gamecardVars, deathVars
<1>6. CASE subscribe_to
    <2>1. /\ sockets' = sockets + 1 /\ connection' = sockets + 1 /\ reader.pc = "connect"
          /\ subscribing' = subscribing \cup {[pc |-> "override", socket |-> sockets + 1,
                                              old_socket |-> 0]}
          /\ reader' = [reader EXCEPT !.pc = "recv"]
          /\ UNCHANGED <<subscriptor, gamecard_up, deaths>>
        BY <1>6 DEF subscribe_to, gamecardVars, deathVars
    <2>2. reader'.pc = "recv"
        BY <2>1 DEF ConvTypes, ClientTypes
    <2>. QED BY <1>0, <2>1, <2>2
<1>7. CASE handle_event \/ send_message_received_to_broker \/ Disconnected
    <2>1. /\ reader.pc \notin {"connect", "off"} /\ reader'.pc \notin {"connect", "off"}
          /\ UNCHANGED <<sockets, connection, subscriptor, subscribing, gamecard_up, deaths>>
        BY <1>7 DEF handle_event, send_message_received_to_broker, Disconnected, brokerVars,
               gamecardVars, deathVars, ConvTypes, ClientTypes
    <2>. QED BY <2>1
<1>8. CASE Handlers
    BY <1>1, <1>8 DEF Handlers, AckDirect, Apply, SendAnswer, clientVars, brokerVars, gamecardVars,
           deathVars
<1>9. CASE TeamThreads \/ \E t \in Trainers : catch_pokemon(t)
    BY <1>1, <1>9 DEF TeamThreads, receive_message_id, wait_catch, handle_caught, catch_pokemon,
           TeamFrame, clientVars, gamecardVars, deathVars
<1>10. CASE GameBoyToBroker \/ (\E id \in bound.ids : GameBoyToGameCard(id)) \/ BrokerStarts
    BY <1>1, <1>10 DEF GameBoyToBroker, GameBoyToGameCard, BrokerStarts, clientVars, brokerVars,
           gamecardVars, deathVars
<1>11. CASE GameCardDies
    <2>1. /\ connection' = 0 /\ ~gamecard_up' /\ reader'.pc = "off" /\ deaths' = deaths + 1
          /\ UNCHANGED <<sockets, subscriptor, subscribing>> /\ gamecard_up
        BY <1>11 DEF GameCardDies, brokerVars
    <2>. QED BY <1>0, <2>1
<1>12. CASE GameCardStarts
    <2>1. /\ reader'.pc = "connect" /\ gamecard_up' /\ ~gamecard_up
          /\ UNCHANGED <<sockets, connection, subscriptor, subscribing, deaths>>
        BY <1>12 DEF GameCardStarts, brokerVars, deathVars, ConvTypes, ClientTypes
    <2>. QED BY <2>1
<1>13. CASE BrokerDies
    <2>1. /\ connection' = 0 /\ subscriptor' = 0 /\ subscribing' = {}
          /\ UNCHANGED <<sockets, reader, gamecard_up, deaths>>
        BY <1>13 DEF BrokerDies, gamecardVars
    <2>. QED BY <1>0, <2>1
<1>14. CASE UNCHANGED vars
    BY <1>1, <1>14 DEF vars, clientVars, brokerVars, gamecardVars, deathVars
<1>15. Broker => SocketsInv'
    BY <1>2, <1>3, <1>4, <1>5 DEF Broker
<1>16. Client => SocketsInv'
    BY <1>6, <1>7 DEF Client
<1>. QED BY <1>8, <1>9, <1>10, <1>11, <1>12, <1>13, <1>14, <1>15, <1>16 DEF Next

\* What a step does to the broker's threads: none is new, a new one has the next id, one went on
\* with its message, or the broker died or began.
PublishersStep ==
    \/ message_count' = message_count /\ publishers' \subseteq publishers /\ broker_up' = broker_up
    \/ /\ message_count' = message_count /\ broker_up' = broker_up
       /\ \E p \in publishers : \E q : q.m = p.m /\ q.pc # "send" /\ p.m \in Queued
                                       /\ publishers' = (publishers \ {p}) \cup {q}
    \/ broker_up' = FALSE /\ publishers' = {} /\ message_count' = message_count
    \/ ~broker_up /\ broker_up' /\ message_count' = 0 /\ publishers' = publishers

\* broker accepts m.
Accepts(m) ==
    /\ m \in MessageRecord /\ broker_up /\ broker_up' /\ message_count' = message_count + 1
    /\ \/ publishers' = publishers
       \/ /\ publishers' = publishers \cup {NewPublisher(m)} /\ NewPublisher(m) \in Publisher
          /\ NewPublisher(m).m.id = message_count + 1 /\ NewPublisher(m).pc = "send"
          /\ NewPublisher(m).m.request = m.request /\ NewPublisher(m).m.code = m.code
          /\ NewPublisher(m).m.correlative_id = m.correlative_id

\* The steps in which the broker accepts a message, and the others.
LEMMA BrokerSteps ==
    ASSUME ConvTypes, [Next]_vars
    PROVE  \/ PublishersStep
           \/ GameBoyToBroker /\ Accepts(FromGameBoy)
           \/ \E h \in DOMAIN threads : SendAnswer(h) /\ Accepts(FromHandler(h))
           \/ \E t \in Trainers : catch_pokemon(t) /\ Accepts(FromTrainer(t))
<1>0. /\ BrokerTypes /\ ClientTypes /\ GameCardTypes /\ TeamTypes /\ OtherTypes
    BY DEF ConvTypes
<1>1. ASSUME UNCHANGED <<message_count, publishers, broker_up>> PROVE PublishersStep
    BY <1>1 DEF PublishersStep
<1>2. ASSUME NEW m \in MessageRecord, Accept(m), broker_up, UNCHANGED broker_up
      PROVE  Accepts(m)
    BY <1>2, AcceptFacts DEF Accepts
<1>3. ASSUME NEW p \in publishers, SendToSubscriptors(p) PROVE PublishersStep
    <2>1. p.m \in Queued /\ p \in Publisher
        BY <1>0, <1>3, Bounded DEF SendToSubscriptors, BrokerTypes, Publisher, OtherTypes, Caught,
               Queued
    <2>2. PICK q : q = [p EXCEPT !.pc = "list", !.sent = subscriptor]
        OBVIOUS
    <2>3. q.m = p.m /\ q.pc = "list"
        BY <2>1, <2>2 DEF Publisher
    <2>4. publishers' = (publishers \ {p}) \cup {q} /\ UNCHANGED <<broker_up, message_count>>
        BY <1>3, <2>2 DEF SendToSubscriptors
    <2>. QED BY <2>1, <2>3, <2>4 DEF PublishersStep
<1>4. ASSUME NEW p \in publishers, ListReceivers(p) PROVE PublishersStep
    <2>1. p.m \in Queued /\ p \in Publisher
        BY <1>0, <1>4 DEF ListReceivers, BrokerTypes, Publisher, Caught
    <2>2. PICK q : q = [p EXCEPT !.pc = "enqueue", !.receiver = subscriptor]
        OBVIOUS
    <2>3. q.m = p.m /\ q.pc = "enqueue"
        BY <2>1, <2>2 DEF Publisher
    <2>4. publishers' = (publishers \ {p}) \cup {q} /\ UNCHANGED <<broker_up, message_count>>
        BY <1>4, <2>2 DEF ListReceivers
    <2>. QED BY <2>1, <2>3, <2>4 DEF PublishersStep
<1>5. ASSUME NEW p \in publishers, SendToTeam(p) \/ Enqueue(p) PROVE PublishersStep
    BY <1>5 DEF SendToTeam, Enqueue, PublishersStep
<1>6. ASSUME NEW h, OverrideSocket(h) \/ Replay(h) PROVE PublishersStep
    BY <1>1, <1>6 DEF OverrideSocket, Replay
<1>7. ASSUME NEW a, process_message_ack(a) PROVE PublishersStep
    BY <1>1, <1>7 DEF process_message_ack
<1>8. CASE Client
    BY <1>1, <1>8 DEF Client, subscribe_to, handle_event, send_message_received_to_broker,
           Disconnected, brokerVars
<1>9. ASSUME NEW m, AckDirect(m) PROVE PublishersStep
    BY <1>1, <1>9 DEF AckDirect
<1>10. ASSUME NEW h, Apply(h) PROVE PublishersStep
    BY <1>1, <1>10 DEF Apply, brokerVars
<1>11. ASSUME NEW h \in DOMAIN threads, SendAnswer(h)
       PROVE  PublishersStep \/ Accepts(FromHandler(h))
    <2>1. h \in HandlerState
        BY <1>0 DEF GameCardTypes
    <2>2. CASE broker_up
        BY <1>0, <1>2, <1>11, <2>1, <2>2, HandlerSends DEF SendAnswer, FromHandler
    <2>3. CASE ~broker_up
        BY <1>1, <1>11, <2>3 DEF SendAnswer
    <2>. QED BY <2>2, <2>3
<1>12. ASSUME NEW t \in Trainers, catch_pokemon(t)
       PROVE  PublishersStep \/ Accepts(FromTrainer(t))
    <2>1. UNCHANGED broker_up
        BY <1>12 DEF catch_pokemon, TeamFrame
    <2>. QED BY <1>1, <1>2, <1>12, <2>1, AskingFacts, TrainerSends
<1>13. ASSUME GameBoyToBroker PROVE PublishersStep \/ Accepts(FromGameBoy)
    <2>1. CASE broker_up
        BY <1>0, <1>2, <1>13, <2>1, GameBoySends DEF GameBoyToBroker, FromGameBoy
    <2>2. CASE ~broker_up
        BY <1>1, <1>13, <2>2 DEF GameBoyToBroker
    <2>. QED BY <2>1, <2>2
<1>14. CASE TeamThreads
    BY <1>1, <1>14 DEF TeamThreads, receive_message_id, wait_catch, handle_caught, TeamFrame
<1>15. CASE (\E id \in bound.ids : GameBoyToGameCard(id)) \/ GameCardDies \/ GameCardStarts
    BY <1>1, <1>15 DEF GameBoyToGameCard, GameCardDies, GameCardStarts, brokerVars
<1>16. CASE BrokerDies \/ BrokerStarts
    BY <1>16 DEF BrokerDies, BrokerStarts, PublishersStep
<1>17. CASE UNCHANGED vars
    BY <1>1, <1>17 DEF vars, brokerVars
<1>18. Broker => PublishersStep
    BY <1>3, <1>4, <1>5, <1>6, <1>7 DEF Broker
<1>19. CASE Handlers
    BY <1>9, <1>10, <1>11, <1>19 DEF Handlers, BagToSet
<1>. QED BY <1>8, <1>12, <1>13, <1>14, <1>15, <1>16, <1>17, <1>18, <1>19 DEF Next

\* Every step keeps IdsInv.
LEMMA NextIdsInv ==
    ASSUME ConvTypes, IdsInv, [Next]_vars
    PROVE  IdsInv'
<1>0. message_count \in Nat /\ \A p \in publishers : p.m.id \in 1..message_count
    BY DEF ConvTypes, BrokerTypes, IdsInv
<1>. USE DEF IdsInv
<1>1. ASSUME NEW m, Accepts(m) PROVE IdsInv'
    <2>1. PICK q : q = NewPublisher(m)
        OBVIOUS
    <2>2. /\ message_count' = message_count + 1 /\ broker_up'
          /\ \/ publishers' = publishers
             \/ publishers' = publishers \cup {q} /\ q.m.id = message_count + 1
        BY <1>1, <2>1 DEF Accepts
    <2>. QED BY <1>0, <2>2
<1>2. CASE PublishersStep
    <2>1. CASE /\ message_count' = message_count /\ publishers' \subseteq publishers
               /\ broker_up' = broker_up
        BY <1>0, <2>1
    <2>2. CASE /\ message_count' = message_count /\ broker_up' = broker_up
               /\ \E p \in publishers : \E q : q.m = p.m /\ q.pc # "send" /\ p.m \in Queued
                                       /\ publishers' = (publishers \ {p}) \cup {q}
        BY <1>0, <2>2
    <2>3. CASE broker_up' = FALSE /\ publishers' = {} /\ message_count' = message_count
        BY <2>3
    <2>4. CASE ~broker_up /\ broker_up' /\ message_count' = 0 /\ publishers' = publishers
        BY <2>4
    <2>. QED BY <1>2, <2>1, <2>2, <2>3, <2>4 DEF PublishersStep
<1>. QED BY <1>1, <1>2, BrokerSteps

\* What keeps TypeOK.
TypesInv == ConvTypes /\ SocketsInv /\ IdsInv

\* It holds at first.
LEMMA InitTypesInv == Init => TypesInv
BY InitConvTypes DEF Init, TypesInv, SocketsInv, IdsInv

\* Every step keeps it.
LEMMA NextTypesInv == TypesInv /\ [Next]_vars => TypesInv'
BY NextConvTypes, NextSocketsInv, NextIdsInv DEF TypesInv

\* It is all that TypeOK asks for.
LEMMA TypesInvTypes == TypesInv => TypeOK
<1>. SUFFICES ASSUME TypesInv PROVE TypeOK
    OBVIOUS
<1>1. message_count \in Nat /\ subscriptor \in Nat /\ IsABag(acks) /\ sockets \in Nat
      /\ reader.pc \in {"connect", "recv", "ack", "ended", "off"} /\ IsABag(threads)
      /\ pokemons \in Nat /\ read \subseteq Requests /\ applied \in [Requests -> Nat]
      /\ IsABag(answers) /\ deaths \in Nat /\ broker_deaths \in Nat
    BY DEF TypesInv, ConvTypes, BrokerTypes, ClientTypes, GameCardTypes, TeamTypes, OtherTypes
<1>2. sockets \in 1..(1 + deaths + broker_deaths) /\ subscriptor \in 0..sockets
      /\ connection \in {0, sockets}
    BY <1>1 DEF TypesInv, SocketsInv
<1>3. \A p, r \in publishers : p.m.id = r.m.id => p = r
    BY DEF TypesInv, IdsInv
<1>4. ASSUME NEW t \in Trainers
      PROVE  trainer[t].sem_caught \in 0..1 /\ trainer[t].n \in 0..bound.catches
    <2>1. trainer[t] \in TrainerState /\ trainer[t].n <= bound.catches /\ bound.catches \in Nat
        BY Bounded DEF TypesInv, ConvTypes, TeamTypes, OtherTypes
    <2>. QED BY <2>1 DEF TrainerState
<1>. QED BY <1>1, <1>2, <1>3, <1>4 DEF TypeOK

\* Every variable keeps the range the code's types and this model's bounds give it: the GameCard
\* opens a subscription for each start, and two threads of the broker never have the same id.
THEOREM ConversationTyped == Spec => []TypeOK
<1>. QED BY InitTypesInv, NextTypesInv, TypesInvTypes, PTL DEF Spec

-----------------------------------------------------------------------------
(* The answer that wakes a trainer is for what it asked last.  While the     *)
(* broker was never started again an id stands for one request, and an       *)
(* answer to a request done once is in one place at a time.                  *)

\* The broker's death is a doubt about everything; what wakes a trainer is remembered.
DeathsInv ==
    /\ broker_deaths = 0 => broker_up
    /\ broker_deaths > 0 => \A r \in Requests : "broker died" \in doubts[r]
    /\ \A t \in Trainers : trainer[t].sem_caught = 1 => trainer[t].answer \in trainer[t].heard

\* What the broker gave this id to, unless the GameBoy named it.
RequestOf(f, id, m) ==
    "named" \notin doubts[m.request] => id \in 1..message_count /\ f[id] = m.request

\* The messages for the GameCard, and the answers for the Team, that somebody may still look at.
Requesting ==
    {p.m : p \in {q \in publishers : q.m.code # "CAUGHT_POKEMON"}}
        \cup {messages[i].m : i \in DOMAIN messages} \cup {inbox[i] : i \in DOMAIN inbox}
        \cup {h.m : h \in DOMAIN threads}
Replying == {p.m : p \in {q \in publishers : q.m.code = "CAUGHT_POKEMON"}} \cup DOMAIN answers

\* The ids a trainer was told, or will be.
Held(t) == trainer[t].returned \cup ({trainer[t].id_message} \ {0})

\* f says for each id what it was given to.
Means(f) ==
    /\ \A m \in Requesting : RequestOf(f, m.id, m)
    /\ \A m \in Replying : RequestOf(f, m.correlative_id, m)
    /\ \A t \in Trainers : \A id \in Held(t) :
            id \in 1..message_count /\ \E k \in 1..trainer[t].n : f[id] = <<t, k>>

\* The answers to a request: in a handler, in the broker, in the Team.
InHandler(r) == {h \in DOMAIN threads : h.pc = "answer" /\ h.m.request = r}
InBroker(r) == {p \in publishers : p.m.code = "CAUGHT_POKEMON" /\ p.m.request = r}
InTeam(r) == {m \in DOMAIN answers : m.request = r}

\* The trainer has had the answer.
Taken(t, k) ==
    \/ k < trainer[t].n
    \/ /\ k = trainer[t].n
       /\ trainer[t].pc = "free" \/ (trainer[t].sem_caught = 1 /\ trainer[t].answer = <<t, k>>)

\* There is one answer to a request done once, and none to one not yet done.
OneAnswer(t, k) ==
    LET r == <<t, k>> IN
    /\ \A h, g \in InHandler(r) : h = g /\ threads[h] = 1
    /\ \A p, q \in InBroker(r) : p = q
    /\ \A m, o \in InTeam(r) : m = o /\ answers[m] = 1
    /\ InHandler(r) # {} => InBroker(r) = {} /\ InTeam(r) = {} /\ ~Taken(t, k)
    /\ InBroker(r) # {} => InTeam(r) = {} /\ ~Taken(t, k)
    /\ InTeam(r) # {} => ~Taken(t, k)
    /\ applied[r] = 0 =>
            InHandler(r) = {} /\ InBroker(r) = {} /\ InTeam(r) = {} /\ ~Taken(t, k)

\* Nothing the trainer was given was for a request the GameBoy named, and nothing was done twice.
Clear(t) ==
    /\ \A r \in trainer[t].heard : "named" \notin doubts[r]
    /\ \A n \in 1..trainer[t].n : applied[<<t, n>>] <= 1

TrainerInv(t) ==
    /\ trainer[t].sem_caught = 1 => trainer[t].pc = "wait" /\ trainer[t].answer = <<t, trainer[t].n>>
    /\ \A k \in 1..MostRequests : applied[<<t, k>>] <= 1 => OneAnswer(t, k)

AnswersInv ==
    broker_deaths = 0 =>
        /\ \E f \in [1..message_count -> Requests] : Means(f)
        /\ \A t \in Trainers : Clear(t) => TrainerInv(t)

\* What is somewhere is being looked at.
Places(R, P) ==
    /\ \A p \in publishers : IF p.m.code = "CAUGHT_POKEMON" THEN p.m \in P ELSE p.m \in R
    /\ \A i \in DOMAIN messages : messages[i].m \in R
    /\ \A i \in DOMAIN inbox : inbox[i] \in R
    /\ \A h \in DOMAIN threads : h.m \in R
    /\ \A m \in DOMAIN answers : m \in P

\* This is what is being looked at now.
LEMMA PlacesNow == Places(Requesting, Replying)
BY DEF Places, Requesting, Replying

\* Nothing else is after a step that leaves everything in R and P.
LEMMA PlacesNext ==
    ASSUME NEW R, NEW P, Places(R, P)'
    PROVE  Requesting' \subseteq R /\ Replying' \subseteq P
BY DEF Places, Requesting, Replying

\* No message is new, and a trainer has no new id.
Quiet ==
    /\ message_count' = message_count
    /\ Requesting' \subseteq Requesting /\ Replying' \subseteq Replying
    /\ \A t \in Trainers : Held(t)' \subseteq Held(t) /\ trainer'[t].n = trainer[t].n

\* The broker does nothing new for the messages.
LEMMA BrokerQuiet ==
    ASSUME ConvTypes, Broker
    PROVE  Quiet
<1>0. /\ BrokerTypes /\ ClientTypes /\ GameCardTypes /\ TeamTypes /\ OtherTypes
    BY DEF ConvTypes
<1>1. Places(Requesting, Replying)
    BY PlacesNow
<1>. DEFINE R == Requesting
            P == Replying
<1>2. ASSUME UNCHANGED <<message_count, trainer>>,
             \E S, T : S = Requesting /\ T = Replying /\ Places(S, T)'
      PROVE  Quiet
    <2>1. PICK S, T : S = Requesting /\ T = Replying /\ Places(S, T)'
        BY <1>2
    <2>2. Requesting' \subseteq Requesting /\ Replying' \subseteq Replying
        BY <2>1, PlacesNext
    <2>. QED BY <1>2, <2>2 DEF Quiet, Held
<1>3. PICK S, T : S = Requesting /\ T = Replying
    OBVIOUS
<1>4. Places(S, T)
    BY <1>1, <1>3
<1>. SUFFICES UNCHANGED <<message_count, trainer>> /\ Places(S, T)'
    BY <1>2, <1>3
<1>5. ASSUME NEW p \in publishers, SendToSubscriptors(p)
      PROVE  UNCHANGED <<message_count, trainer>> /\ Places(S, T)'
    <2>1. p.m \in Queued /\ p \in Publisher /\ inbox \in Seq(Queued) /\ p.m.code # "CAUGHT_POKEMON"
        BY <1>0, <1>5, Bounded DEF SendToSubscriptors, BrokerTypes, ClientTypes, Publisher,
               OtherTypes, Caught, Queued
    <2>2. PICK q : q = [p EXCEPT !.pc = "list", !.sent = subscriptor]
        OBVIOUS
    <2>3. q.m = p.m
        BY <2>1, <2>2 DEF Publisher
    <2>4. /\ publishers' = (publishers \ {p}) \cup {q}
          /\ UNCHANGED <<message_count, messages, threads, answers, trainer>>
          /\ inbox' \in {inbox, Append(inbox, p.m)}
        BY <1>5, <2>2 DEF SendToSubscriptors, gamecardVars, teamVars
    <2>5. p.m \in S
        BY <1>4, <2>1 DEF Places
    <2>6. \A i \in DOMAIN inbox' : inbox'[i] \in S
        BY <1>4, <2>1, <2>4, <2>5, AppendProperties DEF Places
    <2>. QED BY <1>4, <2>3, <2>4, <2>5, <2>6 DEF Places
<1>6. ASSUME NEW p \in publishers, SendToTeam(p)
      PROVE  UNCHANGED <<message_count, trainer>> /\ Places(S, T)'
    <2>1. p.m \in T /\ p.m.code = "CAUGHT_POKEMON" /\ IsABag(answers)
        BY <1>0, <1>4, <1>6 DEF Places, SendToTeam, TeamTypes
    <2>2. PICK x : x = p.m
        OBVIOUS
    <2>3. DOMAIN (answers (+) One(x)) = DOMAIN answers \cup {x}
        BY <2>1, BagAdd
    <2>4. /\ publishers' = publishers \ {p} /\ answers' \in {answers, answers (+) One(x)}
          /\ UNCHANGED <<message_count, messages, inbox, threads, trainer>>
        BY <1>6, <2>2 DEF SendToTeam, clientVars, gamecardVars
    <2>5. \A m \in DOMAIN answers' : m \in T
        BY <1>4, <2>1, <2>2, <2>3, <2>4 DEF Places
    <2>. QED BY <1>4, <2>4, <2>5 DEF Places
<1>7. ASSUME NEW p \in publishers, ListReceivers(p)
      PROVE  UNCHANGED <<message_count, trainer>> /\ Places(S, T)'
    <2>1. p \in Publisher
        BY <1>0 DEF BrokerTypes
    <2>2. PICK q : q = [p EXCEPT !.pc = "enqueue", !.receiver = subscriptor]
        OBVIOUS
    <2>3. q.m = p.m
        BY <2>1, <2>2 DEF Publisher
    <2>4. /\ publishers' = (publishers \ {p}) \cup {q}
          /\ UNCHANGED <<message_count, messages, inbox, threads, answers, trainer>>
        BY <1>7, <2>2 DEF ListReceivers, clientVars, gamecardVars, teamVars
    <2>. QED BY <1>4, <2>3, <2>4 DEF Places
<1>8. ASSUME NEW p \in publishers, Enqueue(p)
      PROVE  UNCHANGED <<message_count, trainer>> /\ Places(S, T)'
    <2>1. p \in Publisher /\ messages \in Seq(Entry) /\ p.m.code # "CAUGHT_POKEMON"
        BY <1>0, <1>8 DEF BrokerTypes, Enqueue
    <2>2. PICK e : e = [m |-> p.m, receiver |-> p.receiver, received |-> FALSE]
        OBVIOUS
    <2>3. /\ publishers' = publishers \ {p} /\ messages' = Append(messages, e)
          /\ UNCHANGED <<message_count, inbox, threads, answers, trainer>>
        BY <1>8, <2>2 DEF Enqueue, clientVars, gamecardVars, teamVars
    <2>4. p.m \in S /\ e.m = p.m
        BY <1>4, <2>1, <2>2 DEF Places
    <2>5. \A i \in DOMAIN messages' : \/ i \in DOMAIN messages /\ messages'[i] = messages[i]
                                     \/ messages'[i] = e
        BY <2>1, <2>3
    <2>6. \A i \in DOMAIN messages' : messages'[i].m \in S
        BY <1>4, <2>4, <2>5 DEF Places
    <2>. QED BY <1>4, <2>3, <2>6 DEF Places
<1>9. ASSUME NEW h \in subscribing, OverrideSocket(h)
      PROVE  UNCHANGED <<message_count, trainer>> /\ Places(S, T)'
    BY <1>4, <1>9 DEF OverrideSocket, Places, clientVars, gamecardVars, teamVars
<1>10. ASSUME NEW h \in subscribing, Replay(h)
       PROVE  UNCHANGED <<message_count, trainer>> /\ Places(S, T)'
    <2>1. UNCHANGED <<message_count, publishers, threads, answers, trainer>>
        BY <1>10 DEF Replay, gamecardVars, teamVars
    <2>2. PICK places : /\ inbox' = IF connection = h.socket THEN Sent(places) ELSE inbox
                        /\ messages' = [i \in DOMAIN messages |->
                               IF i \in places /\ messages[i].receiver = h.old_socket
                               THEN [messages[i] EXCEPT !.receiver = h.socket] ELSE messages[i]]
        BY <1>10 DEF Replay
    <2>3. messages \in Seq(Entry) /\ inbox \in Seq(Queued)
        BY <1>0 DEF BrokerTypes, ClientTypes
    <2>4. /\ Len(messages) \in Nat /\ DOMAIN messages = 1..Len(messages)
          /\ \A i \in DOMAIN messages : messages[i] \in Entry
        BY <2>3, LenProperties, ElementOfSeq
    <2>5. \A i \in DOMAIN messages' : i \in DOMAIN messages /\ messages'[i].m = messages[i].m
        BY <2>2, <2>4 DEF Entry
    <2>6. \A i \in DOMAIN messages' : messages'[i].m \in S
        BY <1>4, <2>5 DEF Places
    <2>7. inbox \in Seq(S)
        BY <1>4, <2>3 DEF Places
    <2>8. Sent(places) \in Seq(S)
        BY <1>4, <2>4, <2>7, SentIsSeq DEF Places
    <2>9. \A i \in DOMAIN inbox' : inbox'[i] \in S
        BY <2>2, <2>7, <2>8, ElementOfSeq
    <2>. QED BY <1>4, <2>1, <2>6, <2>9 DEF Places
<1>11. ASSUME NEW a, process_message_ack(a)
       PROVE  UNCHANGED <<message_count, trainer>> /\ Places(S, T)'
    <2>1. UNCHANGED <<message_count, publishers, inbox, threads, answers, trainer>>
        BY <1>11 DEF process_message_ack, clientVars, gamecardVars, teamVars
    <2>2. messages' = [i \in DOMAIN messages |->
                            IF messages[i].m.id = a.id /\ messages[i].receiver = subscriptor
                            THEN [messages[i] EXCEPT !.received = TRUE] ELSE messages[i]]
        BY <1>11 DEF process_message_ack
    <2>3. \A i \in DOMAIN messages : messages[i] \in Entry
        BY <1>0, ElementOfSeq DEF BrokerTypes
    <2>5. \A i \in DOMAIN messages' : i \in DOMAIN messages /\ messages'[i].m = messages[i].m
        BY <2>2, <2>3 DEF Entry
    <2>. QED BY <1>4, <2>1, <2>5 DEF Places
<1>. QED BY <1>5, <1>6, <1>7, <1>8, <1>9, <1>10, <1>11 DEF Broker

\* A message is new, with what a trainer that sent it is told.
Sending(S, T, id) ==
    /\ Requesting' \subseteq Requesting \cup S /\ Replying' \subseteq Replying \cup T
    /\ message_count' = id

\* No trainer has a new id.
TrainersStay == \A t \in Trainers : Held(t)' \subseteq Held(t) /\ trainer'[t].n = trainer[t].n

\* The ways a message comes to be.
Circulation ==
    \/ Sending({}, {}, message_count) /\ TrainersStay
    \/ /\ TrainersStay
       /\ \E m : /\ Sending({m}, {}, message_count) /\ m.request \in Requests
                 /\ "named" \in doubts'[m.request]
    \/ /\ TrainersStay
       /\ \E m : /\ Sending({m}, {}, message_count + 1) /\ m.request \in Requests
                 /\ m.id = message_count + 1
    \/ /\ TrainersStay
       /\ \E m : \E h \in DOMAIN threads :
            /\ Sending({}, {m}, message_count + 1)
            /\ m.correlative_id = h.m.id /\ m.request = h.m.request
    \/ \E t \in Trainers : \E m :
            /\ Sending({m}, {}, message_count + 1) /\ m.id = message_count + 1
            /\ m.request = <<t, trainer'[t].n>> /\ m.request \in Requests
            /\ trainer'[t].n = trainer[t].n + 1
            /\ Held(t)' \subseteq Held(t) \cup {message_count + 1}
            /\ \A u \in Trainers \ {t} : Held(u)' \subseteq Held(u) /\ trainer'[u].n = trainer[u].n

\* What the steps that send messages put where.
LEMMA PlacesAfter ==
    ASSUME NEW S, NEW T, NEW id, message_count' = id,
           \A p \in publishers' : p \in publishers \/ IF p.m.code = "CAUGHT_POKEMON" THEN p.m \in T
                                                      ELSE p.m \in S,
           \A i \in DOMAIN messages' : i \in DOMAIN messages /\ messages'[i] = messages[i],
           \A i \in DOMAIN inbox' : inbox'[i] \in Requesting,
           \A h \in DOMAIN threads' : h.m \in Requesting \cup S,
           DOMAIN answers' \subseteq DOMAIN answers
    PROVE  Sending(S, T, id)
<1>1. PICK R, P : R = Requesting /\ P = Replying
    OBVIOUS
<1>2. Places(R, P)
    BY <1>1, PlacesNow
<1>3. Places(R \cup S, P \cup T)'
    BY <1>1, <1>2 DEF Places
<1>4. Requesting' \subseteq R \cup S /\ Replying' \subseteq P \cup T
    BY <1>3, PlacesNext
<1>. QED BY <1>1, <1>4 DEF Sending

\* Unless the broker ends, every step is one of them.
LEMMA MessagesCirculate ==
    ASSUME ConvTypes, [Next]_vars, broker_up, broker_up'
    PROVE  Circulation
<1>0. /\ BrokerTypes /\ ClientTypes /\ GameCardTypes /\ TeamTypes /\ OtherTypes
    BY DEF ConvTypes
<1>1. ASSUME Sending({}, {}, message_count), TrainersStay PROVE Circulation
    BY <1>1 DEF Circulation
<1>2. /\ \A i \in DOMAIN inbox : inbox[i] \in Requesting
      /\ \A h \in DOMAIN threads : h.m \in Requesting
    BY DEF Requesting
<1>3. ASSUME UNCHANGED trainer PROVE TrainersStay
    BY <1>3 DEF TrainersStay, Held
<1>4. ASSUME UNCHANGED <<message_count, publishers, messages>>,
             \A i \in DOMAIN inbox' : inbox'[i] \in Requesting,
             \A h \in DOMAIN threads' : h.m \in Requesting,
             DOMAIN answers' \subseteq DOMAIN answers
      PROVE  Sending({}, {}, message_count)
    BY <1>4, PlacesAfter, Zenon
<1>5. Broker => Circulation
    <2>. SUFFICES ASSUME Broker PROVE Circulation
        OBVIOUS
    <2>1. Quiet
        BY BrokerQuiet
    <2>. QED BY <1>1, <2>1 DEF Quiet, Sending, TrainersStay
<1>6. CASE subscribe_to \/ send_message_received_to_broker \/ Disconnected \/ GameCardStarts
    <2>1. UNCHANGED <<message_count, publishers, messages, inbox, threads, answers, trainer>>
        BY <1>6 DEF subscribe_to, send_message_received_to_broker, Disconnected, GameCardStarts,
               brokerVars, gamecardVars, teamVars
    <2>. QED BY <1>1, <1>2, <1>3, <1>4, <2>1
<1>7. CASE handle_event
    <2>1. PICK m : m = Head(inbox)
        OBVIOUS
    <2>2. inbox \in Seq(Queued) /\ inbox # <<>> /\ IsABag(threads)
        BY <1>0, <1>7 DEF handle_event, ClientTypes, GameCardTypes
    <2>3. m = inbox[1] /\ 1 \in DOMAIN inbox /\ \A i \in DOMAIN inbox' : inbox'[i] \in Requesting
        <3>1. inbox' = Tail(inbox) /\ 1 \in DOMAIN inbox /\ Len(inbox) \in Nat
            BY <1>7, <2>2 DEF handle_event
        <3>2. \A i \in DOMAIN inbox' : i + 1 \in DOMAIN inbox /\ inbox'[i] = inbox[i + 1]
            BY <2>2, <3>1, HeadTailProperties
        <3>. QED BY <1>2, <2>1, <2>2, <3>1, <3>2
    <2>4. PICK x : x = Reading(m) /\ x.m = m
        <3>1. Reading(m).m = m
            BY DEF Reading
        <3>. QED BY <3>1
    <2>5. DOMAIN (threads (+) One(x)) = DOMAIN threads \cup {x}
        BY <2>2, BagAdd
    <2>6. threads' = threads (+) One(x)
        BY <1>7, <2>1, <2>4 DEF handle_event, Thread, Reading
    <2>7. \A h \in DOMAIN threads' : h.m \in Requesting
        BY <1>2, <2>3, <2>4, <2>5, <2>6
    <2>8. UNCHANGED <<message_count, publishers, messages, answers, trainer>>
        BY <1>7 DEF handle_event, brokerVars, teamVars
    <2>. QED BY <1>1, <1>3, <1>4, <2>3, <2>7, <2>8
<1>8. ASSUME NEW m, AckDirect(m) PROVE Circulation
    <2>1. UNCHANGED <<message_count, publishers, messages, inbox, threads, answers, trainer>>
        BY <1>8 DEF AckDirect, clientVars, teamVars
    <2>. QED BY <1>1, <1>2, <1>3, <1>4, <2>1
<1>9. ASSUME NEW h \in DOMAIN threads, Apply(h) PROVE Circulation
    <2>1. /\ Applied(h).m = h.m /\ IsABag(threads)
          /\ threads' \in {threads (-) One(h), (threads (-) One(h)) (+) One(Applied(h))}
        BY <1>0, <1>9, ApplyFacts DEF GameCardTypes
    <2>2. PICK B, x : B = threads (-) One(h) /\ x = Applied(h)
        OBVIOUS
    <2>3. IsABag(B) /\ DOMAIN B \subseteq DOMAIN threads
        BY <2>1, <2>2, BagRemove
    <2>4. DOMAIN (B (+) One(x)) = DOMAIN B \cup {x}
        BY <2>3, BagAdd
    <2>5. \A g \in DOMAIN threads' : g.m \in Requesting
        BY <1>2, <2>1, <2>2, <2>3, <2>4
    <2>6. UNCHANGED <<message_count, publishers, messages, inbox, answers, trainer>>
        BY <1>9 DEF Apply, brokerVars, clientVars, teamVars
    <2>. QED BY <1>1, <1>2, <1>3, <1>4, <2>5, <2>6
<1>10. ASSUME NEW h \in DOMAIN threads, SendAnswer(h) PROVE Circulation
    <2>1. h \in HandlerState /\ IsABag(threads)
        BY <1>0 DEF GameCardTypes
    <2>2. /\ UNCHANGED <<messages, inbox, answers, trainer>> /\ Accept(FromHandler(h))
          /\ threads' = threads (-) One(h)
        BY <1>10 DEF SendAnswer, FromHandler, clientVars, teamVars
    <2>3. DOMAIN threads' \subseteq DOMAIN threads
        BY <2>1, <2>2, BagRemove
    <2>4. /\ FromHandler(h) \in MessageRecord /\ FromHandler(h).request = h.m.request
          /\ FromHandler(h).code # bound.code
          /\ FromHandler(h).code = "CAUGHT_POKEMON" => FromHandler(h).correlative_id = h.m.id
        BY <1>0, <2>1, HandlerSends
    <2>5. PICK m, c : m = FromHandler(h) /\ c = NewPublisher(m)
        OBVIOUS
    <2>6. /\ message_count' = message_count + 1
          /\ publishers' = IF m.code \in {bound.code, "CAUGHT_POKEMON"}
                           THEN publishers \cup {c} ELSE publishers
          /\ c.m.request = m.request /\ c.m.code = m.code
          /\ c.m.correlative_id = m.correlative_id
        BY <2>2, <2>4, <2>5, AcceptFacts
    <2>7. CASE m.code = "CAUGHT_POKEMON"
        <3>1. Sending({}, {c.m}, message_count + 1)
            BY <1>2, <2>2, <2>3, <2>6, <2>7, PlacesAfter
        <3>2. c.m.correlative_id = h.m.id /\ c.m.request = h.m.request
            BY <2>4, <2>5, <2>6, <2>7
        <3>. QED BY <1>3, <2>2, <3>1, <3>2 DEF Circulation
    <2>8. CASE m.code # "CAUGHT_POKEMON"
        <3>1. publishers' = publishers
            BY <2>4, <2>5, <2>6, <2>8
        <3>2. PICK a : a = [NoMessage EXCEPT !.correlative_id = h.m.id, !.request = h.m.request]
            OBVIOUS
        <3>3. a.correlative_id = h.m.id /\ a.request = h.m.request
            BY <3>2 DEF NoMessage
        <3>4. Sending({}, {a}, message_count + 1)
            BY <1>2, <2>2, <2>3, <2>6, <3>1, PlacesAfter
        <3>. QED BY <1>3, <2>2, <3>3, <3>4 DEF Circulation
    <2>. QED BY <2>7, <2>8
<1>11. CASE GameBoyToBroker
    <2>1. /\ UNCHANGED <<messages, inbox, threads, answers, trainer>> /\ Accept(FromGameBoy)
          /\ told < bound.commands
        BY <1>11 DEF GameBoyToBroker, FromGameBoy, clientVars, gamecardVars, teamVars
    <2>2. /\ FromGameBoy \in MessageRecord /\ FromGameBoy.request \in Requests
          /\ FromGameBoy.code # "CAUGHT_POKEMON" /\ FromGameBoy.code = bound.code
        BY <1>0, <2>1, GameBoySends
    <2>3. PICK m, c : m = FromGameBoy /\ c = NewPublisher(m)
        OBVIOUS
    <2>4. /\ message_count' = message_count + 1 /\ publishers' = publishers \cup {c}
          /\ c.m.request = m.request /\ c.m.code = m.code /\ c.m.id = message_count + 1
        BY <2>1, <2>2, <2>3, AcceptFacts
    <2>5. Sending({c.m}, {}, message_count + 1)
        BY <1>2, <2>1, <2>2, <2>3, <2>4, PlacesAfter
    <2>. QED BY <1>3, <2>1, <2>2, <2>3, <2>4, <2>5 DEF Circulation
<1>12. ASSUME NEW id \in bound.ids, GameBoyToGameCard(id) PROVE Circulation
    <2>1. told < bound.commands /\ IsABag(threads) /\ doubts \in [Requests -> SUBSET Reasons]
        BY <1>0, <1>12 DEF GameBoyToGameCard, GameCardTypes, OtherTypes
    <2>2. PICK m : m = [FromGameBoy EXCEPT !.id = id]
        OBVIOUS
    <2>3. m.request = <<0, told + 1>> /\ m.request \in Requests
        BY <1>0, <2>1, <2>2, GameBoySends DEF MessageRecord
    <2>4. PICK x : x = Reading(m) /\ x.m = m
        <3>1. Reading(m).m = m
            BY DEF Reading
        <3>. QED BY <3>1
    <2>5. DOMAIN (threads (+) One(x)) = DOMAIN threads \cup {x}
        BY <2>1, BagAdd
    <2>6. /\ threads' = threads (+) One(x) /\ doubts' = Doubt({m.request}, "named")
          /\ UNCHANGED <<message_count, publishers, messages, inbox, answers, trainer>>
        BY <1>12, <2>2, <2>4 DEF GameBoyToGameCard, FromGameBoy, Thread, Reading, brokerVars,
               clientVars, teamVars
    <2>7. "named" \in doubts'[m.request]
        BY <2>1, <2>3, <2>6 DEF Doubt
    <2>8. Sending({m}, {}, message_count)
        BY <1>2, <2>4, <2>5, <2>6, PlacesAfter
    <2>. QED BY <1>3, <2>3, <2>6, <2>7, <2>8 DEF Circulation
<1>13. ASSUME NEW t \in Trainers, catch_pokemon(t) PROVE Circulation
    <2>1. /\ UNCHANGED <<messages, inbox, threads, answers>> /\ Accept(FromTrainer(t))
        BY <1>13, AskingFacts DEF catch_pokemon, TeamFrame, clientVars, gamecardVars
    <2>2. /\ trainer'[t].n = trainer[t].n + 1 /\ OthersStay(t)
          /\ trainer'[t].returned = trainer[t].returned \cup {message_count + 1}
          /\ trainer'[t].id_message = trainer[t].id_message
          /\ Cardinality(Catches) < bound.catches
        BY <1>13, AskingFacts
    <2>3. /\ FromTrainer(t) \in MessageRecord /\ FromTrainer(t).request = <<t, trainer[t].n + 1>>
          /\ FromTrainer(t).code = bound.code /\ <<t, trainer[t].n + 1>> \in Requests
          /\ bound.code # "CAUGHT_POKEMON"
        BY <1>0, <2>2, TrainerSends, MoreCatches
    <2>4. PICK m, c : m = FromTrainer(t) /\ c = NewPublisher(m)
        OBVIOUS
    <2>5. /\ message_count' = message_count + 1 /\ publishers' = publishers \cup {c}
          /\ c.m.request = m.request /\ c.m.code = m.code /\ c.m.id = message_count + 1
        BY <2>1, <2>3, <2>4, AcceptFacts
    <2>6. Sending({c.m}, {}, message_count + 1)
        BY <1>2, <2>1, <2>3, <2>4, <2>5, PlacesAfter
    <2>7. Held(t)' \subseteq Held(t) \cup {message_count + 1}
        BY <2>2 DEF Held
    <2>8. \A u \in Trainers \ {t} : Held(u)' \subseteq Held(u) /\ trainer'[u].n = trainer[u].n
        BY <2>2 DEF Held, OthersStay
    <2>9. c.m.request = <<t, trainer'[t].n>> /\ c.m.request \in Requests
        BY <2>2, <2>3, <2>4, <2>5
    <2>. QED BY <2>2, <2>5, <2>6, <2>7, <2>8, <2>9 DEF Circulation
<1>14. ASSUME NEW t \in Trainers, receive_message_id(t) \/ wait_catch(t) PROVE Circulation
    <2>1. UNCHANGED <<message_count, publishers, messages, inbox, threads, answers>>
        BY <1>14 DEF receive_message_id, wait_catch, TeamFrame, clientVars, gamecardVars
    <2>2. /\ trainer'[t].n = trainer[t].n /\ OthersStay(t)
          /\ Held(t)' \subseteq Held(t)
        BY <1>14, TrainerSteps DEF Held
    <2>3. TrainersStay
        BY <2>2 DEF TrainersStay, Held, OthersStay
    <2>. QED BY <1>1, <1>2, <1>4, <2>1, <2>3
<1>15. ASSUME NEW m \in DOMAIN answers, handle_caught(m) PROVE Circulation
    <2>1. UNCHANGED <<message_count, publishers, messages, inbox, threads>>
        BY <1>15 DEF handle_caught, TeamFrame, clientVars, gamecardVars
    <2>2. answers' = answers (-) One(m) /\ (UNCHANGED trainer \/ \E t \in Trainers : Woken(t, m))
        BY <1>15, AnswerFacts
    <2>3. DOMAIN answers' \subseteq DOMAIN answers
        BY <1>0, <2>2, BagRemove DEF TeamTypes
    <2>4. ASSUME NEW t \in Trainers, Woken(t, m) PROVE TrainersStay
        BY <2>4 DEF TrainersStay, Held, OthersStay, Woken
    <2>. QED BY <1>1, <1>2, <1>3, <1>4, <2>1, <2>2, <2>3, <2>4
<1>16. CASE GameCardDies
    <2>1. /\ UNCHANGED <<message_count, publishers, messages, answers, trainer>>
          /\ inbox' = <<>> /\ threads' = EmptyBag
        BY <1>16 DEF GameCardDies, brokerVars, teamVars
    <2>2. DOMAIN inbox' = {} /\ DOMAIN threads' = {}
        BY <2>1, EmptyIsBag, EmptySeq
    <2>. QED BY <1>1, <1>3, <1>4, <2>1, <2>2
<1>17. CASE UNCHANGED vars
    BY <1>1, <1>2, <1>3, <1>4, <1>17 DEF vars, brokerVars, clientVars, gamecardVars, teamVars
<1>18. ~BrokerDies /\ ~BrokerStarts
    BY DEF BrokerDies, BrokerStarts
<1>19. Client => Circulation
    BY <1>6, <1>7 DEF Client
<1>20. Handlers => Circulation
    BY <1>8, <1>9, <1>10 DEF Handlers, BagToSet
<1>21. TeamThreads => Circulation
    BY <1>14, <1>15 DEF TeamThreads, BagToSet
<1>. QED BY <1>5, <1>6, <1>11, <1>12, <1>13, <1>16, <1>17, <1>18, <1>19, <1>20, <1>21 DEF Next

\* While the broker lives, every step keeps what an id means, and gives one more a meaning.
LEMMA NextMeans ==
    ASSUME ConvTypes, DoubtsGrow, [Next]_vars, broker_up, broker_up',
           NEW f \in [1..message_count -> Requests], Means(f)
    PROVE  \E g \in [1..message_count' -> Requests] : Means(g)'
<1>0. /\ message_count \in Nat /\ trainer \in [Trainers -> TrainerState]
      /\ \A t \in Trainers : trainer[t].n \in Nat
    BY DEF ConvTypes, BrokerTypes, TeamTypes, TrainerState
<1>1. Circulation
    BY MessagesCirculate
<1>2. \A m \in Requesting : m.request \in Requests
    <2>1. \A p \in publishers : p.m.request \in Requests
        BY DEF ConvTypes, BrokerTypes, Publisher, Queued, Caught, MessageRecord
    <2>2. \A i \in DOMAIN messages : messages[i].m.request \in Requests
        <3>1. \A i \in DOMAIN messages : messages[i].m \in Queued
            BY QueueIsQueued DEF ConvTypes
        <3>. QED BY <3>1 DEF Queued, MessageRecord
    <2>3. \A i \in DOMAIN inbox : inbox[i].request \in Requests
        BY ElementOfSeq DEF ConvTypes, ClientTypes, Queued, MessageRecord
    <2>4. \A h \in DOMAIN threads : h.m.request \in Requests
        BY DEF ConvTypes, GameCardTypes, HandlerState, Queued, MessageRecord
    <2>. QED BY <2>1, <2>2, <2>3, <2>4 DEF Requesting
<1>3. \A m \in Replying : m.request \in Requests
    BY DEF Replying, ConvTypes, BrokerTypes, Publisher, TeamTypes, Queued, Caught, MessageRecord
<1>4. ASSUME NEW id, NEW m, m.request \in Requests, RequestOf(f, id, m),
             message_count' \in {message_count, message_count + 1},
             NEW g, \A i \in 1..message_count : g[i] = f[i]
      PROVE  RequestOf(g, id, m)'
    <2>1. "named" \notin doubts'[m.request] => "named" \notin doubts[m.request]
        BY <1>4 DEF DoubtsGrow
    <2>. QED BY <1>0, <1>4, <2>1 DEF RequestOf
<1>5. ASSUME NEW g, \A i \in 1..message_count : g[i] = f[i],
             NEW S, NEW T, NEW c, Sending(S, T, c), c \in {message_count, message_count + 1},
             \A m \in S : RequestOf(g, m.id, m)', \A m \in T : RequestOf(g, m.correlative_id, m)'
      PROVE  /\ \A m \in Requesting' : RequestOf(g, m.id, m)'
             /\ \A m \in Replying' : RequestOf(g, m.correlative_id, m)'
    <2>1. message_count' \in {message_count, message_count + 1}
        BY <1>5 DEF Sending
    <2>2. \A m \in Requesting : RequestOf(g, m.id, m)'
        BY <1>2, <1>4, <1>5, <2>1 DEF Means
    <2>3. \A m \in Replying : RequestOf(g, m.correlative_id, m)'
        BY <1>3, <1>4, <1>5, <2>1 DEF Means
    <2>. QED BY <1>5, <2>2, <2>3 DEF Sending
<1>6. ASSUME NEW g, \A i \in 1..message_count : g[i] = f[i], NEW t \in Trainers,
             Held(t)' \subseteq Held(t), trainer'[t].n = trainer[t].n,
             message_count' \in {message_count, message_count + 1}
      PROVE  \A id \in Held(t)' :
                id \in 1..message_count' /\ \E k \in 1..trainer'[t].n : g[id] = <<t, k>>
    BY <1>0, <1>6 DEF Means
<1>7. \A r \in Requests : \E g \in [1..(message_count + 1) -> Requests] :
            (\A i \in 1..message_count : g[i] = f[i]) /\ g[message_count + 1] = r
    <2>. TAKE r \in Requests
    <2>. DEFINE g == [i \in 1..(message_count + 1) |-> IF i \in 1..message_count THEN f[i] ELSE r]
    <2>1. /\ g \in [1..(message_count + 1) -> Requests]
          /\ \A i \in 1..message_count : g[i] = f[i]
          /\ g[message_count + 1] = r
        BY <1>0
    <2>. HIDE DEF g
    <2>. QED BY <2>1
<1>8. CASE Sending({}, {}, message_count) /\ TrainersStay
    <2>1. message_count' = message_count
        BY <1>8 DEF Sending
    <2>2. /\ \A m \in Requesting' : RequestOf(f, m.id, m)'
          /\ \A m \in Replying' : RequestOf(f, m.correlative_id, m)'
        <3>1. PICK S, T, c : S = {} /\ T = {} /\ c = message_count /\ Sending(S, T, c)
            BY <1>8
        <3>2. /\ \A o \in S : RequestOf(f, o.id, o)'
              /\ \A o \in T : RequestOf(f, o.correlative_id, o)'
              /\ c \in {message_count, message_count + 1}
            BY <3>1
        <3>. QED BY <1>5, <3>1, <3>2
    <2>3. \A t \in Trainers : \A id \in Held(t)' :
                id \in 1..message_count' /\ \E k \in 1..trainer'[t].n : f[id] = <<t, k>>
        BY <1>6, <1>8, <2>1 DEF TrainersStay
    <2>4. Means(f)'
        BY <2>2, <2>3 DEF Means
    <2>. QED BY <2>1, <2>4
<1>9. ASSUME TrainersStay, NEW m, Sending({m}, {}, message_count), m.request \in Requests,
             "named" \in doubts'[m.request]
      PROVE  \E g \in [1..message_count' -> Requests] : Means(g)'
    <2>1. message_count' = message_count
        BY <1>9 DEF Sending
    <2>2. RequestOf(f, m.id, m)'
        BY <1>9 DEF RequestOf
    <2>3. /\ \A o \in Requesting' : RequestOf(f, o.id, o)'
          /\ \A o \in Replying' : RequestOf(f, o.correlative_id, o)'
        <3>1. PICK S, T, c : S = {m} /\ T = {} /\ c = message_count /\ Sending(S, T, c)
            BY <1>9
        <3>2. /\ \A o \in S : RequestOf(f, o.id, o)'
              /\ \A o \in T : RequestOf(f, o.correlative_id, o)'
              /\ c \in {message_count, message_count + 1}
            BY <2>2, <3>1
        <3>. QED BY <1>5, <3>1, <3>2
    <2>4. \A t \in Trainers : \A id \in Held(t)' :
                id \in 1..message_count' /\ \E k \in 1..trainer'[t].n : f[id] = <<t, k>>
        BY <1>6, <1>9, <2>1 DEF TrainersStay
    <2>5. Means(f)'
        BY <2>3, <2>4 DEF Means
    <2>. QED BY <2>1, <2>5
<1>10. ASSUME TrainersStay, NEW m, Sending({m}, {}, message_count + 1), m.request \in Requests,
              m.id = message_count + 1
       PROVE  \E g \in [1..message_count' -> Requests] : Means(g)'
    <2>1. message_count' = message_count + 1
        BY <1>10 DEF Sending
    <2>2. PICK g \in [1..message_count' -> Requests] :
            /\ \A i \in 1..message_count : g[i] = f[i]
            /\ g[message_count + 1] = m.request
        <3>1. PICK g \in [1..(message_count + 1) -> Requests] :
                /\ \A i \in 1..message_count : g[i] = f[i]
                /\ g[message_count + 1] = m.request
            BY <1>7, <1>10
        <3>. QED BY <2>1, <3>1
    <2>3. RequestOf(g, m.id, m)'
        BY <1>0, <1>10, <2>1, <2>2 DEF RequestOf
    <2>4. /\ \A o \in Requesting' : RequestOf(g, o.id, o)'
          /\ \A o \in Replying' : RequestOf(g, o.correlative_id, o)'
        <3>1. PICK S, T, c : S = {m} /\ T = {} /\ c = message_count + 1 /\ Sending(S, T, c)
            BY <1>10
        <3>2. /\ \A o \in S : RequestOf(g, o.id, o)'
              /\ \A o \in T : RequestOf(g, o.correlative_id, o)'
              /\ c \in {message_count, message_count + 1}
            BY <2>3, <3>1
        <3>. QED BY <1>5, <2>2, <3>1, <3>2
    <2>5. \A t \in Trainers : \A id \in Held(t)' :
                id \in 1..message_count' /\ \E k \in 1..trainer'[t].n : g[id] = <<t, k>>
        BY <1>6, <1>10, <2>1, <2>2 DEF TrainersStay
    <2>6. Means(g)'
        BY <2>4, <2>5 DEF Means
    <2>. QED BY <2>6
<1>11. ASSUME TrainersStay, NEW m, NEW h \in DOMAIN threads, Sending({}, {m}, message_count + 1),
              m.correlative_id = h.m.id, m.request = h.m.request
       PROVE  \E g \in [1..message_count' -> Requests] : Means(g)'
    <2>1. message_count' = message_count + 1 /\ h.m \in Requesting /\ h.m.request \in Requests
        BY <1>2, <1>11 DEF Sending, Requesting
    <2>2. PICK g \in [1..message_count' -> Requests] :
            \A i \in 1..message_count : g[i] = f[i]
        BY <1>7, <1>11, <2>1
    <2>3. RequestOf(g, m.correlative_id, m)'
        <3>1. RequestOf(f, h.m.id, h.m)
            BY <2>1 DEF Means
        <3>2. RequestOf(g, h.m.id, h.m)'
            BY <1>4, <2>1, <2>2, <3>1
        <3>. QED BY <1>11, <3>2 DEF RequestOf
    <2>4. /\ \A o \in Requesting' : RequestOf(g, o.id, o)'
          /\ \A o \in Replying' : RequestOf(g, o.correlative_id, o)'
        <3>1. PICK S, T, c : S = {} /\ T = {m} /\ c = message_count + 1 /\ Sending(S, T, c)
            BY <1>11
        <3>2. /\ \A o \in S : RequestOf(g, o.id, o)'
              /\ \A o \in T : RequestOf(g, o.correlative_id, o)'
              /\ c \in {message_count, message_count + 1}
            BY <2>3, <3>1
        <3>. QED BY <1>5, <2>2, <3>1, <3>2
    <2>5. \A t \in Trainers : \A id \in Held(t)' :
                id \in 1..message_count' /\ \E k \in 1..trainer'[t].n : g[id] = <<t, k>>
        BY <1>6, <1>11, <2>1, <2>2 DEF TrainersStay
    <2>6. Means(g)'
        BY <2>4, <2>5 DEF Means
    <2>. QED BY <2>6
<1>12. ASSUME NEW t \in Trainers, NEW m, Sending({m}, {}, message_count + 1),
              m.id = message_count + 1, m.request = <<t, trainer'[t].n>>, m.request \in Requests,
              trainer'[t].n = trainer[t].n + 1,
              Held(t)' \subseteq Held(t) \cup {message_count + 1},
              \A u \in Trainers \ {t} : Held(u)' \subseteq Held(u) /\ trainer'[u].n = trainer[u].n
       PROVE  \E g \in [1..message_count' -> Requests] : Means(g)'
    <2>1. message_count' = message_count + 1
        BY <1>12 DEF Sending
    <2>2. PICK g \in [1..message_count' -> Requests] :
            /\ \A i \in 1..message_count : g[i] = f[i]
            /\ g[message_count + 1] = m.request
        <3>1. PICK g \in [1..(message_count + 1) -> Requests] :
                /\ \A i \in 1..message_count : g[i] = f[i]
                /\ g[message_count + 1] = m.request
            BY <1>7, <1>12
        <3>. QED BY <2>1, <3>1
    <2>3. RequestOf(g, m.id, m)'
        BY <1>0, <1>12, <2>1, <2>2 DEF RequestOf
    <2>4. /\ \A o \in Requesting' : RequestOf(g, o.id, o)'
          /\ \A o \in Replying' : RequestOf(g, o.correlative_id, o)'
        <3>1. PICK S, T, c : S = {m} /\ T = {} /\ c = message_count + 1 /\ Sending(S, T, c)
            BY <1>12
        <3>2. /\ \A o \in S : RequestOf(g, o.id, o)'
              /\ \A o \in T : RequestOf(g, o.correlative_id, o)'
              /\ c \in {message_count, message_count + 1}
            BY <2>3, <3>1
        <3>. QED BY <1>5, <2>2, <3>1, <3>2
    <2>5. ASSUME NEW u \in Trainers, NEW id \in Held(u)'
          PROVE  id \in 1..message_count' /\ \E k \in 1..trainer'[u].n : g[id] = <<u, k>>
        <3>1. CASE u # t
            BY <1>6, <1>12, <2>1, <2>2, <3>1
        <3>2. CASE u = t /\ id = message_count + 1
            <4>1. trainer'[t].n \in 1..trainer'[t].n
                BY <1>0, <1>12
            <4>2. g[id] = <<t, trainer'[t].n>>
                BY <1>12, <2>2, <3>2
            <4>. QED BY <1>0, <2>1, <3>2, <4>1, <4>2
        <3>3. CASE u = t /\ id \in Held(t)
            <4>1. id \in 1..message_count /\ \E k \in 1..trainer[t].n : f[id] = <<t, k>>
                BY <3>3 DEF Means
            <4>2. PICK k \in 1..trainer[t].n : f[id] = <<t, k>>
                BY <4>1
            <4>3. k \in 1..trainer'[t].n /\ id \in 1..message_count'
                BY <1>0, <1>12, <2>1, <4>1
            <4>. QED BY <2>2, <3>3, <4>1, <4>2, <4>3
        <3>. QED BY <1>12, <3>1, <3>2, <3>3
    <2>6. Means(g)'
        BY <2>4, <2>5 DEF Means
    <2>. QED BY <2>6
<1>. QED BY <1>1, <1>8, <1>9, <1>10, <1>11, <1>12 DEF Circulation

\* Which steps change a trainer.
LEMMA TrainersMove ==
    ASSUME [Next]_vars
    PROVE  \/ UNCHANGED trainer
           \/ \E t \in Trainers : receive_message_id(t) \/ wait_catch(t) \/ catch_pokemon(t)
           \/ \E m \in DOMAIN answers : handle_caught(m)
<1>1. Broker \/ Client \/ Handlers \/ GameBoyToBroker \/ (\E id \in bound.ids : GameBoyToGameCard(id))
        \/ GameCardDies \/ GameCardStarts \/ BrokerDies \/ BrokerStarts => UNCHANGED trainer
    BY DEF Broker, SendToSubscriptors, SendToTeam, ListReceivers, Enqueue, OverrideSocket, Replay,
           process_message_ack, Client, subscribe_to, handle_event, send_message_received_to_broker,
           Disconnected, Handlers, AckDirect, Apply, SendAnswer, GameBoyToBroker, GameBoyToGameCard,
           GameCardDies, GameCardStarts, BrokerDies, BrokerStarts, teamVars
<1>2. UNCHANGED vars => UNCHANGED trainer
    BY DEF vars, teamVars
<1>. QED BY <1>1, <1>2 DEF Next, TeamThreads, BagToSet

\* Every step keeps DeathsInv.
LEMMA NextDeathsInv ==
    ASSUME ConvTypes, DeathsInv, [Next]_vars
    PROVE  DeathsInv'
<1>0. /\ TeamTypes /\ OtherTypes /\ DoubtsGrow /\ broker_deaths \in Nat
      /\ doubts \in [Requests -> SUBSET Reasons]
    BY NextOtherTypes DEF ConvTypes, OtherTypes
<1>1. \A t \in Trainers : trainer'[t].sem_caught = 1 => trainer'[t].answer \in trainer'[t].heard
    <2>1. CASE UNCHANGED trainer
        BY <2>1 DEF DeathsInv
    <2>2. ASSUME NEW t \in Trainers, receive_message_id(t) \/ wait_catch(t) \/ catch_pokemon(t)
          PROVE  \A u \in Trainers :
                    trainer'[u].sem_caught = 1 => trainer'[u].answer \in trainer'[u].heard
        <3>1. /\ OthersStay(t) /\ trainer'[t].sem_caught \in {trainer[t].sem_caught, 0}
              /\ trainer'[t].answer = trainer[t].answer /\ trainer'[t].heard = trainer[t].heard
            BY <2>2, TrainerSteps, AskingFacts
        <3>2. trainer'[t].sem_caught = 1 => trainer'[t].answer \in trainer'[t].heard
            <4>1. trainer[t].sem_caught = 1 => trainer[t].answer \in trainer[t].heard
                BY DEF DeathsInv
            <4>2. trainer'[t].sem_caught = 1 => trainer[t].sem_caught = 1
                BY <3>1
            <4>. QED BY <3>1, <4>1, <4>2
        <3>3. \A u \in Trainers \ {t} :
                trainer'[u].sem_caught = 1 => trainer'[u].answer \in trainer'[u].heard
            BY <3>1 DEF DeathsInv, OthersStay
        <3>. QED BY <3>2, <3>3
    <2>3. ASSUME NEW m \in DOMAIN answers, handle_caught(m)
          PROVE  \A u \in Trainers :
                    trainer'[u].sem_caught = 1 => trainer'[u].answer \in trainer'[u].heard
        <3>1. ASSUME NEW t \in Trainers, Woken(t, m)
              PROVE  \A u \in Trainers :
                        trainer'[u].sem_caught = 1 => trainer'[u].answer \in trainer'[u].heard
            BY <3>1 DEF DeathsInv, OthersStay, Woken
        <3>. QED BY <2>1, <2>3, <3>1, AnswerFacts
    <2>. QED BY <2>1, <2>2, <2>3, TrainersMove
<1>2. CASE BrokerDies
    <2>1. broker_deaths' = broker_deaths + 1 /\ doubts' = Doubt(Requests, "broker died")
        BY <1>2 DEF BrokerDies
    <2>2. \A r \in Requests : "broker died" \in doubts'[r]
        BY <1>0, <2>1 DEF Doubt
    <2>3. broker_deaths' # 0
        <3>1. PICK n \in Nat : n = broker_deaths
            BY <1>0
        <3>2. broker_deaths' = n + 1
            BY <2>1, <3>1
        <3>3. n + 1 # 0
            BY <3>1
        <3>. QED BY <3>2, <3>3
    <2>. QED BY <1>1, <2>2, <2>3, Zenon DEF DeathsInv
<1>3. CASE BrokerStarts
    BY <1>1, <1>3 DEF BrokerStarts, deathVars, DeathsInv
<1>4. CASE UNCHANGED <<broker_deaths, broker_up>>
    BY <1>0, <1>1, <1>4 DEF DeathsInv, DoubtsGrow
<1>5. UNCHANGED <<broker_deaths, broker_up>> \/ BrokerDies \/ BrokerStarts
    BY DEF Next, Broker, SendToSubscriptors, SendToTeam, ListReceivers, Enqueue, OverrideSocket,
           Replay, process_message_ack, Client, subscribe_to, handle_event,
           send_message_received_to_broker, Disconnected, Handlers, AckDirect, Apply, SendAnswer,
           TeamThreads, receive_message_id, wait_catch, handle_caught, GameBoyToBroker,
           GameBoyToGameCard, catch_pokemon, GameCardDies, GameCardStarts, TeamFrame, vars,
           brokerVars, deathVars
<1>. QED BY <1>2, <1>3, <1>4, <1>5

\* No answer to r is new in the handlers, the broker, the Team.
HandlersStay(r) == \A h \in InHandler(r)' : h \in InHandler(r) /\ threads'[h] = threads[h]
PublishersStay(r) == InBroker(r)' \subseteq InBroker(r)
AnswersStay(r) == \A m \in InTeam(r)' : m \in InTeam(r) /\ answers'[m] = answers[m]

\* None is new in what does not change.
LEMMA UnchangedStays ==
    ASSUME NEW r
    PROVE  /\ UNCHANGED threads => HandlersStay(r)
           /\ UNCHANGED publishers => PublishersStay(r)
           /\ UNCHANGED answers => AnswersStay(r)
BY DEF HandlersStay, PublishersStay, AnswersStay, InHandler, InBroker, InTeam

\* Where none is new there is still one at most.
LEMMA FewerKeep ==
    ASSUME NEW t, NEW k, OneAnswer(t, k), HandlersStay(<<t, k>>), PublishersStay(<<t, k>>),
           AnswersStay(<<t, k>>), Taken(t, k)' => Taken(t, k),
           applied'[<<t, k>>] = applied[<<t, k>>]
    PROVE  OneAnswer(t, k)'
<1>1. PICK r : r = <<t, k>>
    OBVIOUS
<1>2. PICK H, B, A : H = InHandler(r) /\ B = InBroker(r) /\ A = InTeam(r)
    OBVIOUS
<1>3. PICK H1, B1, A1 : H1 = InHandler(r)' /\ B1 = InBroker(r)' /\ A1 = InTeam(r)'
    OBVIOUS
<1>4. /\ \A h, g \in H : h = g /\ threads[h] = 1
      /\ \A p, q \in B : p = q
      /\ \A m, o \in A : m = o /\ answers[m] = 1
      /\ H # {} => B = {} /\ A = {} /\ ~Taken(t, k)
      /\ B # {} => A = {} /\ ~Taken(t, k)
      /\ A # {} => ~Taken(t, k)
      /\ applied[r] = 0 => H = {} /\ B = {} /\ A = {} /\ ~Taken(t, k)
    BY <1>1, <1>2 DEF OneAnswer
<1>5. /\ \A h \in H1 : h \in H /\ threads'[h] = threads[h]
      /\ B1 \subseteq B
      /\ \A m \in A1 : m \in A /\ answers'[m] = answers[m]
    BY <1>1, <1>2, <1>3, Zenon DEF HandlersStay, PublishersStay, AnswersStay
<1>6. /\ H = {} => H1 = {}
      /\ B = {} => B1 = {}
      /\ A = {} => A1 = {}
    BY <1>5
<1>7. /\ \A h, g \in H1 : h = g /\ threads'[h] = 1
      /\ \A p, q \in B1 : p = q
      /\ \A m, o \in A1 : m = o /\ answers'[m] = 1
      /\ H1 # {} => B1 = {} /\ A1 = {} /\ ~Taken(t, k)'
      /\ B1 # {} => A1 = {} /\ ~Taken(t, k)'
      /\ A1 # {} => ~Taken(t, k)'
      /\ applied'[r] = 0 => H1 = {} /\ B1 = {} /\ A1 = {} /\ ~Taken(t, k)'
    BY <1>1, <1>4, <1>5, <1>6
<1>. QED BY <1>1, <1>3, <1>7, Zenon DEF OneAnswer

\* The handler that does r for the first time has the only answer.
LEMMA ApplyKeeps ==
    ASSUME ConvTypes, NEW t, NEW k, <<t, k>> \in Requests, OneAnswer(t, k),
           Taken(t, k)' => Taken(t, k), applied'[<<t, k>>] <= 1,
           NEW h \in DOMAIN threads, Apply(h)
    PROVE  OneAnswer(t, k)'
<1>1. PICK r \in Requests : r = <<t, k>>
    OBVIOUS
<1>2. PICK x, B : x = Applied(h) /\ B = threads (-) One(h)
    OBVIOUS
<1>3. /\ h.pc = "apply" /\ x.m = h.m /\ x.pc = "answer" /\ h.m.request \in Requests
      /\ threads' \in {B, B (+) One(x)}
      /\ applied' = [applied EXCEPT ![h.m.request] = @ + 1] /\ applied \in [Requests -> Nat]
      /\ IsABag(threads)
    BY <1>2, ApplyFacts DEF ConvTypes, GameCardTypes
<1>4. /\ IsABag(B) /\ DOMAIN B \subseteq DOMAIN threads
      /\ \A y \in DOMAIN threads \ {h} : y \in DOMAIN B /\ B[y] = threads[y]
    <2>1. /\ IsABag(threads (-) One(h))
          /\ DOMAIN (threads (-) One(h)) = IF threads[h] = 1 THEN DOMAIN threads \ {h}
                                           ELSE DOMAIN threads
          /\ \A y \in DOMAIN threads \ {h} : (threads (-) One(h))[y] = threads[y]
        BY <1>3, BagRemove
    <2>. QED BY <1>2, <2>1
<1>5. /\ DOMAIN (B (+) One(x)) = DOMAIN B \cup {x}
      /\ \A y \in DOMAIN B \ {x} : (B (+) One(x))[y] = B[y]
      /\ (B (+) One(x))[x] = IF x \in DOMAIN B THEN B[x] + 1 ELSE 1
    BY <1>4, BagAdd
<1>6. UNCHANGED <<publishers, answers>>
    BY DEF Apply, brokerVars, teamVars
<1>7. PublishersStay(r) /\ AnswersStay(r)
    BY <1>6, UnchangedStays
<1>8. ASSUME NEW g \in InHandler(r)'
      PROVE  g \in DOMAIN threads' /\ g.pc = "answer" /\ g.m.request = r
    BY DEF InHandler
<1>9. ASSUME NEW g \in InHandler(r)', g # x
      PROVE  g \in InHandler(r) /\ threads'[g] = threads[g]
    <2>1. g \in DOMAIN B /\ g # h
        BY <1>3, <1>5, <1>8, <1>9
    <2>2. threads'[g] = B[g]
        BY <1>3, <1>5, <1>9, <2>1
    <2>. QED BY <1>4, <1>8, <2>1, <2>2 DEF InHandler
<1>10. CASE h.m.request # r
    <2>1. HandlersStay(r)
        BY <1>3, <1>8, <1>9, <1>10 DEF HandlersStay
    <2>2. applied'[r] = applied[r]
        BY <1>3, <1>10
    <2>. QED BY <1>1, <1>7, <2>1, <2>2, FewerKeep
<1>11. CASE h.m.request = r
    <2>1. applied'[r] = applied[r] + 1 /\ applied[r] \in Nat
        BY <1>3, <1>11
    <2>2. applied[r] = 0 /\ applied'[r] # 0
        BY <1>1, <2>1
    <2>3. InHandler(r) = {} /\ InBroker(r) = {} /\ InTeam(r) = {} /\ ~Taken(t, k)
        BY <1>1, <2>2 DEF OneAnswer
    <2>4. InBroker(r)' = {} /\ InTeam(r)' = {} /\ ~Taken(t, k)'
        BY <1>7, <2>3 DEF PublishersStay, AnswersStay
    <2>5. x \notin DOMAIN B
        BY <1>3, <1>4, <1>11, <2>3 DEF InHandler
    <2>6. \A g \in InHandler(r)' : g = x /\ threads'[g] = 1
        <3>1. \A g \in InHandler(r)' : g = x
            BY <1>9, <2>3
        <3>2. x \in DOMAIN threads' => threads' = B (+) One(x)
            BY <1>3, <2>5
        <3>. QED BY <1>5, <1>8, <2>5, <3>1, <3>2
    <2>. QED BY <1>1, <2>2, <2>4, <2>6, Zenon DEF OneAnswer
<1>. QED BY <1>10, <1>11

\* A handler sends the answer it has: it is the broker's then, and no longer the handler's.
LEMMA SendAnswerKeeps ==
    ASSUME ConvTypes, NEW t, NEW k, OneAnswer(t, k), Taken(t, k)' => Taken(t, k),
           broker_up, NEW h \in DOMAIN threads, SendAnswer(h)
    PROVE  OneAnswer(t, k)'
<1>1. PICK r : r = <<t, k>>
    OBVIOUS
<1>2. h \in HandlerState /\ IsABag(threads) /\ OtherTypes
    BY DEF ConvTypes, GameCardTypes
<1>3. /\ UNCHANGED <<answers, applied>> /\ Accept(FromHandler(h)) /\ h.pc = "answer"
      /\ threads' = threads (-) One(h)
    BY DEF SendAnswer, FromHandler, teamVars
<1>4. /\ FromHandler(h) \in MessageRecord /\ FromHandler(h).request = h.m.request
    BY <1>2, HandlerSends
<1>5. PICK m, c : m = FromHandler(h) /\ c = NewPublisher(m)
    OBVIOUS
<1>6. /\ publishers' \subseteq publishers \cup {c} /\ c.m.request = h.m.request
    BY <1>3, <1>4, <1>5, AcceptFacts
<1>7. AnswersStay(r)
    BY <1>3, UnchangedStays
<1>8. /\ DOMAIN threads' = IF threads[h] = 1 THEN DOMAIN threads \ {h} ELSE DOMAIN threads
      /\ \A y \in DOMAIN threads \ {h} : threads'[y] = threads[y]
    BY <1>2, <1>3, BagRemove
<1>9. CASE h.m.request # r
    <2>1. HandlersStay(r)
        BY <1>8, <1>9 DEF HandlersStay, InHandler
    <2>2. PublishersStay(r)
        BY <1>6, <1>9 DEF PublishersStay, InBroker
    <2>. QED BY <1>1, <1>3, <1>7, <2>1, <2>2, FewerKeep
<1>10. CASE h.m.request = r
    <2>1. h \in InHandler(r)
        BY <1>3, <1>10 DEF InHandler
    <2>2. /\ \A g \in InHandler(r) : g = h
          /\ threads[h] = 1 /\ InBroker(r) = {} /\ InTeam(r) = {} /\ ~Taken(t, k)
          /\ applied[r] # 0
        BY <1>1, <2>1 DEF OneAnswer
    <2>3. InHandler(r)' = {}
        BY <1>8, <2>2 DEF InHandler
    <2>4. InTeam(r)' = {} /\ ~Taken(t, k)' /\ applied'[r] # 0
        BY <1>3, <1>7, <2>2 DEF AnswersStay
    <2>5. \A p \in InBroker(r)' : p = c
        BY <1>6, <2>2 DEF InBroker
    <2>. QED BY <1>1, <2>3, <2>4, <2>5, Zenon DEF OneAnswer
<1>. QED BY <1>9, <1>10

\* The broker passes the answer on to the Team.
LEMMA SendToTeamKeeps ==
    ASSUME ConvTypes, NEW t, NEW k, OneAnswer(t, k), Taken(t, k)' => Taken(t, k),
           NEW p \in publishers, SendToTeam(p)
    PROVE  OneAnswer(t, k)'
<1>1. PICK r : r = <<t, k>>
    OBVIOUS
<1>2. PICK x : x = p.m
    OBVIOUS
<1>3. /\ UNCHANGED <<threads, applied>> /\ publishers' = publishers \ {p}
      /\ answers' \in {answers, answers (+) One(x)} /\ x.code = "CAUGHT_POKEMON"
      /\ IsABag(answers)
    BY <1>2 DEF SendToTeam, gamecardVars, ConvTypes, TeamTypes
<1>4. HandlersStay(r) /\ PublishersStay(r)
    BY <1>3, UnchangedStays DEF PublishersStay, InBroker
<1>5. /\ DOMAIN (answers (+) One(x)) = DOMAIN answers \cup {x}
      /\ \A y \in DOMAIN answers \ {x} : (answers (+) One(x))[y] = answers[y]
      /\ (answers (+) One(x))[x] = IF x \in DOMAIN answers THEN answers[x] + 1 ELSE 1
    BY <1>3, BagAdd
<1>6. CASE x.request # r
    <2>1. AnswersStay(r)
        BY <1>3, <1>5, <1>6 DEF AnswersStay, InTeam
    <2>. QED BY <1>1, <1>3, <1>4, <2>1, FewerKeep
<1>7. CASE x.request = r
    <2>1. p \in InBroker(r)
        BY <1>2, <1>3, <1>7 DEF InBroker
    <2>2. /\ \A q \in InBroker(r) : q = p
          /\ InHandler(r) = {} /\ InTeam(r) = {} /\ ~Taken(t, k) /\ applied[r] # 0
        BY <1>1, <2>1 DEF OneAnswer
    <2>3. InHandler(r)' = {} /\ ~Taken(t, k)' /\ applied'[r] # 0
        BY <1>3, <1>4, <2>2 DEF HandlersStay
    <2>4. InBroker(r)' = {}
        BY <1>3, <2>2 DEF InBroker
    <2>5. x \notin DOMAIN answers
        BY <1>7, <2>2 DEF InTeam
    <2>6. \A m \in InTeam(r)' : m = x /\ answers'[m] = 1
        BY <1>3, <1>5, <2>2, <2>5 DEF InTeam
    <2>. QED BY <1>1, <2>3, <2>4, <2>6, Zenon DEF OneAnswer
<1>. QED BY <1>6, <1>7

\* The Team takes an answer from those it was sent.
LEMMA CaughtKeeps ==
    ASSUME ConvTypes, NEW t, NEW k, OneAnswer(t, k), NEW m \in DOMAIN answers, handle_caught(m),
           Taken(t, k)' => Taken(t, k) \/ m.request = <<t, k>>
    PROVE  OneAnswer(t, k)'
<1>1. PICK r : r = <<t, k>>
    OBVIOUS
<1>2. /\ UNCHANGED <<threads, publishers, applied>> /\ answers' = answers (-) One(m)
      /\ IsABag(answers)
    BY DEF handle_caught, TeamFrame, gamecardVars, ConvTypes, TeamTypes
<1>3. HandlersStay(r) /\ PublishersStay(r)
    BY <1>2, UnchangedStays
<1>4. /\ DOMAIN answers' = IF answers[m] = 1 THEN DOMAIN answers \ {m} ELSE DOMAIN answers
      /\ \A y \in DOMAIN answers \ {m} : answers'[y] = answers[y]
    BY <1>2, BagRemove
<1>5. CASE m.request # r
    <2>1. AnswersStay(r)
        BY <1>4, <1>5 DEF AnswersStay, InTeam
    <2>. QED BY <1>1, <1>2, <1>3, <1>5, <2>1, FewerKeep
<1>6. CASE m.request = r
    <2>1. m \in InTeam(r)
        BY <1>6 DEF InTeam
    <2>2. /\ \A o \in InTeam(r) : o = m
          /\ answers[m] = 1
          /\ InHandler(r) = {} /\ InBroker(r) = {} /\ applied[r] # 0
        BY <1>1, <2>1 DEF OneAnswer
    <2>3. InHandler(r)' = {} /\ InBroker(r)' = {} /\ applied'[r] # 0
        BY <1>2, <1>3, <2>2 DEF HandlersStay, PublishersStay
    <2>4. InTeam(r)' = {}
        BY <1>4, <2>2 DEF InTeam
    <2>. QED BY <1>1, <2>3, <2>4, Zenon DEF OneAnswer
<1>. QED BY <1>5, <1>6

\* A thread that has just read something has no answer.
LEMMA ReadingStays ==
    ASSUME ConvTypes, NEW r, NEW m, threads' = threads (+) Thread(m)
    PROVE  HandlersStay(r)
<1>1. IsABag(threads)
    BY DEF ConvTypes, GameCardTypes
<1>2. PICK x : x = Reading(m)
    OBVIOUS
<1>3. x.pc = "apply"
    BY <1>2 DEF Reading
<1>4. threads' = threads (+) One(x)
    BY <1>2 DEF Thread, Reading
<1>5. /\ DOMAIN (threads (+) One(x)) = DOMAIN threads \cup {x}
      /\ \A y \in DOMAIN threads \ {x} : (threads (+) One(x))[y] = threads[y]
    BY <1>1, BagAdd
<1>. QED BY <1>3, <1>4, <1>5 DEF HandlersStay, InHandler

\* A thread of the broker for a message that is no answer.
LEMMA AskingStays ==
    ASSUME ConvTypes, NEW r, NEW m \in MessageRecord, m.code # "CAUGHT_POKEMON", Accept(m)
    PROVE  PublishersStay(r)
<1>1. PICK c : c = NewPublisher(m)
    OBVIOUS
<1>2. publishers' \subseteq publishers \cup {c} /\ c.m.code = m.code
    BY <1>1, AcceptFacts
<1>. QED BY <1>2 DEF PublishersStay, InBroker

\* Every step keeps one answer at most to a request done once, if the trainer takes it from the Team.
LEMMA NextOneAnswer ==
    ASSUME ConvTypes, NEW t, NEW k, <<t, k>> \in Requests, OneAnswer(t, k), [Next]_vars,
           broker_up, broker_up', applied'[<<t, k>>] <= 1,
           Taken(t, k)' => \/ Taken(t, k)
                           \/ \E m \in DOMAIN answers : handle_caught(m) /\ m.request = <<t, k>>
    PROVE  OneAnswer(t, k)'
<1>0. /\ BrokerTypes /\ ClientTypes /\ GameCardTypes /\ TeamTypes /\ OtherTypes
    BY DEF ConvTypes
<1>1. CASE \E m \in DOMAIN answers : handle_caught(m) /\ m.request = <<t, k>>
    BY <1>1, CaughtKeeps
<1>. SUFFICES ASSUME Taken(t, k)' => Taken(t, k) PROVE OneAnswer(t, k)'
    BY <1>1
<1>2. PICK r : r = <<t, k>>
    OBVIOUS
<1>3. ASSUME HandlersStay(r), PublishersStay(r), AnswersStay(r), UNCHANGED applied
      PROVE  OneAnswer(t, k)'
    BY <1>2, <1>3, FewerKeep
<1>4. ASSUME UNCHANGED <<threads, publishers, answers, applied>> PROVE OneAnswer(t, k)'
    BY <1>3, <1>4, UnchangedStays
<1>5. ASSUME NEW p \in publishers, SendToSubscriptors(p) PROVE OneAnswer(t, k)'
    <2>1. p \in Publisher /\ p.m.code # "CAUGHT_POKEMON"
        BY <1>0, <1>5, Bounded DEF SendToSubscriptors, BrokerTypes, OtherTypes
    <2>2. PICK q : q = [p EXCEPT !.pc = "list", !.sent = subscriptor]
        OBVIOUS
    <2>3. q.m = p.m
        BY <2>1, <2>2 DEF Publisher
    <2>4. publishers' = (publishers \ {p}) \cup {q} /\ UNCHANGED <<threads, answers, applied>>
        BY <1>5, <2>2 DEF SendToSubscriptors, gamecardVars, teamVars
    <2>5. PublishersStay(r)
        BY <2>1, <2>3, <2>4 DEF PublishersStay, InBroker
    <2>. QED BY <1>3, <2>4, <2>5, UnchangedStays
<1>6. ASSUME NEW p \in publishers, ListReceivers(p) PROVE OneAnswer(t, k)'
    <2>1. p \in Publisher /\ p.m.code # "CAUGHT_POKEMON"
        BY <1>0, <1>6 DEF ListReceivers, BrokerTypes
    <2>2. PICK q : q = [p EXCEPT !.pc = "enqueue", !.receiver = subscriptor]
        OBVIOUS
    <2>3. q.m = p.m
        BY <2>1, <2>2 DEF Publisher
    <2>4. publishers' = (publishers \ {p}) \cup {q} /\ UNCHANGED <<threads, answers, applied>>
        BY <1>6, <2>2 DEF ListReceivers, gamecardVars, teamVars
    <2>5. PublishersStay(r)
        BY <2>1, <2>3, <2>4 DEF PublishersStay, InBroker
    <2>. QED BY <1>3, <2>4, <2>5, UnchangedStays
<1>7. ASSUME NEW p \in publishers, Enqueue(p) PROVE OneAnswer(t, k)'
    <2>1. publishers' \subseteq publishers /\ UNCHANGED <<threads, answers, applied>>
        BY <1>7 DEF Enqueue, gamecardVars, teamVars
    <2>2. PublishersStay(r)
        BY <2>1 DEF PublishersStay, InBroker
    <2>. QED BY <1>3, <2>1, <2>2, UnchangedStays
<1>8. ASSUME NEW h, OverrideSocket(h) \/ Replay(h) PROVE OneAnswer(t, k)'
    BY <1>4, <1>8 DEF OverrideSocket, Replay, gamecardVars, teamVars
<1>9. ASSUME NEW a, process_message_ack(a) PROVE OneAnswer(t, k)'
    BY <1>4, <1>9 DEF process_message_ack, gamecardVars, teamVars
<1>10. CASE subscribe_to \/ send_message_received_to_broker \/ Disconnected \/ GameCardStarts
    BY <1>4, <1>10 DEF subscribe_to, send_message_received_to_broker, Disconnected, GameCardStarts,
           brokerVars, gamecardVars, teamVars
<1>11. CASE handle_event
    <2>1. /\ UNCHANGED <<publishers, answers, applied>>
          /\ threads' = threads (+) Thread(Head(inbox))
        BY <1>11 DEF handle_event, brokerVars, teamVars
    <2>. QED BY <1>3, <2>1, UnchangedStays, ReadingStays
<1>12. ASSUME NEW m, AckDirect(m) PROVE OneAnswer(t, k)'
    BY <1>4, <1>12 DEF AckDirect, teamVars
<1>13. ASSUME NEW h \in DOMAIN threads, Apply(h) PROVE OneAnswer(t, k)'
    BY <1>13, ApplyKeeps
<1>14. ASSUME NEW h \in DOMAIN threads, SendAnswer(h) PROVE OneAnswer(t, k)'
    BY <1>14, SendAnswerKeeps
<1>15. ASSUME NEW p \in publishers, SendToTeam(p) PROVE OneAnswer(t, k)'
    BY <1>15, SendToTeamKeeps
<1>16. ASSUME NEW m \in DOMAIN answers, handle_caught(m) PROVE OneAnswer(t, k)'
    BY <1>16, CaughtKeeps
<1>17. CASE GameBoyToBroker
    <2>1. /\ UNCHANGED <<threads, answers, applied>> /\ Accept(FromGameBoy)
          /\ told < bound.commands
        BY <1>17 DEF GameBoyToBroker, FromGameBoy, gamecardVars, teamVars
    <2>2. FromGameBoy \in MessageRecord /\ FromGameBoy.code # "CAUGHT_POKEMON"
        BY <1>0, <2>1, GameBoySends
    <2>. QED BY <1>3, <2>1, <2>2, AskingStays, UnchangedStays
<1>18. ASSUME NEW id \in bound.ids, GameBoyToGameCard(id) PROVE OneAnswer(t, k)'
    <2>1. PICK m : threads' = threads (+) Thread(m)
        BY <1>18 DEF GameBoyToGameCard
    <2>2. UNCHANGED <<publishers, answers, applied>>
        BY <1>18 DEF GameBoyToGameCard, brokerVars, teamVars
    <2>. QED BY <1>3, <2>1, <2>2, ReadingStays, UnchangedStays
<1>19. ASSUME NEW u \in Trainers, catch_pokemon(u) PROVE OneAnswer(t, k)'
    <2>1. UNCHANGED <<threads, answers, applied>> /\ Accept(FromTrainer(u))
        BY <1>19, AskingFacts DEF catch_pokemon, TeamFrame, gamecardVars
    <2>2. FromTrainer(u) \in MessageRecord /\ FromTrainer(u).code # "CAUGHT_POKEMON"
        <3>1. Cardinality(Catches) < bound.catches
            BY <1>19, AskingFacts
        <3>. QED BY <3>1, TrainerSends, MoreCatches
    <2>. QED BY <1>3, <2>1, <2>2, AskingStays, UnchangedStays
<1>20. ASSUME NEW u, receive_message_id(u) \/ wait_catch(u) PROVE OneAnswer(t, k)'
    BY <1>4, <1>20 DEF receive_message_id, wait_catch, TeamFrame, gamecardVars
<1>21. CASE GameCardDies
    <2>1. UNCHANGED <<publishers, answers, applied>> /\ threads' = EmptyBag
        BY <1>21 DEF GameCardDies, brokerVars, teamVars
    <2>2. HandlersStay(r)
        BY <2>1, EmptyIsBag DEF HandlersStay, InHandler
    <2>. QED BY <1>3, <2>1, <2>2, UnchangedStays
<1>22. CASE UNCHANGED vars
    BY <1>4, <1>22 DEF vars, brokerVars, gamecardVars, teamVars
<1>23. ~BrokerDies /\ ~BrokerStarts
    BY DEF BrokerDies, BrokerStarts
<1>24. Broker => OneAnswer(t, k)'
    BY <1>5, <1>6, <1>7, <1>8, <1>9, <1>15 DEF Broker
<1>25. Client => OneAnswer(t, k)'
    BY <1>10, <1>11 DEF Client
<1>26. Handlers => OneAnswer(t, k)'
    BY <1>12, <1>13, <1>14 DEF Handlers, BagToSet
<1>27. TeamThreads => OneAnswer(t, k)'
    BY <1>16, <1>20 DEF TeamThreads, BagToSet
<1>. QED BY <1>10, <1>17, <1>18, <1>19, <1>21, <1>22, <1>23, <1>24, <1>25, <1>26, <1>27 DEF Next

\* What was done once now was done once at most before.
LEMMA AppliedBefore ==
    ASSUME ConvTypes, [Next]_vars, NEW r \in Requests, applied'[r] <= 1
    PROVE  applied[r] <= 1
<1>1. applied \in [Requests -> Nat]
    BY DEF ConvTypes, GameCardTypes
<1>2. ASSUME NEW h \in DOMAIN threads, Apply(h)
      PROVE  applied'[r] \in {applied[r], applied[r] + 1}
    <2>1. applied' = [applied EXCEPT ![h.m.request] = @ + 1]
        BY <1>2 DEF Apply
    <2>. QED BY <1>1, <2>1
<1>3. UNCHANGED applied \/ \E h \in DOMAIN threads : Apply(h)
    BY DEF Next, Broker, SendToSubscriptors, SendToTeam, ListReceivers, Enqueue,
           OverrideSocket, Replay, process_message_ack, Client, subscribe_to, handle_event,
           send_message_received_to_broker, Disconnected, Handlers, AckDirect, SendAnswer,
           TeamThreads, receive_message_id, wait_catch, handle_caught, GameBoyToBroker,
           GameBoyToGameCard, catch_pokemon, GameCardDies, GameCardStarts, BrokerDies,
           BrokerStarts, TeamFrame, vars, gamecardVars, BagToSet
<1>. QED BY <1>1, <1>2, <1>3

\* What was in a trainer's way stays there.
LEMMA ClearBefore ==
    ASSUME ConvTypes, DoubtsGrow, [Next]_vars, NEW t \in Trainers, Clear(t)'
    PROVE  Clear(t)
<1>1. /\ trainer[t].heard \subseteq trainer'[t].heard /\ trainer[t].n <= trainer'[t].n
      /\ trainer[t].n \in Nat /\ trainer'[t].n \in Nat
    <2>0. trainer[t].n \in Nat
        BY DEF ConvTypes, TeamTypes, TrainerState
    <2>1. CASE UNCHANGED trainer
        BY <2>0, <2>1
    <2>2. ASSUME NEW u \in Trainers, receive_message_id(u) \/ wait_catch(u) \/ catch_pokemon(u)
          PROVE  /\ trainer[t].heard \subseteq trainer'[t].heard
                 /\ trainer'[t].n \in {trainer[t].n, trainer[t].n + 1}
        <3>1. /\ OthersStay(u) /\ trainer'[u].heard = trainer[u].heard
              /\ trainer'[u].n \in {trainer[u].n, trainer[u].n + 1}
            BY <2>2, TrainerSteps, AskingFacts
        <3>. QED BY <3>1 DEF OthersStay
    <2>3. ASSUME NEW m \in DOMAIN answers, handle_caught(m)
          PROVE  trainer[t].heard \subseteq trainer'[t].heard /\ trainer'[t].n = trainer[t].n
        BY <2>3, AnswerFacts DEF Woken, OthersStay
    <2>. QED BY <2>0, <2>1, <2>2, <2>3, TrainersMove
<1>2. ASSUME NEW n \in 1..trainer[t].n PROVE applied[<<t, n>>] <= 1
    <2>1. n \in 1..trainer'[t].n
        BY <1>1
    <2>2. applied'[<<t, n>>] <= 1
        BY <2>1 DEF Clear
    <2>3. <<t, n>> \in Requests
        <3>1. bound.catches \in Nat /\ MostRequests \in Nat /\ bound.catches <= MostRequests
            BY Bounded DEF ConvTypes, OtherTypes
        <3>2. trainer[t].n <= bound.catches
            BY DEF ConvTypes, TeamTypes
        <3>3. n \in 1..MostRequests
            BY <1>1, <3>1, <3>2
        <3>. QED BY <3>3 DEF Requests
    <2>. QED BY <2>2, <2>3, AppliedBefore
<1>3. ASSUME NEW r \in trainer[t].heard PROVE "named" \notin doubts[r]
    <2>1. r \in Requests
        BY DEF ConvTypes, TeamTypes, TrainerState
    <2>2. r \in trainer'[t].heard
        BY <1>1
    <2>. QED BY <2>1, <2>2 DEF Clear, DoubtsGrow
<1>. QED BY <1>2, <1>3 DEF Clear

\* A trainer that nothing is in the way of is woken by the answer to what it asked last.
LEMMA WokenRight ==
    ASSUME ConvTypes, DoubtsGrow, [Next]_vars, NEW f \in [1..message_count -> Requests], Means(f),
           NEW t \in Trainers, Clear(t)', TrainerInv(t), NEW m \in DOMAIN answers, Woken(t, m)
    PROVE  /\ m.request = <<t, trainer[t].n>> /\ trainer[t].pc = "wait"
           /\ trainer[t].n \in 1..MostRequests
<1>1. /\ m \in Caught /\ m.request \in Requests /\ message_count \in Nat
      /\ trainer[t].n \in Nat /\ trainer[t].n <= bound.catches
    BY DEF ConvTypes, TeamTypes, BrokerTypes, TrainerState, Caught, MessageRecord
<1>2. bound.catches \in Nat /\ MostRequests \in Nat /\ bound.catches <= MostRequests
    BY Bounded DEF ConvTypes, OtherTypes
<1>3. "named" \notin doubts[m.request]
    BY <1>1 DEF Woken, Clear, DoubtsGrow
<1>4. m.correlative_id \in 1..message_count /\ f[m.correlative_id] = m.request
    BY <1>3 DEF Means, RequestOf, Replying
<1>5. m.correlative_id \in Held(t)
    BY <1>1, <1>4 DEF Woken, Held
<1>6. PICK k \in 1..trainer[t].n : m.request = <<t, k>>
    BY <1>4, <1>5 DEF Means
<1>7. k \in 1..MostRequests
    BY <1>1, <1>2
<1>8. applied[<<t, k>>] <= 1
    BY ClearBefore DEF Clear
<1>9. OneAnswer(t, k)
    BY <1>7, <1>8 DEF TrainerInv
<1>10. m \in InTeam(<<t, k>>)
    BY <1>6 DEF InTeam
<1>11. ~Taken(t, k)
    BY <1>9, <1>10 DEF OneAnswer
<1>12. k = trainer[t].n /\ trainer[t].pc # "free"
    BY <1>1, <1>11 DEF Taken
<1>13. trainer[t].pc \in {"free", "wait"}
    BY DEF ConvTypes, TeamTypes, TrainerState
<1>. QED BY <1>6, <1>7, <1>12, <1>13

\* A trainer takes an answer only from the Team, and is woken by the right one.
LEMMA NextTrainerInv ==
    ASSUME ConvTypes, DoubtsGrow, [Next]_vars, broker_up, broker_up',
           NEW f \in [1..message_count -> Requests], Means(f),
           NEW t \in Trainers, Clear(t)', TrainerInv(t)
    PROVE  TrainerInv(t)'
<1>0. trainer[t] \in TrainerState /\ trainer[t].n \in Nat /\ trainer[t].pc \in {"free", "wait"}
    BY DEF ConvTypes, TeamTypes, TrainerState
<1>1. trainer[t].sem_caught = 1 =>
            trainer[t].pc = "wait" /\ trainer[t].answer = <<t, trainer[t].n>>
    BY DEF TrainerInv
<1>2. ASSUME trainer'[t].sem_caught = 1 =>
                trainer'[t].pc = "wait" /\ trainer'[t].answer = <<t, trainer'[t].n>>,
             \A k \in 1..MostRequests : Taken(t, k)' =>
                \/ Taken(t, k)
                \/ \E m \in DOMAIN answers : handle_caught(m) /\ m.request = <<t, k>>
      PROVE  TrainerInv(t)'
    <2>1. ASSUME NEW k \in 1..MostRequests, applied'[<<t, k>>] <= 1
          PROVE  OneAnswer(t, k)'
        <3>1. <<t, k>> \in Requests
            BY DEF Requests
        <3>2. applied[<<t, k>>] <= 1
            BY <2>1, <3>1, AppliedBefore
        <3>3. OneAnswer(t, k)
            BY <3>2 DEF TrainerInv
        <3>4. Taken(t, k)' =>
                \/ Taken(t, k)
                \/ \E m \in DOMAIN answers : handle_caught(m) /\ m.request = <<t, k>>
            BY <1>2
        <3>. QED BY <2>1, <3>1, <3>3, <3>4, NextOneAnswer
    <2>. QED BY <1>2, <2>1, Zenon DEF TrainerInv
<1>3. CASE trainer'[t] = trainer[t]
    BY <1>1, <1>2, <1>3 DEF Taken
<1>4. CASE receive_message_id(t)
    <2>1. /\ trainer'[t].pc = trainer[t].pc /\ trainer'[t].n = trainer[t].n
          /\ trainer'[t].sem_caught = trainer[t].sem_caught
          /\ trainer'[t].answer = trainer[t].answer
        BY <1>4, TrainerSteps
    <2>. QED BY <1>1, <1>2, <2>1 DEF Taken
<1>5. CASE wait_catch(t)
    <2>1. /\ trainer[t].pc = "wait" /\ trainer[t].sem_caught = 1 /\ trainer'[t].n = trainer[t].n
          /\ trainer'[t].sem_caught = 0
        BY <1>5, TrainerSteps
    <2>2. \A k \in 1..MostRequests : Taken(t, k)' => Taken(t, k)
        BY <1>1, <2>1 DEF Taken
    <2>. QED BY <1>2, <2>1, <2>2
<1>6. CASE catch_pokemon(t)
    <2>1. /\ trainer[t].pc = "free" /\ trainer'[t].n = trainer[t].n + 1 /\ trainer'[t].pc = "wait"
          /\ trainer'[t].sem_caught = trainer[t].sem_caught
        BY <1>6, AskingFacts
    <2>2. trainer'[t].sem_caught # 1
        BY <1>1, <2>1
    <2>3. \A k \in 1..MostRequests : Taken(t, k)' => Taken(t, k)
        <3>. SUFFICES ASSUME NEW k \in 1..MostRequests, Taken(t, k)' PROVE Taken(t, k)
            OBVIOUS
        <3>1. k < trainer'[t].n
            BY <2>1, <2>2 DEF Taken
        <3>2. MostRequests \in Nat
            BY Bounded DEF ConvTypes, OtherTypes
        <3>3. k < trainer[t].n \/ k = trainer[t].n
            BY <1>0, <2>1, <3>1, <3>2
        <3>. QED BY <2>1, <3>3 DEF Taken
    <2>. QED BY <1>2, <2>2, <2>3
<1>7. ASSUME NEW m \in DOMAIN answers, handle_caught(m), Woken(t, m) PROVE TrainerInv(t)'
    <2>1. /\ m.request = <<t, trainer[t].n>> /\ trainer[t].pc = "wait"
        BY <1>7, WokenRight
    <2>2. /\ trainer'[t].sem_caught = 1 /\ trainer'[t].answer = m.request
          /\ trainer'[t].pc = trainer[t].pc /\ trainer'[t].n = trainer[t].n
        BY <1>7 DEF Woken
    <2>3. \A k \in 1..MostRequests : Taken(t, k)' => Taken(t, k) \/ m.request = <<t, k>>
        BY <2>1, <2>2 DEF Taken
    <2>. QED BY <1>2, <1>7, <2>1, <2>2, <2>3
<1>8. ASSUME NEW u \in Trainers, receive_message_id(u) \/ wait_catch(u) \/ catch_pokemon(u), u # t
      PROVE  trainer'[t] = trainer[t]
    <2>1. OthersStay(u)
        BY <1>8, TrainerSteps, AskingFacts
    <2>. QED BY <1>8, <2>1 DEF OthersStay
<1>9. ASSUME NEW m \in DOMAIN answers, handle_caught(m) PROVE TrainerInv(t)'
    <2>1. UNCHANGED trainer \/ \E u \in Trainers : Woken(u, m)
        BY <1>9, AnswerFacts
    <2>2. ASSUME NEW u \in Trainers, Woken(u, m), u # t PROVE trainer'[t] = trainer[t]
        BY <2>2 DEF Woken, OthersStay
    <2>. QED BY <1>3, <1>7, <1>9, <2>1, <2>2
<1>. QED BY <1>3, <1>4, <1>5, <1>6, <1>8, <1>9, TrainersMove

\* Every step keeps AnswersInv.
LEMMA NextAnswersInv ==
    ASSUME ConvTypes, DeathsInv, AnswersInv, [Next]_vars
    PROVE  AnswersInv'
<1>0. DoubtsGrow /\ DeathsInv' /\ ConvTypes'
    BY NextOtherTypes, NextDeathsInv, NextConvTypes DEF ConvTypes
<1>. SUFFICES ASSUME broker_deaths' = 0
              PROVE  /\ \E g \in [1..message_count' -> Requests] : Means(g)'
                     /\ \A t \in Trainers : Clear(t)' => TrainerInv(t)'
    BY DEF AnswersInv
<1>1. broker_deaths = 0
    <2>1. broker_deaths \in Nat /\ broker_deaths' \in {broker_deaths, broker_deaths + 1}
        BY DEF ConvTypes, OtherTypes, Next, Broker, SendToSubscriptors, SendToTeam, ListReceivers,
               Enqueue, OverrideSocket, Replay, process_message_ack, Client, subscribe_to,
               handle_event, send_message_received_to_broker, Disconnected, Handlers, AckDirect,
               Apply, SendAnswer, TeamThreads, receive_message_id, wait_catch, handle_caught,
               GameBoyToBroker, GameBoyToGameCard, catch_pokemon, GameCardDies, GameCardStarts,
               BrokerDies, BrokerStarts, TeamFrame, vars, deathVars
    <2>. QED BY <2>1
<1>2. broker_up /\ broker_up'
    BY <1>0, <1>1 DEF DeathsInv
<1>3. PICK f \in [1..message_count -> Requests] : Means(f)
    BY <1>1 DEF AnswersInv
<1>4. \E g \in [1..message_count' -> Requests] : Means(g)'
    BY <1>0, <1>2, <1>3, NextMeans
<1>5. ASSUME NEW t \in Trainers, Clear(t)' PROVE TrainerInv(t)'
    <2>1. Clear(t)
        BY <1>0, <1>5, ClearBefore
    <2>2. TrainerInv(t)
        BY <1>1, <2>1 DEF AnswersInv
    <2>. QED BY <1>0, <1>2, <1>3, <1>5, <2>2, NextTrainerInv
<1>. QED BY <1>4, <1>5

\* What keeps AnswerIsForRequest.
ConversationInv == ConvTypes /\ DeathsInv /\ AnswersInv

\* It holds at first: nobody has said anything.
LEMMA InitConversationInv == Init => ConversationInv
<1>. SUFFICES ASSUME Init PROVE ConversationInv
    OBVIOUS
<1>1. ConvTypes
    BY InitConvTypes
<1>2. DeathsInv
    BY DEF Init, DeathsInv
<1>3. /\ message_count = 0 /\ publishers = {} /\ DOMAIN messages = {} /\ DOMAIN inbox = {}
      /\ DOMAIN threads = {} /\ DOMAIN answers = {}
      /\ \A t \in Trainers : /\ trainer[t].returned = {} /\ trainer[t].id_message = 0
                             /\ trainer[t].n = 0 /\ trainer[t].sem_caught = 0
    BY EmptyIsBag, EmptySeq DEF Init
<1>4. \E f \in [1..message_count -> Requests] : Means(f)
    <2>. DEFINE f == [i \in {} |-> <<0, 0>>]
    <2>1. f \in [1..message_count -> Requests]
        BY <1>3
    <2>2. Requesting = {} /\ Replying = {}
        BY <1>3 DEF Requesting, Replying
    <2>3. \A t \in Trainers : Held(t) = {}
        BY <1>3 DEF Held
    <2>. HIDE DEF f
    <2>4. Means(f)
        BY <2>2, <2>3 DEF Means
    <2>. QED BY <2>1, <2>4
<1>5. ASSUME NEW t \in Trainers PROVE TrainerInv(t)
    <2>1. ASSUME NEW r PROVE InHandler(r) = {} /\ InBroker(r) = {} /\ InTeam(r) = {}
        BY <1>3 DEF InHandler, InBroker, InTeam
    <2>2. ASSUME NEW k \in 1..MostRequests PROVE ~Taken(t, k)
        <3>1. MostRequests \in Nat
            BY Bounded DEF Init
        <3>. QED BY <1>3, <1>5, <3>1 DEF Taken
    <2>3. ASSUME NEW k \in 1..MostRequests PROVE OneAnswer(t, k)
        BY <2>1, <2>2 DEF OneAnswer
    <2>. QED BY <1>3, <1>5, <2>3 DEF TrainerInv
<1>. QED BY <1>1, <1>2, <1>4, <1>5 DEF ConversationInv, AnswersInv

\* Every step keeps it.
LEMMA NextConversationInv == ConversationInv /\ [Next]_vars => ConversationInv'
BY NextConvTypes, NextDeathsInv, NextAnswersInv DEF ConversationInv

\* It is enough: a broker that died and a named request are the excuses the property has.
LEMMA ConversationInvAnswers == ConversationInv => AnswerIsForRequest
<1>. SUFFICES ASSUME ConversationInv, NEW t \in Trainers, trainer[t].sem_caught = 1
              PROVE  \/ trainer[t].answer = <<t, trainer[t].n>>
                     \/ \E n \in 1..trainer[t].n : applied[<<t, n>>] > 1
                     \/ \E r \in trainer[t].heard : doubts[r] \cap {"named", "broker died"} # {}
    BY DEF AnswerIsForRequest
<1>. ConvTypes /\ DeathsInv /\ AnswersInv
    BY DEF ConversationInv
<1>0. /\ broker_deaths \in Nat /\ applied \in [Requests -> Nat]
      /\ trainer[t].n \in Nat /\ trainer[t].n <= bound.catches
    BY DEF ConvTypes, OtherTypes, TeamTypes, GameCardTypes, TrainerState
<1>1. trainer[t].answer \in trainer[t].heard /\ trainer[t].heard \subseteq Requests
    BY DEF DeathsInv, ConvTypes, TeamTypes, TrainerState
<1>2. broker_deaths = 0 \/ broker_deaths > 0
    BY <1>0
<1>3. broker_deaths > 0 => "broker died" \in doubts[trainer[t].answer]
    BY <1>1 DEF DeathsInv
<1>4. ASSUME NEW n \in 1..trainer[t].n PROVE applied[<<t, n>>] <= 1 \/ applied[<<t, n>>] > 1
    <2>1. bound.catches \in Nat /\ MostRequests \in Nat /\ bound.catches <= MostRequests
        BY Bounded DEF ConvTypes, OtherTypes
    <2>2. n \in 1..MostRequests
        BY <1>0, <2>1
    <2>3. <<t, n>> \in Requests
        BY <2>2 DEF Requests
    <2>4. applied[<<t, n>>] \in Nat
        BY <1>0, <2>3
    <2>. QED BY <2>4
<1>5. Clear(t) /\ broker_deaths = 0 => trainer[t].answer = <<t, trainer[t].n>>
    BY DEF AnswersInv, TrainerInv
<1>6. ~Clear(t) => \/ \E n \in 1..trainer[t].n : applied[<<t, n>>] > 1
                   \/ \E r \in trainer[t].heard : "named" \in doubts[r]
    BY <1>4 DEF Clear
<1>. QED BY <1>1, <1>2, <1>3, <1>5, <1>6, Zenon

\* The answer that wakes a trainer is for what it asked last: the ids the broker gives, which the
\* GameCard copies into its answer and obtener_trainer_mensaje looks for, never lead it astray,
\* unless a request of the trainer was done twice, a message the GameBoy gave an id of its own woke
\* it once, or the broker was started again.
THEOREM AnswersAreForRequests == Spec => []AnswerIsForRequest
<1>. QED BY InitConversationInv, NextConversationInv, ConversationInvAnswers, PTL DEF Spec

-----------------------------------------------------------------------------
(* A request is done once.  The GameCard reads a message again only from the *)
(* replay of its second connection, and that replay skips what the first has *)
(* acknowledged; what was read and not acknowledged when the GameCard died    *)
(* was being worked on.                                                      *)

\* The sockets that were listed as receivers.
Receivers ==
    {messages[i].receiver : i \in DOMAIN messages}
        \cup {p.receiver : p \in {q \in publishers : q.pc = "enqueue"}}

\* Until the second connection's thread has overridden the socket all receivers have the first, or
\* none after the broker's death; then what has the first has the one that the replay asks for.
ConnectionsInv ==
    /\ \A g, h \in subscribing : g.socket = h.socket => g = h
    /\ \A h \in subscribing : h.socket >= 2
    /\ reader.pc \in {"connect", "off"} => connection = 0
    /\ ~broker_up => messages = <<>>
    /\ sockets = 1 => Receivers \subseteq {subscriptor}
    /\ sockets = 2 => \A h \in subscribing :
            /\ h.pc = "override" => subscriptor <= 1 /\ Receivers \subseteq {subscriptor}
            /\ h.pc = "replay" => subscriptor = 2 /\ (1 \in Receivers => h.old_socket = 1)

\* No receiver is new where no list is touched.
LEMMA ReceiversStay ==
    ASSUME publishers' \subseteq publishers, UNCHANGED messages \/ messages' = <<>>
    PROVE  Receivers' \subseteq Receivers
BY EmptySeq DEF Receivers

\* A thread of the broker that goes on has its message, and no longer sends it.
LEMMA PublisherMoves ==
    ASSUME BrokerTypes, NEW p \in publishers, SendToSubscriptors(p) \/ ListReceivers(p)
    PROVE  \E q : /\ publishers' = (publishers \ {p}) \cup {q} /\ q.m = p.m
                  /\ SendToSubscriptors(p) => q.pc = "list"
                  /\ ListReceivers(p) => q.pc = "enqueue" /\ q.receiver = subscriptor
                  /\ q.pc # "send"
<1>1. p \in Publisher
    BY DEF BrokerTypes
<1>2. CASE SendToSubscriptors(p)
    <2>1. PICK q : q = [p EXCEPT !.pc = "list", !.sent = subscriptor]
        OBVIOUS
    <2>2. q.m = p.m /\ q.pc = "list"
        BY <1>1, <2>1 DEF Publisher
    <2>3. publishers' = (publishers \ {p}) \cup {q} /\ ~ListReceivers(p)
        BY <1>2, <2>1 DEF SendToSubscriptors, ListReceivers
    <2>. QED BY <2>2, <2>3
<1>3. CASE ListReceivers(p)
    <2>1. PICK q : q = [p EXCEPT !.pc = "enqueue", !.receiver = subscriptor]
        OBVIOUS
    <2>2. q.m = p.m /\ q.pc = "enqueue" /\ q.receiver = subscriptor
        BY <1>1, <2>1 DEF Publisher
    <2>3. publishers' = (publishers \ {p}) \cup {q} /\ ~SendToSubscriptors(p)
        BY <1>3, <2>1 DEF SendToSubscriptors, ListReceivers
    <2>. QED BY <2>2, <2>3
<1>. QED BY <1>2, <1>3

\* A new message is the queue's last, with the receiver that was listed.
LEMMA EnqueueFacts ==
    ASSUME BrokerTypes, NEW p \in publishers, Enqueue(p)
    PROVE  /\ p.pc = "enqueue" /\ publishers' = publishers \ {p}
           /\ DOMAIN messages' = DOMAIN messages \cup {Len(messages) + 1}
           /\ Len(messages) + 1 \notin DOMAIN messages
           /\ \A i \in DOMAIN messages : messages'[i] = messages[i]
           /\ messages'[Len(messages) + 1].m = p.m
           /\ messages'[Len(messages) + 1].receiver = p.receiver
           /\ messages'[Len(messages) + 1].received = FALSE
<1>1. PICK e : e = [m |-> p.m, receiver |-> p.receiver, received |-> FALSE]
    OBVIOUS
<1>2. e.m = p.m /\ e.receiver = p.receiver /\ e.received = FALSE
    BY <1>1
<1>3. /\ p.pc = "enqueue" /\ publishers' = publishers \ {p} /\ messages' = Append(messages, e)
      /\ p \in Publisher /\ p.m.code # "CAUGHT_POKEMON" /\ messages \in Seq(Entry)
    BY <1>1 DEF Enqueue, BrokerTypes
<1>4. e \in Entry
    BY <1>1, <1>3 DEF Entry, Publisher, Caught
<1>. QED BY <1>2, <1>3, <1>4, AppendProperties

\* An acknowledgement marks messages, and leaves them and their receivers as they are.
LEMMA AckFacts ==
    ASSUME BrokerTypes, NEW a, process_message_ack(a)
    PROVE  /\ DOMAIN messages' = DOMAIN messages
           /\ \A i \in DOMAIN messages :
                /\ messages'[i].m = messages[i].m /\ messages'[i].receiver = messages[i].receiver
                /\ messages[i].received => messages'[i].received
                /\ messages[i].m.id = a.id /\ messages[i].receiver = subscriptor =>
                        messages'[i].received
<1>1. messages \in Seq(Entry)
    BY DEF BrokerTypes
<1>2. \A i \in DOMAIN messages : messages[i] \in Entry
    BY <1>1, ElementOfSeq
<1>3. messages' = [i \in DOMAIN messages |->
                        IF messages[i].m.id = a.id /\ messages[i].receiver = subscriptor
                        THEN [messages[i] EXCEPT !.received = TRUE] ELSE messages[i]]
    BY DEF process_message_ack
<1>. QED BY <1>2, <1>3 DEF Entry

\* What sets the socket, and what has it when it is set.
LEMMA OverrideFacts ==
    ASSUME BrokerTypes, NEW h \in subscribing, OverrideSocket(h)
    PROVE  \E g : /\ subscribing' = (subscribing \ {h}) \cup {g}
                  /\ g.socket = h.socket /\ g.pc = "replay"
                  /\ g.old_socket = IF subscriptor = 0 THEN h.socket ELSE subscriptor
                  /\ h.pc = "override" /\ subscriptor' = h.socket
<1>1. PICK old : old = IF subscriptor = 0 THEN h.socket ELSE subscriptor
    OBVIOUS
<1>2. PICK g : g = [h EXCEPT !.pc = "replay", !.old_socket = old]
    OBVIOUS
<1>3. g.socket = h.socket /\ g.pc = "replay" /\ g.old_socket = old
    BY <1>2 DEF BrokerTypes
<1>4. /\ subscribing' = (subscribing \ {h}) \cup {g} /\ h.pc = "override" /\ subscriptor' = h.socket
    BY <1>1, <1>2 DEF OverrideSocket
<1>. QED BY <1>1, <1>3, <1>4

\* Every step keeps ConnectionsInv.
LEMMA NextConnectionsInv ==
    ASSUME TypesInv, ConnectionsInv, [Next]_vars
    PROVE  ConnectionsInv'
<1>0. /\ ConvTypes /\ BrokerTypes /\ ClientTypes /\ SocketsInv /\ IdsInv
      /\ sockets \in Nat /\ subscriptor \in Nat /\ connection \in Nat /\ sockets >= 1
      /\ subscriptor <= sockets
      /\ \A h \in subscribing : h.socket \in Nat /\ h.socket <= sockets /\ h.socket >= 2
      /\ \A h \in subscribing : h.pc \in {"override", "replay"}
    BY DEF TypesInv, ConvTypes, BrokerTypes, ClientTypes, SocketsInv, ConnectionsInv
<1>1. ASSUME UNCHANGED <<sockets, subscriptor, subscribing, broker_up>>,
             reader'.pc \in {"connect", "off"} => connection' = 0,
             messages' = messages \/ (broker_up /\ broker_up'),
             Receivers' \subseteq Receivers
      PROVE  ConnectionsInv'
    BY <1>1 DEF ConnectionsInv
<1>2. ASSUME UNCHANGED <<sockets, subscriptor, subscribing, broker_up, messages, reader, connection>>,
             publishers' \subseteq publishers
      PROVE  ConnectionsInv'
    BY <1>1, <1>2, ReceiversStay DEF ConnectionsInv
<1>3. ASSUME NEW p \in publishers, SendToSubscriptors(p) PROVE ConnectionsInv'
    <2>1. PICK q : publishers' = (publishers \ {p}) \cup {q} /\ q.pc = "list"
        BY <1>0, <1>3, PublisherMoves
    <2>2. UNCHANGED <<sockets, subscriptor, subscribing, broker_up, messages, reader, connection>>
        BY <1>3 DEF SendToSubscriptors
    <2>3. Receivers' \subseteq Receivers
        BY <2>1, <2>2 DEF Receivers
    <2>. QED BY <1>1, <2>2, <2>3 DEF ConnectionsInv
<1>4. ASSUME NEW p \in publishers, ListReceivers(p) PROVE ConnectionsInv'
    <2>1. PICK q : publishers' = (publishers \ {p}) \cup {q} /\ q.receiver = subscriptor
        BY <1>0, <1>4, PublisherMoves
    <2>2. UNCHANGED <<sockets, subscriptor, subscribing, broker_up, messages, reader, connection>>
        BY <1>4 DEF ListReceivers, clientVars
    <2>3. Receivers' \subseteq Receivers \cup {subscriptor}
        BY <2>1, <2>2 DEF Receivers
    <2>. QED BY <2>2, <2>3 DEF ConnectionsInv
<1>5. ASSUME NEW p \in publishers, Enqueue(p) PROVE ConnectionsInv'
    <2>1. /\ p.pc = "enqueue" /\ publishers' = publishers \ {p}
          /\ DOMAIN messages' = DOMAIN messages \cup {Len(messages) + 1}
          /\ \A i \in DOMAIN messages : messages'[i] = messages[i]
          /\ messages'[Len(messages) + 1].receiver = p.receiver
        BY <1>0, <1>5, EnqueueFacts
    <2>2. /\ UNCHANGED <<sockets, subscriptor, subscribing, broker_up, reader, connection>>
          /\ broker_up
        BY <1>0, <1>5 DEF Enqueue, clientVars, IdsInv
    <2>3. Receivers' \subseteq Receivers
        BY <2>1 DEF Receivers
    <2>. QED BY <1>1, <2>2, <2>3 DEF ConnectionsInv
<1>6. ASSUME NEW p \in publishers, SendToTeam(p) PROVE ConnectionsInv'
    BY <1>2, <1>6 DEF SendToTeam, clientVars
<1>7. ASSUME NEW h \in subscribing, OverrideSocket(h) PROVE ConnectionsInv'
    <2>1. PICK g : /\ subscribing' = (subscribing \ {h}) \cup {g}
                   /\ g.socket = h.socket /\ g.pc = "replay"
                   /\ g.old_socket = (IF subscriptor = 0 THEN h.socket ELSE subscriptor)
                   /\ h.pc = "override" /\ subscriptor' = h.socket
        BY <1>0, <1>7, OverrideFacts
    <2>2. UNCHANGED <<sockets, broker_up, messages, publishers, reader, connection>>
        BY <1>7 DEF OverrideSocket, clientVars
    <2>3. Receivers' = Receivers
        BY <2>2 DEF Receivers
    <2>4. \A x, y \in subscribing' : x.socket = y.socket => x = y
        BY <2>1 DEF ConnectionsInv
    <2>5. ASSUME sockets = 2, NEW x \in subscribing'
          PROVE  x = g /\ subscriptor' = 2 /\ (1 \in Receivers' => g.old_socket = 1)
        <3>1. h.socket = 2 /\ (x # g => x.socket = 2)
            BY <1>0, <2>1, <2>5
        <3>2. x = g
            BY <2>1, <2>4, <3>1
        <3>3. subscriptor <= 1 /\ Receivers \subseteq {subscriptor}
            BY <2>1, <2>5 DEF ConnectionsInv
        <3>. QED BY <2>1, <2>3, <3>1, <3>2, <3>3
    <2>6. sockets # 1
        BY <1>0
    <2>. QED BY <1>0, <2>1, <2>2, <2>4, <2>5, <2>6 DEF ConnectionsInv
<1>8. ASSUME NEW h \in subscribing, Replay(h) PROVE ConnectionsInv'
    <2>1. /\ UNCHANGED <<sockets, broker_up, publishers, subscriptor, reader, connection>>
          /\ subscribing' = subscribing \ {h} /\ DOMAIN messages' = DOMAIN messages
        BY <1>8 DEF Replay
    <2>2. broker_up \/ messages' = <<>>
        <3>1. messages = <<>> => messages' = <<>>
            BY <2>1
        <3>. QED BY <3>1 DEF ConnectionsInv
    <2>3. sockets # 1 /\ (sockets = 2 => subscribing' = {})
        <3>1. \A g \in subscribing : sockets = 2 => g.socket = h.socket
            BY <1>0
        <3>. QED BY <1>0, <2>1, <3>1 DEF ConnectionsInv
    <2>. QED BY <2>1, <2>2, <2>3 DEF ConnectionsInv
<1>9. ASSUME NEW a, process_message_ack(a) PROVE ConnectionsInv'
    <2>1. /\ UNCHANGED <<sockets, subscriptor, subscribing, publishers, broker_up, reader, connection>>
          /\ DOMAIN messages' = DOMAIN messages
          /\ \A i \in DOMAIN messages : messages'[i].receiver = messages[i].receiver
        BY <1>0, <1>9, AckFacts DEF process_message_ack, clientVars
    <2>2. Receivers' = Receivers
        BY <2>1 DEF Receivers
    <2>3. ~broker_up => messages' = messages
        <3>1. messages = <<>> => messages' = <<>>
            BY <1>9 DEF process_message_ack
        <3>. QED BY <3>1 DEF ConnectionsInv
    <2>. QED BY <1>1, <2>1, <2>2, <2>3 DEF ConnectionsInv
<1>10. CASE subscribe_to
    <2>1. PICK g : g = [pc |-> "override", socket |-> sockets + 1, old_socket |-> 0]
        OBVIOUS
    <2>2. /\ sockets' = sockets + 1 /\ connection' = sockets + 1 /\ reader.pc = "connect"
          /\ subscribing' = subscribing \cup {g} /\ reader' = [reader EXCEPT !.pc = "recv"]
          /\ UNCHANGED <<subscriptor, broker_up, messages, publishers>>
        BY <1>10, <2>1 DEF subscribe_to
    <2>3. reader'.pc = "recv"
        BY <1>0, <2>2 DEF ClientTypes
    <2>4. g.socket = sockets + 1 /\ g.pc = "override"
        BY <2>1
    <2>5. Receivers' = Receivers
        BY <2>2 DEF Receivers
    <2>6. \A h \in subscribing : h.socket # g.socket
        BY <1>0, <2>4
    <2>7. sockets = 1 => subscribing = {} /\ Receivers \subseteq {subscriptor} /\ subscriptor <= 1
        BY <1>0 DEF ConnectionsInv
    <2>8. g.socket >= 2 /\ sockets' # 1 /\ (sockets' = 2 => sockets = 1)
        BY <1>0, <2>2, <2>4
    <2>9. \A x, y \in subscribing' : x.socket = y.socket => x = y
        BY <2>2, <2>6 DEF ConnectionsInv
    <2>10. sockets' = 2 => \A h \in subscribing' : h = g
        BY <2>2, <2>7, <2>8
    <2>. QED BY <1>0, <2>2, <2>3, <2>4, <2>5, <2>7, <2>8, <2>9, <2>10 DEF ConnectionsInv
<1>11. CASE handle_event \/ send_message_received_to_broker \/ Disconnected
    <2>1. /\ reader'.pc \notin {"connect", "off"}
          /\ UNCHANGED <<sockets, subscriptor, subscribing, broker_up, messages, publishers>>
        BY <1>0, <1>11 DEF handle_event, send_message_received_to_broker, Disconnected, brokerVars,
               ClientTypes
    <2>. QED BY <1>1, <2>1, ReceiversStay
<1>12. CASE \E m \in direct : AckDirect(m)
    BY <1>2, <1>12 DEF AckDirect, clientVars
<1>13. CASE \E h \in DOMAIN threads : Apply(h)
    BY <1>2, <1>13 DEF Apply, clientVars, brokerVars
<1>14. ASSUME NEW m, Accepts(m),
              UNCHANGED <<sockets, subscriptor, subscribing, messages, reader, connection>>
       PROVE  ConnectionsInv'
    <2>1. PICK q : q = NewPublisher(m)
        OBVIOUS
    <2>2. /\ broker_up /\ broker_up'
          /\ publishers' = publishers \/ (publishers' = publishers \cup {q} /\ q.pc = "send")
        BY <1>14, <2>1 DEF Accepts
    <2>3. Receivers' \subseteq Receivers
        BY <1>14, <2>2 DEF Receivers
    <2>. QED BY <1>1, <1>14, <2>2, <2>3 DEF ConnectionsInv
<1>15. CASE \E h \in DOMAIN threads : SendAnswer(h)
    <2>1. PICK h \in DOMAIN threads : SendAnswer(h)
        BY <1>15
    <2>2. UNCHANGED <<sockets, subscriptor, subscribing, messages, reader, connection, broker_up>>
        BY <2>1 DEF SendAnswer, clientVars
    <2>3. CASE broker_up
        <3>1. Accept(FromHandler(h)) /\ FromHandler(h) \in MessageRecord
            <4>1. h \in HandlerState /\ OtherTypes
                BY <1>0 DEF ConvTypes, GameCardTypes
            <4>. QED BY <2>1, <2>3, <4>1, HandlerSends DEF SendAnswer, FromHandler
        <3>2. Accepts(FromHandler(h))
            BY <1>0, <2>2, <2>3, <3>1, AcceptFacts DEF Accepts
        <3>. QED BY <1>14, <2>2, <3>2
    <2>4. CASE ~broker_up
        BY <1>2, <2>1, <2>2, <2>4 DEF SendAnswer
    <2>. QED BY <2>3, <2>4
<1>16. CASE GameBoyToBroker
    <2>1. /\ UNCHANGED <<sockets, subscriptor, subscribing, messages, reader, connection, broker_up>>
          /\ broker_up => Accept(FromGameBoy)
          /\ ~broker_up => publishers' = publishers
          /\ told < bound.commands
        BY <1>16 DEF GameBoyToBroker, clientVars, FromGameBoy
    <2>2. OtherTypes
        BY <1>0 DEF ConvTypes
    <2>3. broker_up => Accepts(FromGameBoy)
        BY <1>0, <2>1, <2>2, GameBoySends, AcceptFacts DEF Accepts
    <2>. QED BY <1>2, <1>14, <2>1, <2>3
<1>17. CASE \E t \in Trainers : catch_pokemon(t)
    <2>1. PICK t \in Trainers : catch_pokemon(t)
        BY <1>17
    <2>2. /\ UNCHANGED <<sockets, subscriptor, subscribing, messages, reader, connection, broker_up>>
          /\ broker_up => Accept(FromTrainer(t))
          /\ ~broker_up => publishers' = publishers
          /\ Cardinality(Catches) < bound.catches
        BY <1>0, <2>1, AskingFacts DEF catch_pokemon, TeamFrame, clientVars
    <2>3. broker_up => Accepts(FromTrainer(t))
        BY <1>0, <2>2, TrainerSends, AcceptFacts DEF Accepts
    <2>. QED BY <1>2, <1>14, <2>2, <2>3
<1>18. CASE TeamThreads
    BY <1>2, <1>18 DEF TeamThreads, receive_message_id, wait_catch, handle_caught, TeamFrame, clientVars
<1>19. CASE \E id \in bound.ids : GameBoyToGameCard(id)
    BY <1>2, <1>19 DEF GameBoyToGameCard, brokerVars, clientVars
<1>20. CASE GameCardDies \/ GameCardStarts
    <2>1. /\ UNCHANGED <<sockets, subscriptor, subscribing, broker_up, messages, publishers>>
          /\ reader'.pc \in {"connect", "off"} => connection' = 0
        BY <1>0, <1>20 DEF GameCardDies, GameCardStarts, brokerVars, ConnectionsInv, SocketsInv
    <2>. QED BY <1>1, <2>1, ReceiversStay
<1>21. CASE BrokerDies
    <2>1. /\ publishers' = {} /\ messages' = <<>> /\ subscribing' = {} /\ subscriptor' = 0
          /\ connection' = 0 /\ sockets' = sockets
        BY <1>21 DEF BrokerDies
    <2>2. Receivers' = {}
        BY <2>1, EmptySeq DEF Receivers
    <2>. QED BY <2>1, <2>2 DEF ConnectionsInv
<1>22. CASE BrokerStarts
    <2>1. /\ UNCHANGED <<sockets, subscriptor, subscribing, messages, publishers, reader, connection>>
          /\ messages = <<>> /\ broker_up'
        BY <1>22 DEF BrokerStarts, clientVars, ConnectionsInv
    <2>2. Receivers' = Receivers
        BY <2>1 DEF Receivers
    <2>. QED BY <2>1, <2>2 DEF ConnectionsInv
<1>23. CASE UNCHANGED vars
    BY <1>2, <1>23 DEF vars, brokerVars, clientVars
<1>24. Broker => ConnectionsInv'
    BY <1>3, <1>4, <1>5, <1>6, <1>7, <1>8, <1>9 DEF Broker
<1>25. Client => ConnectionsInv'
    BY <1>10, <1>11 DEF Client
<1>26. Handlers => ConnectionsInv'
    BY <1>12, <1>13, <1>15 DEF Handlers, BagToSet
<1>. QED BY <1>16, <1>17, <1>18, <1>19, <1>20, <1>21, <1>22, <1>23, <1>24, <1>25, <1>26 DEF Next

\* Where r is: in the broker's threads, in the queue, on its way to the GameCard, in a handler.
Asking(r) == {p \in publishers : p.m.code = bound.code /\ p.m.request = r}
Queueing(r) == {i \in DOMAIN messages : messages[i].m.request = r}
Incoming(r) == {i \in DOMAIN inbox : inbox[i].request = r}
Applying(r) == {h \in DOMAIN threads : h.pc = "apply" /\ h.m.request = r}

\* The GameCard has read r; it has not, and is not about to.
Done(r) == Applying(r) # {} \/ applied[r] > 0
Unread(r) == Incoming(r) = {} /\ Applying(r) = {} /\ applied[r] = 0

\* The acknowledgement of r's message is on its way; it has come.
Acking(r, id) ==
    \/ reader.pc = "ack" /\ reader.m.request = r /\ reader.m.id = id
    \/ \E a \in DOMAIN acks : a.request = r /\ a.id = id
Acked(i) == messages[i].receiver = 1 /\ messages[i].received

\* The broker has one message for it, once it was asked.
OneCopy(r) ==
    /\ \A p, q \in Asking(r) : p = q
    /\ \A i, j \in Queueing(r) : i = j
    /\ Asking(r) = {} \/ Queueing(r) = {}
    /\ ~Asked(r) => Asking(r) = {} /\ Queueing(r) = {} /\ Unread(r)

\* The GameCard has it once, and not before it was sent.
OneReading(r) ==
    /\ \A i, j \in Incoming(r) : i = j
    /\ \A g, h \in Applying(r) : g = h /\ threads[h] = 1
    /\ Incoming(r) # {} => ~Done(r)
    /\ Applying(r) # {} => applied[r] = 0
    /\ applied[r] <= 1
    /\ \A p \in Asking(r) : p.pc = "send" => Unread(r)

\* On the first connection what was read is being acknowledged, by the id it has in the broker.
AcksComing(r) ==
    /\ \A p \in Asking(r) :
        /\ \A i \in Incoming(r) : inbox[i].id = p.m.id
        /\ Done(r) => Acking(r, p.m.id)
        /\ p.pc # "send" => Unread(r) \/ subscriptor = 1
    /\ \A q \in Queueing(r) :
        /\ \A i \in Incoming(r) : inbox[i].id = messages[q].m.id
        /\ Done(r) => Acking(r, messages[q].m.id) \/ Acked(q)
        /\ Unread(r) \/ messages[q].receiver = 1

\* The GameCard is coming back: the second connection's replay is still to come.
Returning == reader.pc \in {"connect", "off"} \/ subscribing # {}

\* That replay does not send what was read, unless it was queued in between.
WillSkip(r) ==
    /\ \A p \in Asking(r) :
        p.pc # "send" => Unread(r) \/ (subscriptor = 2 /\ (p.pc = "enqueue" => p.receiver = 2))
    /\ \A q \in Queueing(r) : Unread(r) \/ messages[q].receiver = 2 \/ Acked(q)

\* The excuses of AppliedOnce.
Excused(r) == deaths > 1 \/ doubts[r] \cap {"cut", "early", "raced"} # {}

RequestInv(r) ==
    /\ OneCopy(r)
    /\ ~Excused(r) => /\ OneReading(r)
                      /\ deaths = 0 => AcksComing(r)
                      /\ deaths = 1 /\ Returning => WillSkip(r)

\* What was asked is not forgotten, and what excuses it is not either.
LEMMA AskedStays ==
    ASSUME ConvTypes, [Next]_vars, NEW r \in Requests
    PROVE  (Asked(r) => Asked(r)') /\ (Excused(r) => Excused(r)')
<1>0. /\ OtherTypes /\ TeamTypes /\ told \in Nat /\ deaths \in Nat
      /\ \A t \in Trainers : trainer[t].n \in Nat
      /\ r = <<r[1], r[2]>> /\ r[1] \in {0} \cup Trainers /\ r[2] \in Nat
    <2>1. bound.commands \in Nat /\ MostRequests \in Nat
        BY Bounded DEF ConvTypes, OtherTypes
    <2>. QED BY <2>1 DEF ConvTypes, OtherTypes, TeamTypes, TrainerState, Requests
<1>1. told' \in {told, told + 1} /\ deaths' \in {deaths, deaths + 1}
    BY DEF Next, Broker, SendToSubscriptors, SendToTeam, ListReceivers, Enqueue, OverrideSocket,
           Replay, process_message_ack, Client, subscribe_to, handle_event,
           send_message_received_to_broker, Disconnected, Handlers, AckDirect, Apply, SendAnswer,
           TeamThreads, receive_message_id, wait_catch, handle_caught, GameBoyToBroker,
           GameBoyToGameCard, catch_pokemon, GameCardDies, GameCardStarts, BrokerDies,
           BrokerStarts, TeamFrame, vars, deathVars
<1>2. ASSUME NEW t \in Trainers PROVE trainer'[t].n \in {trainer[t].n, trainer[t].n + 1}
    <2>1. CASE UNCHANGED trainer
        BY <2>1
    <2>2. ASSUME NEW u \in Trainers, receive_message_id(u) \/ wait_catch(u) \/ catch_pokemon(u)
          PROVE  trainer'[t].n \in {trainer[t].n, trainer[t].n + 1}
        BY <2>2, TrainerSteps, AskingFacts DEF OthersStay
    <2>3. ASSUME NEW m \in DOMAIN answers, handle_caught(m)
          PROVE  trainer'[t].n = trainer[t].n
        BY <2>3, AnswerFacts DEF Woken, OthersStay
    <2>. QED BY <2>1, <2>2, <2>3, TrainersMove
<1>3. Asked(r) => Asked(r)'
    BY <1>0, <1>1, <1>2 DEF Asked
<1>4. DoubtsGrow
    <2>1. UNCHANGED vars => DoubtsGrow
        BY <1>0 DEF vars, OtherTypes, DoubtsGrow
    <2>. QED BY <1>0, <2>1, DoubtsMove
<1>5. Excused(r) => Excused(r)'
    BY <1>0, <1>1, <1>4 DEF Excused, DoubtsGrow
<1>. QED BY <1>3, <1>5

\* r has not come anywhere new.
NoneAsks(r) == Asking(r)' \subseteq Asking(r)
NoneQueued(r) ==
    \A i \in Queueing(r)' :
        /\ i \in Queueing(r) /\ messages'[i].m = messages[i].m
        /\ messages'[i].receiver = messages[i].receiver
        /\ messages[i].received => messages'[i].received
NoneSent(r) ==
    \E d \in {0, 1} : \A i \in Incoming(r)' : i + d \in Incoming(r) /\ inbox'[i] = inbox[i + d]
NoneRead(r) ==
    /\ \A h \in Applying(r)' : h \in Applying(r) /\ threads'[h] = threads[h]
    /\ applied'[r] = applied[r]
Nowhere(r) == NoneAsks(r) /\ NoneQueued(r) /\ NoneSent(r) /\ NoneRead(r)

\* No acknowledgement of it was lost.
AcksStay(r) ==
    Done(r) =>
        /\ \A p \in Asking(r)' : Acking(r, p.m.id) => Acking(r, p.m.id)'
        /\ \A i \in Queueing(r)' :
            Acking(r, messages[i].m.id) => Acking(r, messages[i].m.id)' \/ Acked(i)'

\* The socket is as good for r as it was.
SocketStays(r) ==
    \/ Asking(r)' = {}
    \/ subscriptor' = subscriptor
    \/ deaths' = 1 /\ subscriptor # 2

\* A step after which r is nowhere new keeps RequestInv.
LEMMA NowhereKeeps ==
    ASSUME ConvTypes, [Next]_vars, NEW r \in Requests, RequestInv(r), Nowhere(r), deaths' = deaths,
           ~Excused(r)' => /\ deaths = 0 => AcksStay(r)
                           /\ deaths \in {0, 1} => SocketStays(r)
                           /\ deaths = 1 => (Returning' => Returning)
    PROVE  RequestInv(r)'
<1>0. /\ Asked(r) => Asked(r)'
      /\ Excused(r) => Excused(r)'
      /\ applied[r] \in Nat
    BY AskedStays DEF ConvTypes, GameCardTypes
<1>1. PICK A, Q, I, H : A = Asking(r) /\ Q = Queueing(r) /\ I = Incoming(r) /\ H = Applying(r)
    OBVIOUS
<1>2. PICK A1, Q1, I1, H1 : A1 = Asking(r)' /\ Q1 = Queueing(r)' /\ I1 = Incoming(r)' /\ H1 = Applying(r)'
    OBVIOUS
<1>3. /\ A1 \subseteq A
      /\ \A i \in Q1 : /\ i \in Q /\ messages'[i].m = messages[i].m
                       /\ messages'[i].receiver = messages[i].receiver
                       /\ messages[i].received => messages'[i].received
      /\ \A h \in H1 : h \in H /\ threads'[h] = threads[h]
      /\ applied'[r] = applied[r]
    BY <1>1, <1>2, Zenon DEF Nowhere, NoneAsks, NoneQueued, NoneRead
<1>4. PICK d \in {0, 1} : \A i \in I1 : i + d \in I /\ inbox'[i] = inbox[i + d]
    BY <1>1, <1>2, Zenon DEF Nowhere, NoneSent
<1>5. \A i \in I1 : i \in Nat
    <2>1. \A i \in I1 : i \in DOMAIN inbox'
        BY <1>2 DEF Incoming
    <2>2. inbox' \in Seq(Queued')
        BY NextConvTypes DEF ConvTypes, ClientTypes
    <2>3. DOMAIN inbox' = 1..Len(inbox') /\ Len(inbox') \in Nat
        BY <2>2, LenProperties
    <2>. QED BY <2>1, <2>3
<1>6. /\ Unread(r) => Unread(r)'
      /\ Done(r)' => Done(r)
    BY <1>1, <1>2, <1>3, <1>4 DEF Unread, Done
<1>7. OneCopy(r)'
    <2>1. /\ \A p, q \in A : p = q
          /\ \A i, j \in Q : i = j
          /\ A = {} \/ Q = {}
          /\ ~Asked(r) => A = {} /\ Q = {} /\ Unread(r)
        BY <1>1 DEF RequestInv, OneCopy
    <2>2. /\ \A p, q \in A1 : p = q
          /\ \A i, j \in Q1 : i = j
          /\ A1 = {} \/ Q1 = {}
          /\ ~Asked(r)' => A1 = {} /\ Q1 = {} /\ Unread(r)'
        BY <1>0, <1>3, <1>6, <2>1
    <2>. QED BY <1>2, <2>2, Zenon DEF OneCopy
<1>8. CASE Excused(r)'
    BY <1>7, <1>8 DEF RequestInv
<1>9. CASE ~Excused(r)'
    <2>0. ~Excused(r)
        BY <1>0, <1>9
    <2>1. OneReading(r)'
        <3>1. /\ \A i, j \in I : i = j
              /\ \A g, h \in H : g = h /\ threads[h] = 1
              /\ I # {} => ~Done(r)
              /\ H # {} => applied[r] = 0
              /\ applied[r] <= 1
              /\ \A p \in A : p.pc = "send" => Unread(r)
            BY <1>1, <2>0 DEF RequestInv, OneReading
        <3>2. \A i, j \in I1 : i = j
            BY <1>4, <1>5, <3>1
        <3>3. /\ \A g, h \in H1 : g = h /\ threads'[h] = 1
              /\ I1 # {} => ~Done(r)'
              /\ H1 # {} => applied'[r] = 0
              /\ applied'[r] <= 1
              /\ \A p \in A1 : p.pc = "send" => Unread(r)'
            BY <1>3, <1>4, <1>6, <3>1
        <3>. QED BY <1>2, <3>2, <3>3, Zenon DEF OneReading
    <2>2. ASSUME deaths = 0 PROVE AcksComing(r)'
        <3>1. /\ \A p \in A : /\ \A i \in I : inbox[i].id = p.m.id
                              /\ Done(r) => Acking(r, p.m.id)
                              /\ p.pc # "send" => Unread(r) \/ subscriptor = 1
              /\ \A q \in Q : /\ \A i \in I : inbox[i].id = messages[q].m.id
                              /\ Done(r) => Acking(r, messages[q].m.id) \/ Acked(q)
                              /\ Unread(r) \/ messages[q].receiver = 1
            BY <1>1, <2>0, <2>2 DEF RequestInv, AcksComing
        <3>2. Done(r) =>
                /\ \A p \in A1 : Acking(r, p.m.id) => Acking(r, p.m.id)'
                /\ \A i \in Q1 : Acking(r, messages[i].m.id) => Acking(r, messages[i].m.id)' \/ Acked(i)'
            BY <1>2, <1>9, <2>2 DEF AcksStay
        <3>3. \A i \in Q1 : Acked(i) => Acked(i)'
            BY <1>3 DEF Acked
        <3>4. A1 = {} \/ subscriptor' = subscriptor
            BY <1>2, <1>9, <2>2 DEF SocketStays
        <3>5. ASSUME NEW p \in A1
              PROVE  /\ \A i \in I1 : inbox'[i].id = p.m.id
                     /\ Done(r)' => Acking(r, p.m.id)'
                     /\ p.pc # "send" => Unread(r)' \/ subscriptor' = 1
            <4>1. p \in A
                BY <1>3
            <4>2. \A i \in I1 : inbox'[i].id = p.m.id
                BY <1>4, <3>1, <4>1
            <4>. QED BY <1>6, <3>1, <3>2, <3>4, <4>1, <4>2, Zenon
        <3>6. ASSUME NEW q \in Q1
              PROVE  /\ \A i \in I1 : inbox'[i].id = messages'[q].m.id
                     /\ Done(r)' => Acking(r, messages[q].m.id)' \/ Acked(q)'
                     /\ Unread(r)' \/ messages'[q].receiver = 1
            <4>1. q \in Q /\ messages'[q].m = messages[q].m /\ messages'[q].receiver = messages[q].receiver
                BY <1>3
            <4>2. \A i \in I1 : inbox'[i].id = messages'[q].m.id
                BY <1>4, <3>1, <4>1
            <4>3. Done(r)' => Acking(r, messages[q].m.id)' \/ Acked(q)'
                BY <1>6, <3>1, <3>2, <3>3, <4>1, Zenon
            <4>. QED BY <1>6, <3>1, <4>1, <4>2, <4>3
        <3>. QED BY <1>2, <3>5, <3>6, Zenon DEF AcksComing
    <2>3. ASSUME deaths = 1, Returning' PROVE WillSkip(r)'
        <3>1. /\ \A p \in A : p.pc # "send" =>
                    Unread(r) \/ (subscriptor = 2 /\ (p.pc = "enqueue" => p.receiver = 2))
              /\ \A q \in Q : Unread(r) \/ messages[q].receiver = 2 \/ Acked(q)
            <4>1. Returning
                BY <1>9, <2>3
            <4>. QED BY <1>1, <2>0, <2>3, <4>1 DEF RequestInv, WillSkip
        <3>2. A1 = {} \/ subscriptor' = subscriptor \/ subscriptor # 2
            BY <1>2, <1>9, <2>3 DEF SocketStays
        <3>3. \A i \in Q1 : Acked(i) => Acked(i)'
            BY <1>3 DEF Acked
        <3>4. \A p \in A1 : p.pc # "send" =>
                    Unread(r)' \/ (subscriptor' = 2 /\ (p.pc = "enqueue" => p.receiver = 2))
            BY <1>3, <1>6, <3>1, <3>2
        <3>5. \A q \in Q1 : Unread(r)' \/ messages'[q].receiver = 2 \/ Acked(q)'
            BY <1>3, <1>6, <3>1, <3>3
        <3>. QED BY <1>2, <3>4, <3>5, Zenon DEF WillSkip
    <2>. QED BY <1>7, <2>1, <2>2, <2>3, Zenon DEF RequestInv
<1>. QED BY <1>8, <1>9

\* r is nowhere new in what does not change.
LEMMA NowhereNew ==
    ASSUME ConvTypes, [Next]_vars, NEW r
    PROVE  /\ publishers' \subseteq publishers => NoneAsks(r)
           /\ UNCHANGED messages => NoneQueued(r)
           /\ UNCHANGED inbox => NoneSent(r)
           /\ UNCHANGED <<threads, applied>> => NoneRead(r)
           /\ UNCHANGED <<acks, reader>> /\ NoneQueued(r) => AcksStay(r)
           /\ UNCHANGED subscriptor => SocketStays(r)
<1>1. bound' = bound
    BY NextOtherTypes DEF ConvTypes
<1>2. UNCHANGED inbox => NoneSent(r)
    <2>1. \A i \in DOMAIN inbox : i + 0 = i
        <3>1. inbox \in Seq(Queued)
            BY DEF ConvTypes, ClientTypes
        <3>2. DOMAIN inbox = 1..Len(inbox) /\ Len(inbox) \in Nat
            BY <3>1, LenProperties
        <3>. QED BY <3>2
    <2>. QED BY <2>1 DEF NoneSent, Incoming
<1>3. publishers' \subseteq publishers => NoneAsks(r)
    BY <1>1 DEF NoneAsks, Asking
<1>4. UNCHANGED messages => NoneQueued(r)
    BY DEF NoneQueued, Queueing
<1>5. UNCHANGED <<threads, applied>> => NoneRead(r)
    BY DEF NoneRead, Applying
<1>6. UNCHANGED <<acks, reader>> /\ NoneQueued(r) => AcksStay(r)
    <2>. SUFFICES ASSUME UNCHANGED <<acks, reader>>, NoneQueued(r) PROVE AcksStay(r)
        OBVIOUS
    <2>1. \A id : Acking(r, id) => \/ reader'.pc = "ack" /\ reader'.m.request = r /\ reader'.m.id = id
                                   \/ \E a \in DOMAIN acks' : a.request = r /\ a.id = id
        BY DEF Acking
    <2>2. \A i \in Queueing(r)' : messages'[i].m.id = messages[i].m.id
        BY DEF NoneQueued
    <2>3. \A p \in Asking(r)' : Acking(r, p.m.id) => Acking(r, p.m.id)'
        BY <2>1 DEF Acking
    <2>4. \A i \in Queueing(r)' : Acking(r, messages[i].m.id) => Acking(r, messages[i].m.id)'
        BY <2>1, <2>2 DEF Acking
    <2>. QED BY <2>3, <2>4 DEF AcksStay
<1>7. UNCHANGED subscriptor => SocketStays(r)
    BY DEF SocketStays
<1>. QED BY <1>2, <1>3, <1>4, <1>5, <1>6, <1>7

\* The broker's step for a message of another request.
LEMMA OthersMove ==
    ASSUME TypesInv, [Next]_vars, NEW r \in Requests, RequestInv(r), NEW p \in publishers,
           SendToSubscriptors(p) \/ ListReceivers(p) \/ Enqueue(p), p.m.request # r
    PROVE  RequestInv(r)'
<1>0. ConvTypes /\ BrokerTypes /\ ClientTypes
    BY DEF TypesInv, ConvTypes
<1>1. /\ UNCHANGED <<threads, applied, acks, reader, subscriptor, subscribing, deaths>>
      /\ UNCHANGED messages \/ Enqueue(p)
      /\ UNCHANGED inbox \/ SendToSubscriptors(p)
    BY DEF SendToSubscriptors, ListReceivers, Enqueue, clientVars, gamecardVars, deathVars
<1>2. NoneAsks(r)
    <2>1. \A q \in publishers' : q \in publishers \/ q.m = p.m
        BY <1>0, PublisherMoves DEF Enqueue
    <2>2. bound' = bound
        BY <1>0, NextOtherTypes DEF ConvTypes
    <2>. QED BY <2>1, <2>2 DEF NoneAsks, Asking
<1>3. NoneQueued(r)
    <2>1. CASE UNCHANGED messages
        BY <1>0, <2>1, NowhereNew
    <2>2. CASE Enqueue(p)
        BY <1>0, <2>2, EnqueueFacts DEF NoneQueued, Queueing
    <2>. QED BY <1>1, <2>1, <2>2
<1>4. NoneSent(r)
    <2>1. CASE UNCHANGED inbox
        BY <1>0, <2>1, NowhereNew
    <2>2. CASE SendToSubscriptors(p)
        <3>1. inbox' \in {inbox, Append(inbox, p.m)} /\ inbox \in Seq(Queued)
            BY <1>0, <2>2 DEF SendToSubscriptors, ClientTypes
        <3>2. p.m \in Queued /\ DOMAIN inbox = 1..Len(inbox) /\ Len(inbox) \in Nat
            BY <1>0, <2>2, <3>1, LenProperties DEF BrokerTypes, Publisher, SendToSubscriptors, Queued, Caught
        <3>3. CASE inbox' = Append(inbox, p.m)
            <4>1. /\ DOMAIN inbox' = DOMAIN inbox \cup {Len(inbox) + 1}
                  /\ \A i \in DOMAIN inbox : inbox'[i] = inbox[i] /\ i + 0 = i
                  /\ inbox'[Len(inbox) + 1] = p.m
                BY <3>1, <3>2, <3>3, AppendProperties
            <4>. QED BY <4>1 DEF NoneSent, Incoming
        <3>. QED BY <1>0, <3>1, <3>3, NowhereNew
    <2>. QED BY <1>1, <2>1, <2>2
<1>5. NoneRead(r) /\ AcksStay(r) /\ SocketStays(r)
    BY <1>0, <1>1, <1>3, NowhereNew
<1>6. Returning' => Returning
    BY <1>1 DEF Returning
<1>. QED BY <1>0, <1>1, <1>2, <1>3, <1>4, <1>5, <1>6, NowhereKeeps DEF Nowhere

\* The only thread of the broker at work on r, and what that says of r.
LEMMA OnlyThread ==
    ASSUME ConvTypes, NEW r \in Requests, RequestInv(r), NEW p \in Asking(r)
    PROVE  Asking(r) = {p} /\ Queueing(r) = {} /\ Asked(r)
BY DEF RequestInv, OneCopy

\* The broker sends r to the GameCard, which has not read it.
LEMMA SendKeeps ==
    ASSUME TypesInv, ConnectionsInv, [Next]_vars, NEW r \in Requests, RequestInv(r),
           NEW p \in Asking(r), SendToSubscriptors(p)
    PROVE  RequestInv(r)'
<1>0. ConvTypes /\ BrokerTypes /\ ClientTypes /\ SocketsInv /\ p \in publishers
    BY DEF TypesInv, ConvTypes, Asking
<1>1. Asking(r) = {p} /\ Queueing(r) = {} /\ Asked(r)
    BY <1>0, OnlyThread
<1>2. /\ UNCHANGED <<threads, applied, acks, reader, subscriptor, subscribing, deaths, messages, bound>>
      /\ p.pc = "send"
      /\ inbox' = IF connection # 0 /\ connection = subscriptor THEN Append(inbox, p.m) ELSE inbox
    BY DEF SendToSubscriptors, gamecardVars, deathVars
<1>3. PICK q : publishers' = (publishers \ {p}) \cup {q} /\ q.m = p.m /\ q.pc = "list"
    BY <1>0, PublisherMoves
<1>4. Asking(r)' = {q} /\ Queueing(r)' = {}
    BY <1>1, <1>2, <1>3 DEF Asking, Queueing
<1>5. OneCopy(r)'
    <2>1. Asked(r)'
        BY <1>0, <1>1, AskedStays
    <2>. QED BY <1>4, <2>1 DEF OneCopy
<1>6. CASE Excused(r)'
    BY <1>5, <1>6 DEF RequestInv
<1>7. CASE ~Excused(r)'
    <2>1. ~Excused(r)
        BY <1>0, <1>7, AskedStays
    <2>2. Unread(r)
        BY <1>2, <2>1 DEF RequestInv, OneReading
    <2>3. Applying(r)' = {} /\ applied'[r] = 0 /\ ~Done(r)'
        BY <1>2, <2>2 DEF Unread, Applying, Done
    <2>4. PICK n : /\ \A i \in Incoming(r)' : i = n /\ inbox'[i] = p.m
                   /\ Incoming(r)' = {} \/ (connection # 0 /\ connection = subscriptor)
        <3>1. inbox \in Seq(Queued) /\ DOMAIN inbox = 1..Len(inbox) /\ Len(inbox) \in Nat
            BY <1>0, LenProperties DEF ClientTypes
        <3>2. p.m \in Queued
            BY <1>0 DEF BrokerTypes, Publisher, Asking, Queued, Caught
        <3>3. CASE inbox' = inbox
            BY <2>2, <3>3 DEF Incoming, Unread
        <3>4. CASE inbox' = Append(inbox, p.m) /\ connection # 0 /\ connection = subscriptor
            <4>1. /\ DOMAIN inbox' = DOMAIN inbox \cup {Len(inbox) + 1}
                  /\ \A i \in DOMAIN inbox : inbox'[i] = inbox[i]
                  /\ inbox'[Len(inbox) + 1] = p.m
                BY <3>1, <3>2, <3>4, AppendProperties
            <4>2. \A i \in Incoming(r)' : i = Len(inbox) + 1 /\ inbox'[i] = p.m
                BY <2>2, <4>1 DEF Incoming, Unread
            <4>. QED BY <3>4, <4>2
        <3>. QED BY <1>2, <3>3, <3>4
    <2>5. OneReading(r)'
        BY <1>3, <1>4, <2>3, <2>4 DEF OneReading
    <2>6. Incoming(r)' = {} => Unread(r)'
        BY <2>3 DEF Unread
    <2>7. ASSUME deaths = 0 PROVE AcksComing(r)'
        <3>1. sockets = 1 /\ connection \in {0, sockets}
            BY <1>0, <2>7 DEF SocketsInv, ConvTypes, ClientTypes
        <3>2. Incoming(r)' = {} \/ subscriptor' = 1
            BY <1>2, <2>4, <3>1
        <3>. QED BY <1>3, <1>4, <2>3, <2>4, <2>6, <3>2 DEF AcksComing
    <2>8. ASSUME deaths = 1, Returning' PROVE WillSkip(r)'
        <3>1. Returning
            BY <1>2, <2>8 DEF Returning
        <3>2. connection # 0 => sockets = 2 /\ connection = 2
            <4>1. sockets \in Nat /\ sockets <= 2 /\ connection \in {0, sockets}
                BY <1>0, <2>8 DEF SocketsInv, ConvTypes, ClientTypes
            <4>2. connection # 0 => subscribing # {}
                BY <3>1 DEF Returning, ConnectionsInv
            <4>3. subscribing # {} => sockets >= 2
                <5>1. \A h \in subscribing : h.socket \in Nat /\ h.socket >= 2 /\ h.socket <= sockets
                    BY <1>0 DEF ConnectionsInv, SocketsInv, BrokerTypes
                <5>. QED BY <4>1, <5>1
            <4>. QED BY <4>1, <4>2, <4>3
        <3>3. Incoming(r)' = {} \/ subscriptor' = 2
            BY <1>2, <2>4, <3>2
        <3>. QED BY <1>3, <1>4, <2>6, <3>3 DEF WillSkip
    <2>9. deaths' = deaths
        BY <1>2
    <2>. QED BY <1>5, <2>5, <2>7, <2>8, <2>9 DEF RequestInv
<1>. QED BY <1>6, <1>7

\* Where r is, but for the broker, is the same.
LEMMA SameReading ==
    ASSUME NEW r, UNCHANGED <<inbox, threads, applied>>
    PROVE  /\ Incoming(r)' = Incoming(r) /\ Applying(r)' = Applying(r)
           /\ Unread(r)' <=> Unread(r)
           /\ Done(r)' <=> Done(r)
BY DEF Incoming, Applying, Unread, Done

\* The broker lists r's receiver, the subscriptor of the moment.
LEMMA ListKeeps ==
    ASSUME TypesInv, [Next]_vars, NEW r \in Requests, RequestInv(r),
           NEW p \in Asking(r), ListReceivers(p)
    PROVE  RequestInv(r)'
<1>0. ConvTypes /\ BrokerTypes /\ p \in publishers
    BY DEF TypesInv, ConvTypes, Asking
<1>1. Asking(r) = {p} /\ Queueing(r) = {} /\ Asked(r)
    BY <1>0, OnlyThread
<1>2. /\ UNCHANGED <<threads, applied, acks, reader, subscriptor, subscribing, deaths, messages,
                     inbox, bound>>
      /\ p.pc = "list"
    BY DEF ListReceivers, clientVars, gamecardVars, deathVars
<1>3. PICK q : /\ publishers' = (publishers \ {p}) \cup {q} /\ q.m = p.m /\ q.pc = "enqueue"
               /\ q.receiver = subscriptor
    BY <1>0, PublisherMoves
<1>4. Asking(r)' = {q} /\ Queueing(r)' = {}
    BY <1>1, <1>2, <1>3 DEF Asking, Queueing
<1>5. OneCopy(r)'
    <2>1. Asked(r)'
        BY <1>0, <1>1, AskedStays
    <2>. QED BY <1>4, <2>1 DEF OneCopy
<1>6. CASE Excused(r)'
    BY <1>5, <1>6 DEF RequestInv
<1>7. CASE ~Excused(r)'
    <2>1. ~Excused(r)
        BY <1>0, <1>7, AskedStays
    <2>2. /\ Incoming(r)' = Incoming(r) /\ Applying(r)' = Applying(r)
          /\ Unread(r)' <=> Unread(r)
          /\ Done(r)' <=> Done(r)
        BY <1>2, SameReading
    <2>3. OneReading(r)'
        <3>1. OneReading(r)
            BY <2>1 DEF RequestInv
        <3>2. Incoming(r)' = Incoming(r) /\ applied'[r] = applied[r] /\ threads' = threads
            BY <1>2, <2>2
        <3>3. \A x \in Asking(r)' : x.pc # "send"
            BY <1>3, <1>4
        <3>. QED BY <2>2, <3>1, <3>2, <3>3 DEF OneReading
    <2>4. ASSUME deaths = 0 PROVE AcksComing(r)'
        <3>1. /\ \A i \in Incoming(r) : inbox[i].id = p.m.id
              /\ Done(r) => Acking(r, p.m.id)
              /\ Unread(r) \/ subscriptor = 1
            BY <1>1, <1>2, <2>1, <2>4 DEF RequestInv, AcksComing
        <3>2. Acking(r, p.m.id) => \/ reader'.pc = "ack" /\ reader'.m.request = r /\ reader'.m.id = q.m.id
                                   \/ \E a \in DOMAIN acks' : a.request = r /\ a.id = q.m.id
            BY <1>2, <1>3 DEF Acking
        <3>. QED BY <1>2, <1>3, <1>4, <2>2, <3>1, <3>2 DEF AcksComing, Acking
    <2>5. ASSUME deaths = 1, Returning' PROVE WillSkip(r)'
        <3>1. Returning
            BY <1>2, <2>5 DEF Returning
        <3>2. Unread(r) \/ subscriptor = 2
            BY <1>1, <1>2, <2>1, <2>5, <3>1 DEF RequestInv, WillSkip
        <3>. QED BY <1>2, <1>3, <1>4, <2>2, <3>2 DEF WillSkip
    <2>6. deaths' = deaths
        BY <1>2
    <2>. QED BY <1>5, <2>3, <2>4, <2>5, <2>6 DEF RequestInv
<1>. QED BY <1>6, <1>7

\* The broker puts r on the queue.
LEMMA EnqueueKeeps ==
    ASSUME TypesInv, ConnectionsInv, [Next]_vars, NEW r \in Requests, RequestInv(r),
           NEW p \in Asking(r), Enqueue(p)
    PROVE  RequestInv(r)'
<1>0. ConvTypes /\ BrokerTypes /\ SocketsInv /\ p \in publishers /\ p.m.request = r
    BY DEF TypesInv, ConvTypes, Asking
<1>1. Asking(r) = {p} /\ Queueing(r) = {} /\ Asked(r)
    BY <1>0, OnlyThread
<1>2. UNCHANGED <<threads, applied, acks, reader, subscriptor, subscribing, deaths, inbox, bound>>
    BY DEF Enqueue, clientVars, gamecardVars, deathVars
<1>3. PICK n : /\ p.pc = "enqueue" /\ publishers' = publishers \ {p}
               /\ DOMAIN messages' = DOMAIN messages \cup {n} /\ n \notin DOMAIN messages
               /\ \A i \in DOMAIN messages : messages'[i] = messages[i]
               /\ messages'[n].m = p.m /\ messages'[n].receiver = p.receiver
    BY <1>0, EnqueueFacts
<1>4. Asking(r)' = {} /\ Queueing(r)' = {n}
    BY <1>0, <1>1, <1>2, <1>3 DEF Asking, Queueing
<1>5. OneCopy(r)'
    <2>1. Asked(r)'
        BY <1>0, <1>1, AskedStays
    <2>. QED BY <1>4, <2>1 DEF OneCopy
<1>6. CASE Excused(r)'
    BY <1>5, <1>6 DEF RequestInv
<1>7. CASE ~Excused(r)'
    <2>1. ~Excused(r)
        BY <1>0, <1>7, AskedStays
    <2>2. /\ Incoming(r)' = Incoming(r) /\ Applying(r)' = Applying(r)
          /\ Unread(r)' <=> Unread(r)
          /\ Done(r)' <=> Done(r)
        BY <1>2, SameReading
    <2>3. OneReading(r)'
        <3>1. OneReading(r)
            BY <2>1 DEF RequestInv
        <3>2. Incoming(r)' = Incoming(r) /\ applied'[r] = applied[r] /\ threads' = threads
            BY <1>2, <2>2
        <3>. QED BY <1>4, <2>2, <3>1, <3>2 DEF OneReading
    <2>4. ASSUME deaths = 0 PROVE AcksComing(r)'
        <3>1. /\ \A i \in Incoming(r) : inbox[i].id = p.m.id
              /\ Done(r) => Acking(r, p.m.id)
              /\ Unread(r) \/ subscriptor = 1
            BY <1>1, <1>3, <2>1, <2>4 DEF RequestInv, AcksComing
        <3>2. p.receiver = subscriptor
            <4>1. sockets = 1
                BY <1>0, <2>4 DEF SocketsInv, ConvTypes, ClientTypes
            <4>2. p.receiver \in Receivers
                BY <1>0, <1>3 DEF Receivers
            <4>. QED BY <4>1, <4>2 DEF ConnectionsInv
        <3>3. Acking(r, p.m.id) =>
                \/ reader'.pc = "ack" /\ reader'.m.request = r /\ reader'.m.id = messages'[n].m.id
                \/ \E a \in DOMAIN acks' : a.request = r /\ a.id = messages'[n].m.id
            BY <1>2, <1>3 DEF Acking
        <3>. QED BY <1>2, <1>3, <1>4, <2>2, <3>1, <3>2, <3>3 DEF AcksComing, Acking
    <2>5. ASSUME deaths = 1, Returning' PROVE WillSkip(r)'
        <3>1. Returning
            BY <1>2, <2>5 DEF Returning
        <3>2. Unread(r) \/ p.receiver = 2
            BY <1>1, <1>3, <2>1, <2>5, <3>1 DEF RequestInv, WillSkip
        <3>. QED BY <1>3, <1>4, <2>2, <3>2 DEF WillSkip
    <2>6. deaths' = deaths
        BY <1>2
    <2>. QED BY <1>5, <2>3, <2>4, <2>5, <2>6 DEF RequestInv
<1>. QED BY <1>6, <1>7

\* The steps of the broker's other threads, but for a replay.
LEMMA BrokerKeeps ==
    ASSUME TypesInv, ConnectionsInv, [Next]_vars, NEW r \in Requests, RequestInv(r),
           \/ \E p \in publishers : SendToTeam(p)
           \/ \E h \in subscribing : OverrideSocket(h)
           \/ \E a \in DOMAIN acks : process_message_ack(a)
    PROVE  RequestInv(r)'
<1>0. ConvTypes /\ BrokerTypes /\ ClientTypes /\ SocketsInv
    BY DEF TypesInv, ConvTypes
<1>1. ASSUME NEW p \in publishers, SendToTeam(p) PROVE RequestInv(r)'
    <2>1. /\ publishers' \subseteq publishers
          /\ UNCHANGED <<messages, inbox, threads, applied, acks, reader, subscriptor, subscribing, deaths>>
        BY <1>1 DEF SendToTeam, clientVars, gamecardVars, deathVars
    <2>2. Nowhere(r) /\ AcksStay(r) /\ SocketStays(r)
        BY <1>0, <2>1, NowhereNew DEF Nowhere
    <2>3. Returning' => Returning
        BY <2>1 DEF Returning
    <2>. QED BY <1>0, <2>1, <2>2, <2>3, NowhereKeeps
<1>2. ASSUME NEW h \in subscribing, OverrideSocket(h) PROVE RequestInv(r)'
    <2>1. /\ UNCHANGED <<publishers, messages, inbox, threads, applied, acks, reader, deaths>>
          /\ h.pc = "override"
        BY <1>2 DEF OverrideSocket, clientVars, gamecardVars, deathVars
    <2>2. Nowhere(r) /\ AcksStay(r)
        BY <1>0, <2>1, NowhereNew DEF Nowhere
    <2>3. Returning
        BY DEF Returning
    <2>4. deaths \in {0, 1} => deaths' = 1 /\ subscriptor # 2
        <3>1. sockets \in Nat /\ h.socket \in Nat /\ h.socket >= 2 /\ h.socket <= sockets /\ sockets <= 1 + deaths
            BY <1>0 DEF SocketsInv, ConnectionsInv, BrokerTypes, ClientTypes, ConvTypes, OtherTypes
        <3>2. deaths \in {0, 1} => deaths = 1 /\ sockets = 2
            BY <3>1
        <3>3. sockets = 2 => subscriptor <= 1
            BY <2>1 DEF ConnectionsInv
        <3>. QED BY <2>1, <3>2, <3>3
    <2>5. deaths \in {0, 1} => SocketStays(r)
        BY <2>4 DEF SocketStays
    <2>. QED BY <1>0, <2>1, <2>2, <2>3, <2>5, NowhereKeeps
<1>3. ASSUME NEW a \in DOMAIN acks, process_message_ack(a) PROVE RequestInv(r)'
    <2>1. /\ UNCHANGED <<publishers, inbox, threads, applied, reader, subscriptor, subscribing, deaths>>
          /\ acks' = acks (-) One(a)
        BY <1>3 DEF process_message_ack, clientVars, gamecardVars, deathVars
    <2>2. /\ DOMAIN messages' = DOMAIN messages
          /\ \A i \in DOMAIN messages :
                /\ messages'[i].m = messages[i].m /\ messages'[i].receiver = messages[i].receiver
                /\ messages[i].received => messages'[i].received
                /\ messages[i].m.id = a.id /\ messages[i].receiver = subscriptor =>
                        messages'[i].received
        BY <1>0, <1>3, AckFacts
    <2>3. NoneQueued(r)
        BY <2>2 DEF NoneQueued, Queueing
    <2>4. Nowhere(r) /\ SocketStays(r)
        BY <1>0, <2>1, <2>3, NowhereNew DEF Nowhere
    <2>5. Returning' => Returning
        BY <2>1 DEF Returning
    <2>6. \A x \in DOMAIN acks \ {a} : x \in DOMAIN acks'
        <3>1. IsABag(acks)
            BY <1>0 DEF BrokerTypes
        <3>2. DOMAIN (acks (-) One(a)) = IF acks[a] = 1 THEN DOMAIN acks \ {a} ELSE DOMAIN acks
            BY <3>1, BagRemove
        <3>. QED BY <2>1, <3>2
    <2>7. ASSUME ~Excused(r)', NEW p \in Asking(r)', Acking(r, p.m.id) PROVE Acking(r, p.m.id)'
        <3>1. p \in Asking(r)
            BY <2>4, <2>7 DEF Nowhere, NoneAsks
        <3>2. ~(a.request = r /\ a.id = p.m.id)
            <4>1. SUFFICES ASSUME a.request = r, a.id = p.m.id PROVE "early" \in doubts'[r]
                BY <2>7 DEF Excused
            <4>2. p \in {x \in publishers : x.m.code = bound.code /\ x.m.id = a.id /\ x.m.request = r}
                BY <3>1, <4>1 DEF Asking
            <4>3. doubts' = [x \in Requests |-> doubts[x]
                    \cup {"early" : y \in {y \in publishers : y.m.code = bound.code /\ y.m.id = a.id
                                                             /\ y.m.request = x}}
                    \cup {"forged" : e \in {e \in ToSet(messages) :
                             (e.m.id = a.id /\ e.receiver = subscriptor) /\ e.m.request = x
                              /\ x \notin read}}]
                BY <1>3, Zenon DEF process_message_ack
            <4>4. {"early" : y \in {y \in publishers : y.m.code = bound.code /\ y.m.id = a.id
                                                       /\ y.m.request = r}} \subseteq doubts'[r]
                BY <4>3
            <4>. QED BY <4>2, <4>4
        <3>. QED BY <2>1, <2>6, <2>7, <3>2 DEF Acking
    <2>8. ASSUME ~Excused(r)', deaths = 0, Done(r), NEW i \in Queueing(r)', Acking(r, messages[i].m.id)
          PROVE  Acking(r, messages[i].m.id)' \/ Acked(i)'
        <3>1. i \in Queueing(r) /\ messages'[i].m.id = messages[i].m.id
            BY <2>3, <2>8 DEF NoneQueued
        <3>2. CASE a.request = r /\ a.id = messages[i].m.id
            <4>1. i \in DOMAIN messages
                BY <3>1 DEF Queueing
            <4>2. messages[i].receiver \in Receivers
                BY <4>1 DEF Receivers
            <4>3. sockets = 1 /\ subscriptor \in {0, 1}
                BY <1>0, <2>8 DEF SocketsInv, BrokerTypes, ConvTypes, ClientTypes
            <4>4. messages'[i].received /\ messages[i].receiver = subscriptor
                BY <2>2, <3>2, <4>1, <4>2, <4>3 DEF ConnectionsInv
            <4>5. messages'[i].receiver = subscriptor
                BY <2>2, <4>1, <4>4
            <4>6. subscriptor = 1
                <5>1. ~Excused(r)
                    BY <1>0, <2>8, AskedStays
                <5>2. ~Unread(r)
                    BY <2>8 DEF Unread, Done
                <5>. QED BY <2>8, <3>1, <4>4, <5>1, <5>2 DEF RequestInv, AcksComing
            <4>. QED BY <4>4, <4>5, <4>6 DEF Acked
        <3>3. CASE ~(a.request = r /\ a.id = messages[i].m.id)
            BY <2>1, <2>6, <2>8, <3>1, <3>3 DEF Acking
        <3>. QED BY <3>2, <3>3
    <2>9. ~Excused(r)' /\ deaths = 0 => AcksStay(r)
        BY <2>7, <2>8 DEF AcksStay
    <2>. QED BY <1>0, <2>1, <2>4, <2>5, <2>9, NowhereKeeps
<1>. QED BY <1>1, <1>2, <1>3

\* A step that takes no acknowledgement away.
LEMMA AcksGrow ==
    ASSUME NEW r, NoneQueued(r), DOMAIN acks \subseteq DOMAIN acks',
           reader.pc = "ack" => \/ UNCHANGED reader
                                \/ \E a \in DOMAIN acks' : /\ a.request = reader.m.request
                                                            /\ a.id = reader.m.id
    PROVE  AcksStay(r)
<1>1. \A id : Acking(r, id) => \/ reader'.pc = "ack" /\ reader'.m.request = r /\ reader'.m.id = id
                               \/ \E a \in DOMAIN acks' : a.request = r /\ a.id = id
    BY DEF Acking
<1>2. \A i \in Queueing(r)' : messages'[i].m.id = messages[i].m.id
    BY DEF NoneQueued
<1>3. \A p \in Asking(r)' : Acking(r, p.m.id) => Acking(r, p.m.id)'
    BY <1>1 DEF Acking
<1>4. \A i \in Queueing(r)' : Acking(r, messages[i].m.id) => Acking(r, messages[i].m.id)'
    BY <1>1, <1>2 DEF Acking
<1>. QED BY <1>3, <1>4 DEF AcksStay

\* A broker that is not there has nothing to acknowledge.
LEMMA EmptyBroker ==
    ASSUME NEW r, publishers' = {}, messages' = <<>>
    PROVE  Asking(r)' = {} /\ Queueing(r)' = {} /\ AcksStay(r)
<1>1. DOMAIN messages' = {}
    OBVIOUS
<1>2. Asking(r)' = {} /\ Queueing(r)' = {}
    BY <1>1 DEF Asking, Queueing
<1>. QED BY <1>2, Zenon DEF AcksStay

\* Where a thread for a message of another request is all that is new, r was not read.
LEMMA OtherRead ==
    ASSUME GameCardTypes, NEW r, NEW m \in Queued, m.request # r,
           threads' = threads (+) Thread(m), applied' = applied
    PROVE  NoneRead(r)
<1>1. PICK x : x = Reading(m)
    OBVIOUS
<1>2. x.m = m /\ threads' = threads (+) One(x) /\ IsABag(threads)
    BY <1>1 DEF Reading, Thread, GameCardTypes
<1>3. /\ DOMAIN (threads (+) One(x)) = DOMAIN threads \cup {x}
      /\ \A y \in DOMAIN threads \ {x} : (threads (+) One(x))[y] = threads[y]
    BY <1>2, BagAdd, Zenon
<1>4. \A h \in Applying(r)' : h \in Applying(r) /\ threads'[h] = threads[h]
    <2>. SUFFICES ASSUME NEW h \in Applying(r)' PROVE h \in Applying(r) /\ threads'[h] = threads[h]
        OBVIOUS
    <2>1. h \in DOMAIN threads' /\ h.pc = "apply" /\ h.m.request = r
        BY DEF Applying
    <2>2. h # x /\ h \in DOMAIN threads
        BY <1>2, <1>3, <2>1
    <2>3. threads'[h] = threads[h]
        BY <1>2, <1>3, <2>2
    <2>. QED BY <2>1, <2>2, <2>3 DEF Applying
<1>. QED BY <1>4 DEF NoneRead

\* What is first in the inbox, and where the rest comes from.
LEMMA HeadFacts ==
    ASSUME ClientTypes, inbox # <<>>
    PROVE  /\ Head(inbox) = inbox[1] /\ Head(inbox) \in Queued /\ 1 \in DOMAIN inbox
           /\ \A i \in DOMAIN Tail(inbox) :
                i + 1 \in DOMAIN inbox /\ Tail(inbox)[i] = inbox[i + 1] /\ i + 1 # 1
<1>1. inbox \in Seq(Queued)
    BY DEF ClientTypes
<1>2. DOMAIN inbox = 1..Len(inbox) /\ Len(inbox) \in Nat /\ Len(inbox) # 0
    BY <1>1, LenProperties, EmptySeq
<1>3. Head(inbox) = inbox[1] /\ Head(inbox) \in Queued
    BY <1>1, <1>2, HeadTailProperties
<1>4. /\ Tail(inbox) \in Seq(Queued) /\ Len(Tail(inbox)) = Len(inbox) - 1
      /\ \A i \in 1..Len(Tail(inbox)) : Tail(inbox)[i] = inbox[i + 1]
    BY <1>1, <1>2, HeadTailProperties
<1>5. DOMAIN Tail(inbox) = 1..Len(Tail(inbox))
    BY <1>4, LenProperties
<1>. QED BY <1>2, <1>3, <1>4, <1>5

\* The GameCard reads r: a handler has it, and its acknowledgement is the next that is sent.
LEMMA ReadKeeps ==
    ASSUME TypesInv, [Next]_vars, NEW r \in Requests, RequestInv(r), handle_event,
           Head(inbox).request = r
    PROVE  RequestInv(r)'
<1>0. ConvTypes /\ ClientTypes /\ GameCardTypes
    BY DEF TypesInv, ConvTypes
<1>1. PICK m : m = Head(inbox)
    OBVIOUS
<1>2. /\ reader.pc = "recv" /\ inbox # <<>> /\ inbox' = Tail(inbox)
      /\ reader' = [pc |-> "ack", m |-> m] /\ threads' = threads (+) Thread(m)
      /\ UNCHANGED <<publishers, subscriptor, subscribing, messages, acks, applied, deaths, bound>>
    BY <1>1 DEF handle_event, brokerVars, deathVars
<1>3. /\ m = inbox[1] /\ m \in Queued /\ 1 \in DOMAIN inbox
      /\ \A i \in DOMAIN inbox' :
            i + 1 \in DOMAIN inbox /\ inbox'[i] = inbox[i + 1] /\ i + 1 # 1
    BY <1>0, <1>1, <1>2, HeadFacts
<1>4. 1 \in Incoming(r) /\ ~Unread(r)
    BY <1>1, <1>3 DEF Incoming, Unread
<1>5. OneCopy(r)' /\ Asking(r)' = Asking(r) /\ Queueing(r)' = Queueing(r)
    <2>1. Asked(r)'
        BY <1>0, <1>4, AskedStays DEF RequestInv, OneCopy
    <2>2. Asking(r)' = Asking(r) /\ Queueing(r)' = Queueing(r)
        BY <1>2 DEF Asking, Queueing
    <2>. QED BY <2>1, <2>2 DEF OneCopy, RequestInv
<1>6. CASE Excused(r)'
    BY <1>5, <1>6 DEF RequestInv
<1>7. CASE ~Excused(r)'
    <2>1. ~Excused(r) /\ OneReading(r)
        BY <1>0, <1>7, AskedStays DEF RequestInv
    <2>2. Incoming(r)' = {}
        <3>1. \A i \in Incoming(r) : i = 1
            BY <1>4, <2>1 DEF OneReading
        <3>. QED BY <1>3, <3>1 DEF Incoming
    <2>3. applied[r] = 0 /\ Applying(r) = {}
        BY <1>0, <1>4, <2>1 DEF OneReading, Done, GameCardTypes
    <2>4. PICK x : x = Reading(m)
        OBVIOUS
    <2>5. Applying(r)' = {x} /\ threads'[x] = 1
        <3>1. x.pc = "apply" /\ x.m = m /\ threads' = threads (+) One(x) /\ IsABag(threads)
            BY <1>0, <1>2, <2>4 DEF Reading, Thread, GameCardTypes
        <3>2. /\ DOMAIN threads' = DOMAIN threads \cup {x}
              /\ threads'[x] = IF x \in DOMAIN threads THEN threads[x] + 1 ELSE 1
            BY <3>1, BagAdd
        <3>. QED BY <1>1, <2>3, <3>1, <3>2 DEF Applying
    <2>6. OneReading(r)'
        <3>1. \A p \in Asking(r)' : p.pc # "send"
            BY <1>4, <1>5, <2>1 DEF OneReading
        <3>2. /\ \A i, j \in Incoming(r)' : i = j
              /\ \A g, h \in Applying(r)' : g = h /\ threads'[h] = 1
              /\ Incoming(r)' = {} /\ applied'[r] = 0
            BY <1>2, <2>2, <2>3, <2>5
        <3>. QED BY <3>1, <3>2 DEF OneReading
    <2>7. ASSUME deaths = 0 PROVE AcksComing(r)'
        <3>1. AcksComing(r)
            BY <2>1, <2>7 DEF RequestInv
        <3>2. reader'.pc = "ack" /\ reader'.m.request = r /\ reader'.m.id = inbox[1].id
            BY <1>1, <1>2, <1>3
        <3>3. \A p \in Asking(r)' : Acking(r, p.m.id)' /\ (p.pc # "send" => subscriptor' = 1)
            <4>. SUFFICES ASSUME NEW p \in Asking(r)
                          PROVE  Acking(r, p.m.id)' /\ (p.pc # "send" => subscriptor' = 1)
                BY <1>5
            <4>1. inbox[1].id = p.m.id /\ (p.pc # "send" => subscriptor = 1)
                BY <1>4, <3>1 DEF AcksComing
            <4>. QED BY <1>2, <3>2, <4>1 DEF Acking
        <3>4. \A q \in Queueing(r)' : Acking(r, messages[q].m.id)' /\ messages'[q].receiver = 1
            <4>. SUFFICES ASSUME NEW q \in Queueing(r)
                          PROVE  Acking(r, messages[q].m.id)' /\ messages'[q].receiver = 1
                BY <1>5
            <4>1. inbox[1].id = messages[q].m.id /\ messages[q].receiver = 1
                BY <1>4, <3>1 DEF AcksComing
            <4>. QED BY <1>2, <3>2, <4>1 DEF Acking
        <3>. QED BY <2>2, <3>3, <3>4 DEF AcksComing
    <2>8. ASSUME deaths = 1, Returning' PROVE WillSkip(r)'
        <3>1. Returning
            BY <1>2, <2>8 DEF Returning
        <3>2. WillSkip(r)
            BY <2>1, <2>8, <3>1 DEF RequestInv
        <3>3. /\ \A p \in Asking(r) :
                    p.pc # "send" => subscriptor' = 2 /\ (p.pc = "enqueue" => p.receiver = 2)
              /\ \A q \in Queueing(r) : messages'[q].receiver = 2 \/ Acked(q)'
            BY <1>2, <1>4, <3>2 DEF WillSkip, Acked
        <3>. QED BY <1>5, <3>3 DEF WillSkip
    <2>9. deaths' = deaths
        BY <1>2
    <2>. QED BY <1>5, <2>6, <2>7, <2>8, <2>9 DEF RequestInv
<1>. QED BY <1>6, <1>7

\* The steps of the GameCard's subscription.
LEMMA ClientKeeps ==
    ASSUME TypesInv, ConnectionsInv, [Next]_vars, NEW r \in Requests, RequestInv(r), Client
    PROVE  RequestInv(r)'
<1>0. ConvTypes /\ BrokerTypes /\ ClientTypes /\ GameCardTypes /\ IdsInv
    BY DEF TypesInv, ConvTypes
<1>1. UNCHANGED <<publishers, messages, subscriptor, deaths>> /\ NoneAsks(r) /\ NoneQueued(r) /\ SocketStays(r)
    <2>1. UNCHANGED <<publishers, messages, subscriptor, deaths>>
        BY DEF Client, subscribe_to, handle_event, send_message_received_to_broker, Disconnected,
               brokerVars, deathVars
    <2>. QED BY <1>0, <2>1, NowhereNew
<1>2. CASE subscribe_to \/ Disconnected
    <2>1. /\ UNCHANGED <<inbox, threads, applied, acks>>
          /\ reader.pc # "ack"
          /\ Returning' => Returning
        BY <1>0, <1>2 DEF subscribe_to, Disconnected, gamecardVars, Returning, brokerVars, ClientTypes
    <2>2. NoneSent(r) /\ NoneRead(r) /\ AcksStay(r)
        BY <1>0, <1>1, <2>1, NowhereNew, AcksGrow
    <2>. QED BY <1>0, <1>1, <2>1, <2>2, NowhereKeeps DEF Nowhere
<1>3. CASE send_message_received_to_broker
    <2>1. /\ UNCHANGED <<inbox, threads, applied, subscribing>>
          /\ reader.pc = "ack" /\ reader' = [pc |-> "recv", m |-> NoMessage]
        BY <1>3 DEF send_message_received_to_broker, gamecardVars
    <2>2. NoneSent(r) /\ NoneRead(r)
        BY <1>0, <2>1, NowhereNew
    <2>3. Returning' => Returning
        BY <2>1 DEF Returning
    <2>4. ASSUME broker_up PROVE AcksStay(r)
        <3>1. PICK a : a = [id |-> reader.m.id, request |-> reader.m.request]
            OBVIOUS
        <3>2. acks' = acks (+) One(a) /\ IsABag(acks)
            BY <1>0, <1>3, <2>4, <3>1 DEF send_message_received_to_broker, SendAck, BrokerTypes
        <3>3. DOMAIN acks' = DOMAIN acks \cup {a}
            BY <3>2, BagAdd
        <3>. QED BY <1>1, <3>1, <3>3, AcksGrow
    <2>5. ASSUME ~broker_up PROVE AcksStay(r)
        <3>1. publishers' = {} /\ messages' = <<>>
            BY <1>0, <1>1, <2>5 DEF IdsInv, ConnectionsInv
        <3>. QED BY <3>1, EmptyBroker
    <2>6. AcksStay(r)
        BY <2>4, <2>5
    <2>. QED BY <1>0, <1>1, <2>2, <2>3, <2>6, NowhereKeeps DEF Nowhere
<1>4. CASE handle_event /\ Head(inbox).request # r
    <2>1. PICK m : m = Head(inbox)
        OBVIOUS
    <2>2. /\ reader.pc = "recv" /\ inbox # <<>> /\ inbox' = Tail(inbox)
          /\ reader' = [pc |-> "ack", m |-> m] /\ threads' = threads (+) Thread(m)
          /\ UNCHANGED <<subscribing, acks, applied>>
        BY <1>4, <2>1 DEF handle_event, brokerVars
    <2>3. /\ m \in Queued /\ m.request # r
          /\ \A i \in DOMAIN inbox' : i + 1 \in DOMAIN inbox /\ inbox'[i] = inbox[i + 1]
        BY <1>0, <1>4, <2>1, <2>2, HeadFacts
    <2>4. NoneSent(r)
        BY <2>3 DEF NoneSent, Incoming
    <2>5. NoneRead(r) /\ AcksStay(r)
        BY <1>0, <1>1, <2>2, <2>3, OtherRead, AcksGrow
    <2>6. Returning' => Returning
        BY <2>2 DEF Returning
    <2>. QED BY <1>0, <1>1, <2>4, <2>5, <2>6, NowhereKeeps DEF Nowhere
<1>5. CASE handle_event /\ Head(inbox).request = r
    BY <1>5, ReadKeeps
<1>. QED BY <1>2, <1>3, <1>4, <1>5 DEF Client

\* A handler does what r asks: r was read once, so that is the first time.
LEMMA ApplyOnceKeeps ==
    ASSUME TypesInv, [Next]_vars, NEW r \in Requests, RequestInv(r),
           NEW h \in DOMAIN threads, Apply(h), h.m.request = r
    PROVE  RequestInv(r)'
<1>0. ConvTypes /\ GameCardTypes
    BY DEF TypesInv, ConvTypes
<1>1. UNCHANGED <<publishers, messages, inbox, acks, reader, subscriptor, subscribing, deaths, bound>>
    BY DEF Apply, brokerVars, clientVars, deathVars
<1>2. h \in Applying(r) /\ Done(r) /\ ~Unread(r)
    BY DEF Applying, Done, Unread, Apply
<1>3. OneCopy(r)' /\ Asking(r)' = Asking(r) /\ Queueing(r)' = Queueing(r)
    <2>1. Asked(r)'
        BY <1>0, <1>2, AskedStays DEF RequestInv, OneCopy
    <2>2. Asking(r)' = Asking(r) /\ Queueing(r)' = Queueing(r)
        BY <1>1 DEF Asking, Queueing
    <2>. QED BY <2>1, <2>2 DEF OneCopy, RequestInv
<1>4. CASE Excused(r)'
    BY <1>3, <1>4 DEF RequestInv
<1>5. CASE ~Excused(r)'
    <2>1. ~Excused(r) /\ OneReading(r)
        BY <1>0, <1>5, AskedStays DEF RequestInv
    <2>2. Incoming(r)' = {}
        BY <1>1, <1>2, <2>1 DEF OneReading, Incoming
    <2>3. applied'[r] = 1
        BY <1>0, <1>2, <2>1, ApplyFacts DEF OneReading, GameCardTypes
    <2>4. Applying(r)' = {}
        <3>1. PICK B, x : B = threads (-) One(h) /\ x = Applied(h)
            OBVIOUS
        <3>2. IsABag(B) /\ DOMAIN B = DOMAIN threads \ {h}
            <4>1. threads[h] = 1 /\ IsABag(threads)
                BY <1>0, <1>2, <2>1 DEF OneReading, GameCardTypes
            <4>. QED BY <3>1, <4>1, BagRemove
        <3>3. x.pc = "answer" /\ threads' \in {B, B (+) One(x)}
            BY <1>0, <3>1, ApplyFacts
        <3>4. DOMAIN (B (+) One(x)) = DOMAIN B \cup {x}
            BY <3>2, BagAdd
        <3>5. DOMAIN threads' \subseteq (DOMAIN threads \ {h}) \cup {x}
            BY <3>2, <3>3, <3>4
        <3>6. \A g \in Applying(r) : g = h
            BY <1>2, <2>1 DEF OneReading
        <3>. QED BY <3>3, <3>5, <3>6 DEF Applying
    <2>5. OneReading(r)'
        <3>1. \A p \in Asking(r)' : p.pc # "send"
            BY <1>2, <1>3, <2>1 DEF OneReading
        <3>. QED BY <2>2, <2>3, <2>4, <3>1 DEF OneReading
    <2>6. ASSUME deaths = 0 PROVE AcksComing(r)'
        <3>1. AcksComing(r)
            BY <2>1, <2>6 DEF RequestInv
        <3>2. \A id : Acking(r, id) => \/ reader'.pc = "ack" /\ reader'.m.request = r /\ reader'.m.id = id
                                       \/ \E a \in DOMAIN acks' : a.request = r /\ a.id = id
            BY <1>1 DEF Acking
        <3>3. \A p \in Asking(r)' : Acking(r, p.m.id)' /\ (p.pc # "send" => subscriptor' = 1)
            <4>1. \A p \in Asking(r) : Acking(r, p.m.id) /\ (p.pc # "send" => subscriptor = 1)
                BY <1>2, <3>1 DEF AcksComing
            <4>. QED BY <1>1, <1>3, <3>2, <4>1 DEF Acking
        <3>4. \A q \in Queueing(r)' :
                    (Acking(r, messages[q].m.id)' \/ Acked(q)') /\ messages'[q].receiver = 1
            <4>1. \A q \in Queueing(r) :
                    (Acking(r, messages[q].m.id) \/ Acked(q)) /\ messages[q].receiver = 1
                BY <1>2, <3>1 DEF AcksComing
            <4>. QED BY <1>1, <1>3, <3>2, <4>1 DEF Acking, Acked
        <3>. QED BY <2>2, <3>3, <3>4 DEF AcksComing
    <2>7. ASSUME deaths = 1, Returning' PROVE WillSkip(r)'
        <3>1. Returning
            BY <1>1, <2>7 DEF Returning
        <3>2. WillSkip(r)
            BY <2>1, <2>7, <3>1 DEF RequestInv
        <3>3. /\ \A p \in Asking(r) :
                    p.pc # "send" => subscriptor' = 2 /\ (p.pc = "enqueue" => p.receiver = 2)
              /\ \A q \in Queueing(r) : messages'[q].receiver = 2 \/ Acked(q)'
            BY <1>1, <1>2, <3>2 DEF WillSkip, Acked
        <3>. QED BY <1>3, <3>3 DEF WillSkip
    <2>8. deaths' = deaths
        BY <1>1
    <2>. QED BY <1>3, <2>5, <2>6, <2>7, <2>8 DEF RequestInv
<1>. QED BY <1>4, <1>5

\* A message that the broker accepts and that does not ask for r.
LEMMA OtherAccepted ==
    ASSUME ConvTypes, [Next]_vars, NEW r, NEW m, Accepts(m), m.code # bound.code \/ m.request # r
    PROVE  NoneAsks(r)
<1>1. PICK q : q = NewPublisher(m)
    OBVIOUS
<1>2. \/ publishers' = publishers
      \/ publishers' = publishers \cup {q} /\ q.m.request = m.request /\ q.m.code = m.code
    BY <1>1 DEF Accepts
<1>3. bound' = bound
    BY NextOtherTypes DEF ConvTypes
<1>. QED BY <1>2, <1>3 DEF NoneAsks, Asking

\* The broker accepts the message that asks for r, for the first time.
LEMMA FreshKeeps ==
    ASSUME ConvTypes, [Next]_vars, NEW r \in Requests, RequestInv(r), ~Asked(r), Asked(r)',
           NEW m, Accepts(m), UNCHANGED <<messages, inbox, threads, applied, deaths, bound>>
    PROVE  RequestInv(r)'
<1>1. Asking(r) = {} /\ Queueing(r) = {} /\ Unread(r)
    BY DEF RequestInv, OneCopy
<1>2. PICK q : q = NewPublisher(m)
    OBVIOUS
<1>3. publishers' = publishers \/ (publishers' = publishers \cup {q} /\ q.pc = "send")
    BY <1>2 DEF Accepts
<1>4. \A p \in Asking(r)' : p = q /\ p.pc = "send"
    BY <1>1, <1>3 DEF Asking
<1>5. Queueing(r)' = {} /\ Unread(r)'
    BY <1>1 DEF Queueing, Unread, Incoming, Applying
<1>6. OneCopy(r)'
    BY <1>4, <1>5 DEF OneCopy
<1>7. OneReading(r)' /\ ~Done(r)' /\ Incoming(r)' = {}
    BY <1>4, <1>5 DEF OneReading, Unread, Done
<1>8. AcksComing(r)' /\ WillSkip(r)'
    BY <1>4, <1>5, <1>7 DEF AcksComing, WillSkip
<1>. QED BY <1>6, <1>7, <1>8 DEF RequestInv

\* The steps of the handlers.
LEMMA HandlersKeep ==
    ASSUME TypesInv, [Next]_vars, NEW r \in Requests, RequestInv(r), Handlers
    PROVE  RequestInv(r)'
<1>0. ConvTypes /\ BrokerTypes /\ GameCardTypes /\ OtherTypes
    BY DEF TypesInv, ConvTypes
<1>1. UNCHANGED <<messages, inbox, subscriptor, subscribing, reader, deaths>>
    BY DEF Handlers, AckDirect, Apply, SendAnswer, brokerVars, clientVars, deathVars
<1>2. NoneQueued(r) /\ NoneSent(r) /\ SocketStays(r) /\ (Returning' => Returning)
    BY <1>0, <1>1, NowhereNew DEF Returning
<1>3. ASSUME NEW m \in direct, AckDirect(m) PROVE RequestInv(r)'
    <2>1. UNCHANGED <<publishers, threads, applied>>
        BY <1>3 DEF AckDirect
    <2>2. DOMAIN acks \subseteq DOMAIN acks'
        <3>1. PICK a : a = [id |-> m.id, request |-> m.request]
            OBVIOUS
        <3>2. acks' = acks \/ acks' = acks (+) One(a)
            BY <1>3, <3>1 DEF AckDirect, SendAck
        <3>3. DOMAIN (acks (+) One(a)) = DOMAIN acks \cup {a}
            BY <1>0, BagAdd DEF BrokerTypes
        <3>. QED BY <3>2, <3>3
    <2>3. NoneAsks(r) /\ NoneRead(r) /\ AcksStay(r)
        BY <1>0, <1>1, <1>2, <2>1, <2>2, NowhereNew, AcksGrow
    <2>. QED BY <1>0, <1>1, <1>2, <2>3, NowhereKeeps DEF Nowhere
<1>4. ASSUME NEW h \in DOMAIN threads, Apply(h), h.m.request # r PROVE RequestInv(r)'
    <2>1. UNCHANGED <<publishers, acks>>
        BY <1>4 DEF Apply, brokerVars
    <2>2. applied'[r] = applied[r]
        BY <1>0, <1>4, ApplyFacts DEF GameCardTypes
    <2>3. \A g \in Applying(r)' : g \in Applying(r) /\ threads'[g] = threads[g]
        <3>1. PICK B, x : B = threads (-) One(h) /\ x = Applied(h)
            OBVIOUS
        <3>2. IsABag(threads) /\ x.m = h.m /\ threads' \in {B, B (+) One(x)}
            BY <1>0, <1>4, <3>1, ApplyFacts DEF GameCardTypes
        <3>3. /\ IsABag(B) /\ DOMAIN B \subseteq DOMAIN threads
              /\ \A y \in DOMAIN threads \ {h} : B[y] = threads[y]
            BY <3>1, <3>2, BagRemove
        <3>4. /\ DOMAIN (B (+) One(x)) = DOMAIN B \cup {x}
              /\ \A y \in DOMAIN B \ {x} : (B (+) One(x))[y] = B[y]
            BY <3>3, BagAdd
        <3>. SUFFICES ASSUME NEW g \in Applying(r)'
                      PROVE  g \in Applying(r) /\ threads'[g] = threads[g]
            OBVIOUS
        <3>5. g \in DOMAIN threads' /\ g.pc = "apply" /\ g.m.request = r
            BY DEF Applying
        <3>6. g # h /\ g # x
            BY <1>4, <3>2, <3>5
        <3>7. g \in DOMAIN B /\ threads'[g] = B[g]
            BY <3>2, <3>4, <3>5, <3>6
        <3>. QED BY <3>3, <3>5, <3>6, <3>7 DEF Applying
    <2>4. NoneRead(r)
        BY <2>2, <2>3 DEF NoneRead
    <2>5. NoneAsks(r) /\ AcksStay(r)
        BY <1>0, <1>1, <1>2, <2>1, NowhereNew
    <2>. QED BY <1>0, <1>1, <1>2, <2>4, <2>5, NowhereKeeps DEF Nowhere
<1>5. ASSUME NEW h \in DOMAIN threads, SendAnswer(h) PROVE RequestInv(r)'
    <2>1. h.pc = "answer" /\ threads' = threads (-) One(h) /\ UNCHANGED <<acks, applied, broker_up>>
        BY <1>5 DEF SendAnswer
    <2>2. \A g \in Applying(r)' : g \in Applying(r) /\ threads'[g] = threads[g]
        <3>1. PICK B : B = threads (-) One(h)
            OBVIOUS
        <3>2. /\ DOMAIN B \subseteq DOMAIN threads
              /\ \A y \in DOMAIN threads \ {h} : B[y] = threads[y]
            BY <1>0, <3>1, BagRemove DEF GameCardTypes
        <3>. SUFFICES ASSUME NEW g \in Applying(r)'
                      PROVE  g \in Applying(r) /\ threads'[g] = threads[g]
            OBVIOUS
        <3>3. g \in DOMAIN threads' /\ g.pc = "apply" /\ g.m.request = r /\ g # h
            BY <2>1 DEF Applying
        <3>. QED BY <2>1, <3>1, <3>2, <3>3 DEF Applying
    <2>3. NoneRead(r)
        BY <2>1, <2>2 DEF NoneRead
    <2>4. NoneAsks(r)
        <3>1. CASE broker_up
            <4>1. h \in HandlerState
                BY <1>0 DEF GameCardTypes
            <4>2. /\ FromHandler(h) \in MessageRecord /\ FromHandler(h).code # bound.code
                  /\ Accept(FromHandler(h))
                BY <1>0, <1>5, <3>1, <4>1, HandlerSends DEF SendAnswer, FromHandler
            <4>3. Accepts(FromHandler(h))
                BY <1>0, <2>1, <3>1, <4>2, AcceptFacts DEF Accepts
            <4>. QED BY <1>0, <4>2, <4>3, OtherAccepted
        <3>2. CASE ~broker_up
            BY <1>0, <1>5, <3>2, NowhereNew DEF SendAnswer
        <3>. QED BY <3>1, <3>2
    <2>5. AcksStay(r)
        BY <1>0, <1>1, <1>2, <2>1, NowhereNew
    <2>. QED BY <1>0, <1>1, <1>2, <2>3, <2>4, <2>5, NowhereKeeps DEF Nowhere
<1>. QED BY <1>3, <1>4, <1>5, ApplyOnceKeeps DEF Handlers, BagToSet

\* Someone asks the broker for one request more.
LEMMA AskingKeeps ==
    ASSUME TypesInv, [Next]_vars, NEW r \in Requests, RequestInv(r),
           GameBoyToBroker \/ \E t \in Trainers : catch_pokemon(t)
    PROVE  RequestInv(r)'
<1>0. ConvTypes /\ BrokerTypes /\ TeamTypes /\ OtherTypes
    BY DEF TypesInv, ConvTypes
<1>1. UNCHANGED <<messages, inbox, subscriptor, subscribing, reader, acks, threads, applied, deaths,
                  bound, broker_up>>
    BY DEF GameBoyToBroker, catch_pokemon, TeamFrame, gamecardVars, clientVars, deathVars
<1>2. /\ NoneQueued(r) /\ NoneSent(r) /\ NoneRead(r) /\ AcksStay(r) /\ SocketStays(r)
      /\ Returning' => Returning
    BY <1>0, <1>1, NowhereNew DEF Returning
<1>3. ASSUME NoneAsks(r) PROVE RequestInv(r)'
    BY <1>0, <1>1, <1>2, <1>3, NowhereKeeps DEF Nowhere
<1>4. ASSUME UNCHANGED publishers PROVE RequestInv(r)'
    BY <1>0, <1>3, <1>4, NowhereNew
<1>5. CASE GameBoyToBroker
    <2>1. /\ told < bound.commands /\ told' = told + 1 /\ trainer' = trainer /\ told \in Nat
          /\ broker_up => Accept(FromGameBoy)
          /\ ~broker_up => publishers' = publishers
        BY <1>0, <1>5, Bounded DEF GameBoyToBroker, FromGameBoy, teamVars, OtherTypes
    <2>2. FromGameBoy \in MessageRecord /\ FromGameBoy.request = <<0, told + 1>>
        BY <1>0, <2>1, GameBoySends
    <2>3. broker_up => Accepts(FromGameBoy)
        BY <1>0, <1>1, <2>1, <2>2, AcceptFacts DEF Accepts
    <2>4. CASE r = <<0, told + 1>>
        <3>1. r[1] = 0 /\ r[2] = told + 1
            BY <2>4
        <3>2. ~Asked(r) /\ Asked(r)'
            BY <2>1, <3>1 DEF Asked
        <3>. QED BY <1>0, <1>1, <1>4, <2>1, <2>3, <3>2, FreshKeeps
    <2>5. CASE r # <<0, told + 1>>
        BY <1>0, <1>3, <1>4, <2>1, <2>2, <2>3, <2>5, OtherAccepted
    <2>. QED BY <2>4, <2>5
<1>6. ASSUME NEW t \in Trainers, catch_pokemon(t) PROVE RequestInv(r)'
    <2>1. /\ Cardinality(Catches) < bound.catches
          /\ broker_up => Accept(FromTrainer(t))
          /\ ~broker_up => publishers' = publishers
          /\ trainer'[t].n = trainer[t].n + 1 /\ trainer[t].n \in Nat
        BY <1>0, <1>6, AskingFacts DEF TrainerState
    <2>2. FromTrainer(t) \in MessageRecord /\ FromTrainer(t).request = <<t, trainer[t].n + 1>>
        BY <1>0, <2>1, TrainerSends
    <2>3. broker_up => Accepts(FromTrainer(t))
        BY <1>0, <1>1, <2>1, <2>2, AcceptFacts DEF Accepts
    <2>4. CASE r = <<t, trainer[t].n + 1>>
        <3>1. r[1] = t /\ r[2] = trainer[t].n + 1 /\ t # 0
            BY <2>4, TrainersAreNumbered
        <3>2. ~Asked(r) /\ Asked(r)'
            BY <2>1, <3>1 DEF Asked
        <3>. QED BY <1>0, <1>1, <1>4, <2>1, <2>3, <3>2, FreshKeeps
    <2>5. CASE r # <<t, trainer[t].n + 1>>
        BY <1>0, <1>3, <1>4, <2>1, <2>2, <2>3, <2>5, OtherAccepted
    <2>. QED BY <2>4, <2>5
<1>. QED BY <1>5, <1>6

\* The GameBoy asks the GameCard, by no way of the broker.
LEMMA DirectKeeps ==
    ASSUME TypesInv, [Next]_vars, NEW r \in Requests, RequestInv(r),
           NEW id \in bound.ids, GameBoyToGameCard(id)
    PROVE  RequestInv(r)'
<1>0. ConvTypes /\ GameCardTypes /\ OtherTypes
    BY DEF TypesInv, ConvTypes
<1>1. /\ UNCHANGED <<publishers, messages, inbox, subscriptor, subscribing, reader, acks, applied,
                     deaths, bound, trainer>>
      /\ told < bound.commands /\ told' = told + 1 /\ told \in Nat /\ id \in Nat
    BY <1>0, Bounded DEF GameBoyToGameCard, brokerVars, clientVars, teamVars, deathVars, OtherTypes
<1>2. PICK m : m = [FromGameBoy EXCEPT !.id = id]
    OBVIOUS
<1>3. m \in Queued /\ m.request = <<0, told + 1>>
    BY <1>0, <1>1, <1>2, GameBoySends DEF Queued, MessageRecord
<1>4. threads' = threads (+) Thread(m)
    BY <1>2 DEF GameBoyToGameCard, FromGameBoy
<1>5. CASE r # m.request
    <2>1. /\ NoneAsks(r) /\ NoneQueued(r) /\ NoneSent(r) /\ AcksStay(r) /\ SocketStays(r)
          /\ Returning' => Returning
        BY <1>0, <1>1, NowhereNew DEF Returning
    <2>2. NoneRead(r)
        BY <1>0, <1>1, <1>3, <1>4, <1>5, OtherRead
    <2>. QED BY <1>0, <1>1, <2>1, <2>2, NowhereKeeps DEF Nowhere
<1>6. CASE r = m.request
    <2>1. r[1] = 0 /\ r[2] = told + 1
        BY <1>3, <1>6
    <2>2. ~Asked(r) /\ Asked(r)'
        BY <1>1, <2>1 DEF Asked
    <2>3. Asking(r) = {} /\ Queueing(r) = {} /\ Unread(r)
        BY <2>2 DEF RequestInv, OneCopy
    <2>4. Asking(r)' = {} /\ Queueing(r)' = {} /\ Incoming(r)' = {} /\ applied'[r] = 0
        BY <1>1, <2>3 DEF Asking, Queueing, Incoming, Unread
    <2>5. PICK x : x = Reading(m)
        OBVIOUS
    <2>6. Applying(r)' = {x} /\ threads'[x] = 1
        <3>1. x.pc = "apply" /\ x.m = m /\ threads' = threads (+) One(x) /\ IsABag(threads)
            BY <1>0, <1>4, <2>5 DEF Reading, Thread, GameCardTypes
        <3>2. /\ DOMAIN threads' = DOMAIN threads \cup {x}
              /\ threads'[x] = IF x \in DOMAIN threads THEN threads[x] + 1 ELSE 1
            BY <3>1, BagAdd
        <3>. QED BY <1>6, <2>3, <3>1, <3>2 DEF Applying, Unread
    <2>7. OneCopy(r)' /\ OneReading(r)' /\ AcksComing(r)' /\ WillSkip(r)'
        BY <2>2, <2>4, <2>6 DEF OneCopy, OneReading, AcksComing, WillSkip
    <2>. QED BY <2>7 DEF RequestInv
<1>. QED BY <1>5, <1>6

\* The GameCard dies: what it had read was acknowledged, or it was at work on it.
LEMMA GameCardDiesKeeps ==
    ASSUME TypesInv, [Next]_vars, NEW r \in Requests, RequestInv(r), GameCardDies
    PROVE  RequestInv(r)'
<1>0. ConvTypes /\ BrokerTypes /\ GameCardTypes /\ OtherTypes
    BY DEF TypesInv, ConvTypes
<1>1. /\ UNCHANGED <<publishers, messages, subscriptor, subscribing, acks, applied, bound, told, trainer>>
      /\ deaths' = deaths + 1 /\ threads' = EmptyBag /\ inbox' = <<>> /\ reader'.pc = "off"
      /\ doubts' = Doubt(AtWork, "cut") /\ deaths \in Nat
    BY <1>0 DEF GameCardDies, brokerVars, teamVars, OtherTypes
<1>2. /\ Asking(r)' = Asking(r) /\ Queueing(r)' = Queueing(r) /\ Asked(r)' = Asked(r)
      /\ Incoming(r)' = {} /\ Applying(r)' = {}
    <2>1. DOMAIN inbox' = {} /\ DOMAIN threads' = {}
        BY <1>1, EmptyIsBag
    <2>. QED BY <1>1, <2>1 DEF Asking, Queueing, Asked, Incoming, Applying
<1>3. OneCopy(r)'
    <2>1. Unread(r) => Unread(r)'
        BY <1>1, <1>2 DEF Unread
    <2>. QED BY <1>2, <2>1 DEF RequestInv, OneCopy
<1>4. CASE Excused(r)'
    BY <1>3, <1>4 DEF RequestInv
<1>5. CASE ~Excused(r)'
    <2>1. ~Excused(r) /\ deaths = 0 /\ deaths' = 1 /\ "cut" \notin doubts'[r]
        BY <1>0, <1>1, <1>5, AskedStays DEF Excused
    <2>2. OneReading(r) /\ AcksComing(r)
        BY <2>1 DEF RequestInv
    <2>3. r \notin AtWork
        BY <1>1, <2>1 DEF Doubt
    <2>4. Applying(r) = {} /\ \A id : ~Acking(r, id)
        BY <2>3 DEF AtWork, Applying, Acking, BagToSet
    <2>5. applied[r] > 0 => Done(r) /\ ~Unread(r)
        BY DEF Done, Unread
    <2>6. Unread(r)' \/ applied[r] > 0
        BY <1>0, <1>1, <1>2 DEF Unread, GameCardTypes
    <2>7. OneReading(r)'
        <3>1. \A p \in Asking(r)' : p.pc = "send" => Unread(r)'
            BY <1>2, <2>2, <2>5, <2>6 DEF OneReading
        <3>2. applied'[r] <= 1
            BY <1>1, <2>2 DEF OneReading
        <3>. QED BY <1>2, <3>1, <3>2 DEF OneReading
    <2>8. WillSkip(r)'
        <3>1. \A p \in Asking(r) : Unread(r)'
            BY <2>2, <2>4, <2>5, <2>6 DEF AcksComing
        <3>2. \A q \in Queueing(r) : Unread(r)' \/ Acked(q)
            BY <2>2, <2>4, <2>5, <2>6 DEF AcksComing
        <3>3. \A q \in Queueing(r)' : Unread(r)' \/ Acked(q)'
            BY <1>1, <1>2, <3>2 DEF Acked
        <3>. QED BY <1>2, <3>1, <3>3 DEF WillSkip
    <2>. QED BY <1>3, <2>1, <2>7, <2>8 DEF RequestInv
<1>. QED BY <1>4, <1>5

\* The steps that lead r nowhere: a process starts, the broker dies, the Team goes on.
LEMMA RestKeeps ==
    ASSUME TypesInv, [Next]_vars, NEW r \in Requests, RequestInv(r),
           GameCardStarts \/ BrokerDies \/ BrokerStarts \/ TeamThreads \/ UNCHANGED vars
    PROVE  RequestInv(r)'
<1>0. ConvTypes /\ ClientTypes /\ SocketsInv
    BY DEF TypesInv, ConvTypes
<1>1. /\ UNCHANGED <<inbox, threads, applied, deaths>>
      /\ UNCHANGED reader \/ (reader.pc = "off" /\ reader'.pc # "ack")
      /\ \/ UNCHANGED <<publishers, messages, subscriptor, subscribing, acks>>
         \/ publishers' = {} /\ messages' = <<>> /\ subscribing' = {}
    BY <1>0 DEF GameCardStarts, BrokerDies, BrokerStarts, TeamThreads, receive_message_id, wait_catch,
           handle_caught, TeamFrame, brokerVars, clientVars, gamecardVars, deathVars, vars, SocketsInv,
           ClientTypes
<1>2. Returning' => Returning
    BY <1>1 DEF Returning
<1>3. NoneSent(r) /\ NoneRead(r)
    BY <1>0, <1>1, NowhereNew
<1>4. CASE UNCHANGED <<publishers, messages, subscriptor, subscribing, acks>>
    <2>1. NoneAsks(r) /\ NoneQueued(r) /\ SocketStays(r)
        BY <1>0, <1>4, NowhereNew
    <2>2. AcksStay(r)
        BY <1>1, <1>4, <2>1, AcksGrow
    <2>. QED BY <1>0, <1>1, <1>2, <1>3, <2>1, <2>2, NowhereKeeps DEF Nowhere
<1>5. CASE publishers' = {} /\ messages' = <<>> /\ subscribing' = {}
    <2>1. Asking(r)' = {} /\ Queueing(r)' = {} /\ AcksStay(r)
        BY <1>5, EmptyBroker
    <2>2. NoneAsks(r) /\ NoneQueued(r) /\ SocketStays(r)
        BY <2>1 DEF NoneAsks, NoneQueued, SocketStays
    <2>. QED BY <1>0, <1>1, <1>2, <1>3, <2>1, <2>2, NowhereKeeps DEF Nowhere
<1>. QED BY <1>1, <1>4, <1>5

\* A replay of no message that asks for r leaves r as it was.
LEMMA NoneReplayed ==
    ASSUME BrokerTypes, ClientTypes, NEW places, NEW r,
           \A i \in places \cap DOMAIN messages : messages[i].m.request # r,
           NEW j \in DOMAIN Sent(places), Sent(places)[j].request = r
    PROVE  j \in DOMAIN inbox /\ Sent(places)[j] = inbox[j]
<1>0. /\ inbox \in Seq(Queued) /\ Len(messages) \in Nat /\ DOMAIN messages = 1..Len(messages)
      /\ \A i \in DOMAIN messages : messages[i].m \in Queued
    BY QueueIsQueued DEF ClientTypes
<1>1. PICK old : old = {s \in Seq(Queued) : \A k \in DOMAIN s :
                            s[k].request = r => k \in DOMAIN inbox /\ s[k] = inbox[k]}
    OBVIOUS
<1>2. PICK good : good = [i \in 0..Len(messages) |-> old]
    OBVIOUS
<1>3. inbox \in good[0]
    BY <1>0, <1>1, <1>2
<1>4. ASSUME NEW i \in 1..Len(messages), NEW s \in Seq(Queued), s \in good[i - 1]
      PROVE  (IF i \in places THEN Append(s, messages[i].m) ELSE s) \in good[i]
    <2>1. good[i] = old /\ s \in old
        BY <1>0, <1>2, <1>4
    <2>2. ASSUME i \in places PROVE Append(s, messages[i].m) \in old
        <3>1. PICK m \in Queued : m = messages[i].m /\ m.request # r
            BY <1>0, <2>2
        <3>2. /\ Append(s, m) \in Seq(Queued) /\ DOMAIN Append(s, m) = DOMAIN s \cup {Len(s) + 1}
              /\ \A k \in DOMAIN s : Append(s, m)[k] = s[k]
              /\ Append(s, m)[Len(s) + 1] = m
            BY AppendProperties, LenProperties
        <3>3. Append(s, m) \in old
            BY <1>1, <2>1, <3>1, <3>2
        <3>. QED BY <3>1, <3>3
    <2>. QED BY <2>1, <2>2
<1>5. Sent(places) \in good[Len(messages)]
    BY <1>0, <1>3, <1>4, SentInductive
<1>. QED BY <1>0, <1>1, <1>2, <1>5

\* A replay sends r once, if it is in the queue once and was not sent before.
LEMMA ReplayedOnce ==
    ASSUME BrokerTypes, ClientTypes, NEW places, NEW r, Incoming(r) = {},
           \A i, j \in Queueing(r) : i = j,
           NEW j \in DOMAIN Sent(places), Sent(places)[j].request = r,
           NEW k \in DOMAIN Sent(places), Sent(places)[k].request = r
    PROVE  j = k
<1>0. /\ inbox \in Seq(Queued) /\ Len(messages) \in Nat /\ DOMAIN messages = 1..Len(messages)
      /\ \A i \in DOMAIN messages : messages[i].m \in Queued
    BY QueueIsQueued DEF ClientTypes
<1>1. PICK none : none = {s \in Seq(Queued) : \A x \in DOMAIN s : s[x].request # r}
    OBVIOUS
<1>2. PICK one : one = {s \in Seq(Queued) : \A x, y \in DOMAIN s :
                                s[x].request = r /\ s[y].request = r => x = y}
    OBVIOUS
<1>3. PICK good : good = [i \in 0..Len(messages) |->
                            IF \E q \in Queueing(r) : q <= i THEN one ELSE none]
    OBVIOUS
<1>4. inbox \in good[0]
    <2>1. inbox \in none
        BY <1>0, <1>1 DEF Incoming
    <2>2. ~ \E q \in Queueing(r) : q <= 0
        BY <1>0 DEF Queueing
    <2>. QED BY <1>0, <1>3, <2>1, <2>2
<1>5. none \subseteq one
    BY <1>1, <1>2
<1>6. ASSUME NEW i \in 1..Len(messages), NEW s \in Seq(Queued), s \in good[i - 1]
      PROVE  (IF i \in places THEN Append(s, messages[i].m) ELSE s) \in good[i]
    <2>1. /\ good[i] = IF \E q \in Queueing(r) : q <= i THEN one ELSE none
          /\ s \in IF \E q \in Queueing(r) : q <= i - 1 THEN one ELSE none
        BY <1>0, <1>3, <1>6
    <2>2. s \in good[i]
        <3>1. \A q \in Queueing(r) : q <= i - 1 => q <= i
            BY <1>0 DEF Queueing
        <3>. QED BY <1>5, <2>1, <3>1
    <2>3. PICK m \in Queued : m = messages[i].m
        BY <1>0
    <2>4. /\ Append(s, m) \in Seq(Queued) /\ DOMAIN Append(s, m) = DOMAIN s \cup {Len(s) + 1}
          /\ \A x \in DOMAIN s : Append(s, m)[x] = s[x]
          /\ Append(s, m)[Len(s) + 1] = m
        BY AppendProperties, LenProperties
    <2>5. CASE m.request = r
        <3>1. i \in Queueing(r) /\ i <= i
            BY <1>0, <2>3, <2>5 DEF Queueing
        <3>2. ~ \E q \in Queueing(r) : q <= i - 1
            <4>1. \A q \in Queueing(r) : q = i
                BY <3>1
            <4>2. ~(i <= i - 1)
                BY <1>0
            <4>. QED BY <4>1, <4>2
        <3>3. s \in none /\ good[i] = one
            BY <2>1, <3>1, <3>2
        <3>4. Append(s, m) \in one
            BY <1>1, <1>2, <2>4, <3>3
        <3>. QED BY <2>2, <2>3, <3>3, <3>4
    <2>6. CASE m.request # r
        <3>1. s \in none => Append(s, m) \in none
            BY <1>1, <2>4, <2>6
        <3>2. s \in one => Append(s, m) \in one
            BY <1>2, <2>4, <2>6
        <3>3. Append(s, m) \in good[i]
            BY <2>1, <2>2, <3>1, <3>2
        <3>. QED BY <2>2, <2>3, <3>3
    <2>. QED BY <2>5, <2>6
<1>7. Sent(places) \in good[Len(messages)]
    BY <1>0, <1>4, <1>6, SentInductive
<1>8. Sent(places) \in one
    <2>1. Len(messages) \in 0..Len(messages)
        BY <1>0
    <2>. QED BY <1>3, <1>5, <1>7, <2>1
<1>. QED BY <1>2, <1>8

\* What a replay does to the queue, and whom it doubts.
LEMMA ReplayFacts ==
    ASSUME BrokerTypes, OtherTypes, NEW h \in subscribing, Replay(h)
    PROVE  \E missed :
            /\ \A i \in missed : i \in DOMAIN messages /\ ~AlreadyReceived(messages[i], h.old_socket)
            /\ inbox' = IF connection = h.socket THEN Sent(missed) ELSE inbox
            /\ DOMAIN messages' = DOMAIN messages
            /\ \A i \in DOMAIN messages :
                /\ messages'[i].m = messages[i].m
                /\ messages[i].receiver = h.socket => "raced" \in doubts'[messages[i].m.request]
<1>1. messages \in Seq(Entry)
    BY DEF BrokerTypes
<1>2. PICK missed : missed = {i \in DOMAIN messages : ~AlreadyReceived(messages[i], h.old_socket)}
    OBVIOUS
<1>3. /\ inbox' = IF connection = h.socket THEN Sent(missed) ELSE inbox
      /\ messages' = [i \in DOMAIN messages |->
                        IF i \in missed /\ messages[i].receiver = h.old_socket
                        THEN [messages[i] EXCEPT !.receiver = h.socket] ELSE messages[i]]
    BY <1>2 DEF Replay
<1>4. ASSUME NEW i \in DOMAIN messages
      PROVE  /\ messages'[i].m = messages[i].m
             /\ messages[i].receiver = h.socket => "raced" \in doubts'[messages[i].m.request]
    <2>1. messages[i] \in Entry
        BY <1>1, <1>4, ElementOfSeq
    <2>2. messages'[i].m = messages[i].m
        BY <1>3, <2>1 DEF Entry
    <2>3. PICK r \in Requests : r = messages[i].m.request
        BY <2>1 DEF Entry, Queued, MessageRecord
    <2>4. PICK late : late = {e \in ToSet(messages) : e.m.request = r /\ e.receiver = h.socket}
        OBVIOUS
    <2>5. messages[i] \in ToSet(messages)
        BY DEF ToSet
    <2>6. \A e \in late : "raced" \in doubts'[r]
        <3>1. doubts' = [x \in Requests |-> doubts[x]
                \cup {"gap" : p \in {p \in publishers : p.m.request = x /\ p.m.code = bound.code
                                                       /\ p.pc # "send" /\ p.sent # h.socket}}
                \cup {"raced" : e \in {e \in ToSet(messages) : e.m.request = x
                                                               /\ e.receiver = h.socket}}]
            BY Zenon DEF Replay
        <3>2. {"raced" : e \in late} \subseteq doubts'[r]
            BY <2>4, <3>1
        <3>. QED BY <3>2
    <2>. QED BY <2>2, <2>3, <2>4, <2>5, <2>6
<1>5. DOMAIN messages' = DOMAIN messages
    BY <1>3
<1>. QED BY <1>2, <1>3, <1>4, <1>5

\* The replay sends r again only if it was not read: what was is acknowledged, and is skipped.
LEMMA ReplayKeeps ==
    ASSUME TypesInv, ConnectionsInv, [Next]_vars, NEW r \in Requests, RequestInv(r),
           NEW h \in subscribing, Replay(h)
    PROVE  RequestInv(r)'
<1>0. ConvTypes /\ BrokerTypes /\ ClientTypes /\ GameCardTypes /\ OtherTypes /\ SocketsInv
    BY DEF TypesInv, ConvTypes
<1>1. /\ UNCHANGED <<publishers, acks, threads, applied, reader, deaths, bound, told, trainer>>
      /\ h.pc = "replay" /\ subscribing' = subscribing \ {h}
    BY DEF Replay, gamecardVars, teamVars, deathVars
<1>2. PICK missed :
        /\ \A i \in missed : i \in DOMAIN messages /\ ~AlreadyReceived(messages[i], h.old_socket)
        /\ inbox' = IF connection = h.socket THEN Sent(missed) ELSE inbox
        /\ DOMAIN messages' = DOMAIN messages
        /\ \A i \in DOMAIN messages :
            /\ messages'[i].m = messages[i].m
            /\ messages[i].receiver = h.socket => "raced" \in doubts'[messages[i].m.request]
    BY <1>0, ReplayFacts
<1>3. /\ Asking(r)' = Asking(r) /\ Queueing(r)' = Queueing(r) /\ Asked(r)' = Asked(r)
      /\ Applying(r)' = Applying(r) /\ (Done(r)' <=> Done(r))
    BY <1>1, <1>2 DEF Asking, Queueing, Asked, Applying, Done
<1>4. /\ \A p, q \in Asking(r) : p = q
      /\ \A i, j \in Queueing(r) : i = j
      /\ Asking(r) = {} \/ Queueing(r) = {}
      /\ ~Asked(r) => Asking(r) = {} /\ Queueing(r) = {} /\ Unread(r)
    BY DEF RequestInv, OneCopy
<1>5. ASSUME \A i \in missed : i \notin Queueing(r) \/ connection # h.socket
      PROVE  \A j \in Incoming(r)' : j \in Incoming(r)
    <2>1. CASE connection # h.socket
        BY <1>2, <2>1 DEF Incoming
    <2>2. CASE connection = h.socket
        <3>1. inbox' = Sent(missed) /\ \A i \in missed \cap DOMAIN messages : messages[i].m.request # r
            BY <1>2, <1>5, <2>2 DEF Queueing
        <3>2. \A j \in DOMAIN Sent(missed) : Sent(missed)[j].request = r =>
                    j \in DOMAIN inbox /\ Sent(missed)[j] = inbox[j]
            BY <1>0, <3>1, NoneReplayed
        <3>. QED BY <3>1, <3>2 DEF Incoming
    <2>. QED BY <2>1, <2>2
<1>6. OneCopy(r)'
    <2>1. Queueing(r) = {} /\ Unread(r) => Unread(r)'
        BY <1>1, <1>3, <1>5 DEF Unread
    <2>. QED BY <1>3, <1>4, <2>1 DEF OneCopy
<1>7. CASE Excused(r)'
    BY <1>6, <1>7 DEF RequestInv
<1>8. CASE ~Excused(r)'
    <2>1. ~Excused(r) /\ OneReading(r) /\ "raced" \notin doubts'[r] /\ deaths <= 1
        BY <1>0, <1>1, <1>8, AskedStays DEF RequestInv, Excused, OtherTypes
    <2>2. deaths = 1 /\ sockets = 2 /\ h.socket = 2 /\ reader.pc \notin {"connect", "off"}
        <3>1. /\ h.socket >= 2 /\ h.socket <= sockets /\ h.socket \in Nat /\ sockets \in Nat
              /\ deaths \in Nat
            BY <1>0 DEF ConnectionsInv, SocketsInv, BrokerTypes, ClientTypes, OtherTypes
        <3>2. sockets + (IF reader.pc \in {"connect", "off"} THEN 1 ELSE 0) <= 1 + deaths
            BY <1>0 DEF SocketsInv
        <3>. QED BY <2>1, <3>1, <3>2
    <2>3. subscribing' = {}
        <3>1. \A g \in subscribing : g.socket = h.socket
            <4>1. \A g \in subscribing : g.socket >= 2 /\ g.socket <= sockets /\ g.socket \in Nat
                BY <1>0 DEF ConnectionsInv, SocketsInv, BrokerTypes
            <4>. QED BY <2>2, <4>1
        <3>. QED BY <1>1, <3>1 DEF ConnectionsInv
    <2>4. deaths' = 1 /\ ~Returning'
        BY <1>1, <2>2, <2>3 DEF Returning
    <2>5. CASE \A i \in missed : i \notin Queueing(r) \/ connection # h.socket
        <3>1. Incoming(r)' \subseteq Incoming(r) /\ (Unread(r) => Unread(r)')
            BY <1>1, <1>3, <1>5, <2>5 DEF Unread
        <3>2. OneReading(r)'
            BY <1>1, <1>3, <2>1, <3>1 DEF OneReading
        <3>. QED BY <1>6, <2>4, <3>2 DEF RequestInv
    <2>6. ASSUME NEW q \in missed, q \in Queueing(r), connection = h.socket PROVE RequestInv(r)'
        <3>1. WillSkip(r)
            <4>1. Returning
                BY DEF Returning
            <4>. QED BY <2>1, <2>2, <4>1 DEF RequestInv
        <3>2. messages[q].receiver # 2
            BY <1>2, <2>1, <2>2, <2>6 DEF Queueing
        <3>3. ~Acked(q)
            <4>1. SUFFICES ASSUME messages[q].receiver = 1, messages[q].received PROVE FALSE
                BY DEF Acked
            <4>2. 1 \in Receivers
                BY <1>2, <4>1 DEF Receivers
            <4>3. h.old_socket = 1
                BY <1>1, <2>2, <4>2 DEF ConnectionsInv
            <4>. QED BY <1>2, <4>1, <4>3 DEF AlreadyReceived
        <3>4. Unread(r)
            BY <2>6, <3>1, <3>2, <3>3 DEF WillSkip
        <3>5. Incoming(r) = {} /\ Applying(r) = {} /\ applied[r] = 0
            BY <3>4 DEF Unread
        <3>6. inbox' = Sent(missed)
            BY <1>2, <2>6
        <3>7. \A i, j \in Incoming(r)' : i = j
            <4>1. \A i, j \in DOMAIN Sent(missed) :
                    Sent(missed)[i].request = r /\ Sent(missed)[j].request = r => i = j
                BY <1>0, <1>4, <3>5, ReplayedOnce
            <4>. QED BY <3>6, <4>1 DEF Incoming
        <3>8. Asking(r)' = {} /\ Applying(r)' = {} /\ applied'[r] = 0 /\ ~Done(r)'
            BY <1>1, <1>3, <1>4, <2>6, <3>5 DEF Done
        <3>9. OneReading(r)'
            BY <3>7, <3>8 DEF OneReading
        <3>. QED BY <1>6, <2>4, <3>9 DEF RequestInv
    <2>. QED BY <2>5, <2>6
<1>. QED BY <1>7, <1>8

\* Every step keeps RequestInv.
LEMMA NextRequestInv ==
    ASSUME TypesInv, ConnectionsInv, [Next]_vars, NEW r \in Requests, RequestInv(r)
    PROVE  RequestInv(r)'
<1>0. ConvTypes /\ BrokerTypes
    BY DEF TypesInv, ConvTypes
<1>1. ASSUME NEW p \in publishers, SendToSubscriptors(p) \/ ListReceivers(p) \/ Enqueue(p)
      PROVE  RequestInv(r)'
    <2>1. CASE p.m.request # r
        BY <1>1, <2>1, OthersMove
    <2>2. CASE p.m.request = r
        <3>1. p.m.code = bound.code
            BY <1>0, <1>1 DEF SendToSubscriptors, ListReceivers, Enqueue, BrokerTypes, Publisher,
                   Queued, Caught
        <3>2. p \in Asking(r)
            BY <2>2, <3>1 DEF Asking
        <3>. QED BY <1>1, <3>2, SendKeeps, ListKeeps, EnqueueKeeps
    <2>. QED BY <2>1, <2>2
<1>2. Broker => RequestInv(r)'
    BY <1>1, BrokerKeeps, ReplayKeeps DEF Broker, BagToSet
<1>3. Client => RequestInv(r)'
    BY ClientKeeps
<1>4. Handlers => RequestInv(r)'
    BY HandlersKeep
<1>5. GameBoyToBroker \/ (\E t \in Trainers : catch_pokemon(t)) => RequestInv(r)'
    BY AskingKeeps
<1>6. (\E id \in bound.ids : GameBoyToGameCard(id)) => RequestInv(r)'
    BY DirectKeeps
<1>7. GameCardDies => RequestInv(r)'
    BY GameCardDiesKeeps
<1>8. GameCardStarts \/ BrokerDies \/ BrokerStarts \/ TeamThreads \/ UNCHANGED vars => RequestInv(r)'
    BY RestKeeps
<1>. QED BY <1>2, <1>3, <1>4, <1>5, <1>6, <1>7, <1>8 DEF Next

\* The inductive invariant.
OnceInv == TypesInv /\ ConnectionsInv /\ \A r \in Requests : RequestInv(r)

\* At first nothing was asked, and there is one connection.
LEMMA InitOnceInv == Init => OnceInv
<1>. SUFFICES ASSUME Init PROVE OnceInv
    OBVIOUS
<1>1. TypesInv
    BY InitTypesInv
<1>2. /\ publishers = {} /\ subscribing = {} /\ sockets = 1 /\ broker_up /\ reader.pc = "recv"
      /\ DOMAIN messages = {} /\ DOMAIN inbox = {} /\ DOMAIN threads = {}
      /\ applied = [r \in Requests |-> 0] /\ deaths = 0
    BY EmptyIsBag DEF Init
<1>3. Receivers = {}
    BY <1>2 DEF Receivers
<1>4. ConnectionsInv
    BY <1>2, <1>3 DEF ConnectionsInv
<1>5. ASSUME NEW r \in Requests PROVE RequestInv(r)
    <2>1. Asking(r) = {} /\ Queueing(r) = {} /\ Incoming(r) = {} /\ Applying(r) = {} /\ applied[r] = 0
        BY <1>2 DEF Asking, Queueing, Incoming, Applying
    <2>2. Unread(r) /\ ~Done(r)
        BY <2>1 DEF Unread, Done
    <2>. QED BY <2>1, <2>2 DEF RequestInv, OneCopy, OneReading, AcksComing, WillSkip
<1>. QED BY <1>1, <1>4, <1>5 DEF OnceInv

\* Every step keeps it.
LEMMA NextOnceInv == OnceInv /\ [Next]_vars => OnceInv'
<1>. SUFFICES ASSUME OnceInv, [Next]_vars PROVE OnceInv'
    OBVIOUS
<1>1. TypesInv /\ ConnectionsInv
    BY DEF OnceInv
<1>2. TypesInv' /\ ConnectionsInv'
    BY <1>1, NextTypesInv, NextConnectionsInv
<1>3. \A r \in Requests : RequestInv(r)'
    BY <1>1, NextRequestInv DEF OnceInv
<1>4. (\A r \in Requests : RequestInv(r))'
    BY <1>3
<1>. QED BY <1>2, <1>4 DEF OnceInv

\* The GameCard does what a message asks once although it comes again after a death (gamecard.c,
\* subscribe_to and handle_event; broker.c, send_all_messages), but for the three excuses.
THEOREM RequestsAppliedOnce == Spec => []AppliedOnce
<1>1. Init => OnceInv
    BY InitOnceInv
<1>2. OnceInv /\ [Next]_vars => OnceInv'
    BY NextOnceInv
<1>3. OnceInv => AppliedOnce
    <2>. SUFFICES ASSUME OnceInv, NEW r \in Requests, applied[r] > 1 PROVE Excused(r)
        BY DEF AppliedOnce, Excused
    <2>1. RequestInv(r)
        BY DEF OnceInv
    <2>2. ~Excused(r) => applied[r] <= 1 /\ applied[r] \in Nat
        BY <2>1 DEF RequestInv, OneReading, OnceInv, TypesInv, ConvTypes, GameCardTypes
    <2>. QED BY <2>2
<1>. QED BY <1>1, <1>2, <1>3, PTL DEF Spec
=============================================================================
