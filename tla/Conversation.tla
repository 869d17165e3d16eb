---------------------------- MODULE Conversation ----------------------------
(***************************************************************************)
(* The processes together: a GameBoy and a Team publish requests, the broker *)
(* gives them ids and passes them on, the GameCard does what they ask,       *)
(* acknowledges them and publishes its answers, and the Team finds the       *)
(* trainer an answer is for by the id of its request (operavirus-commons.c,  *)
(* gameboy.c, the clients of gamecard.c and team.c, broker.c).               *)
(*                                                                           *)
(* The queue looked at is one of the GameCard's, of which it is the only     *)
(* subscriptor.  The broker is that of BrokerQueue without the cache and the *)
(* mutexes: a subscription's replay is one step.  The Team never subscribes  *)
(* again, so what the broker stores for it is never looked at, and a         *)
(* CAUGHT_POKEMON is in a thread of the Team as soon as it is sent.  What    *)
(* the GameCard stores is a number of pokemons; TallGrass and TeamCatching   *)
(* have the rest of the handlers.  A message is read whole or not at all.    *)
(***************************************************************************)
EXTENDS Naturals, Sequences, FiniteSets, Bags, FiniteSetsExt, SequencesExt

\* Bounds is a set of [code, stock, ids, commands, trainers, catches, deaths, broker_deaths]: the
\* queue looked at, the pokemons there are at first, the ids the GameBoy may be told, how often it
\* is run, the trainers of the Team, how often it tries to catch, how often the GameCard and the
\* broker die.
CONSTANT Bounds

Answer == [code \in {"NEW_POKEMON", "CATCH_POKEMON", "GET_POKEMON"} |->
            CASE code = "NEW_POKEMON" -> "APPEARED_POKEMON"
              [] code = "CATCH_POKEMON" -> "CAUGHT_POKEMON"
              [] code = "GET_POKEMON" -> "LOCALIZED_POKEMON"]

Trainers == 1..Max({b.trainers : b \in Bounds})
MostRequests == Max({b.commands : b \in Bounds} \cup {b.catches : b \in Bounds})

\* <<0, i>> is the GameBoy's i-th, <<t, n>> the n-th of trainer t.
Requests == ({0} \cup Trainers) \X (1..MostRequests)

ASSUME Sizes ==
    /\ IsFiniteSet(Bounds) /\ Bounds # {}
    /\ \A b \in Bounds :
        /\ b.code \in DOMAIN Answer /\ b.ids \subseteq Nat
        /\ {b.stock, b.commands, b.trainers, b.catches, b.deaths, b.broker_deaths} \subseteq Nat
        /\ b.catches > 0 => b.code = "CATCH_POKEMON"

VARIABLES
    bound,         \* of Bounds, the one of this behaviour
    broker_up,     \* the broker runs
    message_count, \* ids given by this run of the broker
    publishers,    \* its threads in process_request and store_message
    subscriptor,   \* the socket of the queue's subscriptor, 0: none yet
    subscribing,   \* its threads in process_new_subscription
    messages,      \* the queue, a list of [m, receiver, received]
    acks,          \* bag of MESSAGE_RECEIVED on their way
    sockets,       \* how many subscriptions were opened
    connection,    \* the socket of the GameCard's subscription, 0: closed
    inbox,         \* what was sent on that socket
    reader,        \* its thread in subscribe_to
    told,          \* runs of the GameBoy so far
    gamecard_up,   \* the GameCard runs
    direct,        \* messages from the GameBoy whose thread has not acknowledged them yet
    threads,       \* bag of the GameCard's handler threads
    pokemons,      \* how many it stores
    team_socket,   \* the Team is subscribed to CAUGHT_POKEMON
    answers,       \* bag of the Team's handle_caught threads
    trainer,       \* each trainer with its pcb; heard: history, all it was given answers for
    deaths, broker_deaths,
    read,          \* history: requests the GameCard read
    applied,       \* history: how often each was applied
    doubts         \* history: what was in the way of each request

brokerVars == <<broker_up, message_count, publishers, subscriptor, subscribing, messages, acks>>
clientVars == <<sockets, connection, inbox, reader>>
gamecardVars == <<gamecard_up, direct, threads, pokemons, read, applied>>
teamVars == <<team_socket, answers, trainer>>
deathVars == <<deaths, broker_deaths, bound>>
vars == <<brokerVars, clientVars, told, gamecardVars, teamVars, deathVars, doubts>>

NoMessage == [code |-> "none", id |-> 0, correlative_id |-> 0, request |-> <<0, 0>>, result |-> 0]
Message(code, correlative_id, request, result) ==
    [NoMessage EXCEPT !.code = code, !.correlative_id = correlative_id, !.request = request,
                      !.result = result]

One(x) == SetToBag({x})
Doubt(requests, why) ==
    [r \in Requests |-> IF r \in requests THEN doubts[r] \cup {why} ELSE doubts[r]]

Catches == {r \in Trainers \X (1..MostRequests) : r[2] <= trainer[r[1]].n}

\* The GameCard is subscribed, and nothing was said yet.
Init ==
    /\ bound \in Bounds
    /\ broker_up = TRUE /\ message_count = 0 /\ publishers = {} /\ subscriptor = 1
    /\ subscribing = {} /\ messages = <<>> /\ acks = EmptyBag
    /\ sockets = 1 /\ connection = 1 /\ inbox = <<>> /\ reader = [pc |-> "recv", m |-> NoMessage]
    /\ told = 0
    /\ gamecard_up = TRUE /\ direct = {} /\ threads = EmptyBag /\ pokemons = bound.stock
    /\ team_socket = TRUE /\ answers = EmptyBag
    /\ trainer = [t \in Trainers |-> [pc |-> "free", n |-> 0, returned |-> {}, id_message |-> 0,
                                      sem_caught |-> 0, result_catch |-> 0, answer |-> <<0, 0>>,
                                      heard |-> {}]]
    /\ deaths = 0 /\ broker_deaths = 0
    /\ read = {} /\ applied = [r \in Requests |-> 0] /\ doubts = [r \in Requests |-> {}]

-----------------------------------------------------------------------------
(* The broker.                                                              *)

\* Mutant of Counted: the counter is copied and not written back.
Uncounted(count) == count

\* get_message_id.
Counted(count) == count + 1

\* process_request: the next id, and the thread that sends and stores the message.  (A message
\* of another queue only takes an id.)
Accept(m) ==
    /\ message_count' = Counted(message_count)
    /\ publishers' = publishers \cup
            {[pc |-> "send", m |-> [m EXCEPT !.id = message_count + 1], sent |-> 0,
              receiver |-> 0] : q \in {bound.code, "CAUGHT_POKEMON"} \cap {m.code}}

SendToSubscriptors(p) ==
    /\ p.pc = "send" /\ p.m.code = bound.code
    /\ inbox' = IF connection # 0 /\ connection = subscriptor THEN Append(inbox, p.m) ELSE inbox
    /\ publishers' = (publishers \ {p}) \cup {[p EXCEPT !.pc = "list", !.sent = subscriptor]}
    /\ UNCHANGED <<broker_up, message_count, subscriptor, subscribing, messages, acks, sockets,
                   connection, reader, told, gamecardVars, teamVars, deathVars, doubts>>

SendToTeam(p) ==
    /\ p.m.code = "CAUGHT_POKEMON"
    /\ answers' = IF team_socket THEN answers (+) One(p.m) ELSE answers
    /\ publishers' = publishers \ {p}
    /\ UNCHANGED <<broker_up, message_count, subscriptor, subscribing, messages, acks, clientVars,
                   told, gamecardVars, team_socket, trainer, deathVars, doubts>>

\* store_message, the receivers and the queue.
ListReceivers(p) ==
    /\ p.pc = "list"
    /\ publishers' = (publishers \ {p}) \cup
                        {[p EXCEPT !.pc = "enqueue", !.receiver = subscriptor]}
    /\ UNCHANGED <<broker_up, message_count, subscriptor, subscribing, messages, acks,
                   clientVars, told, gamecardVars, teamVars, deathVars, doubts>>

Enqueue(p) ==
    /\ p.pc = "enqueue"
    /\ messages' = Append(messages, [m |-> p.m, receiver |-> p.receiver, received |-> FALSE])
    /\ publishers' = publishers \ {p}
    /\ UNCHANGED <<broker_up, message_count, subscriptor, subscribing, acks, clientVars, told,
                   gamecardVars, teamVars, deathVars, doubts>>

\* process_new_subscription, and send_all_messages as far as the socket goes.
OverrideSocket(h) ==
    /\ h.pc = "override"
    /\ subscriptor' = h.socket
    /\ subscribing' = (subscribing \ {h}) \cup
            {[h EXCEPT !.pc = "replay", !.old_socket = IF subscriptor = 0 THEN h.socket
                                                      ELSE subscriptor]}
    /\ doubts' = IF subscriptor > h.socket THEN Doubt(Requests, "overtaken") ELSE doubts
    /\ UNCHANGED <<broker_up, message_count, publishers, messages, acks, clientVars, told,
                   gamecardVars, teamVars, deathVars>>

\* Mutants of AlreadyReceived: what was sent counts as received; nothing does.
AlreadySent(e, old_socket) == e.receiver = old_socket
NeverReceived(e, old_socket) == FALSE

AlreadyReceived(e, old_socket) == e.receiver = old_socket /\ e.received

\* The inbox when the messages at these places of the queue were sent, in its order.
Sent(places) ==
    LET sent[i \in 0..Len(messages)] ==
            IF i = 0 THEN inbox
            ELSE IF i \in places THEN Append(sent[i - 1], messages[i].m) ELSE sent[i - 1]
    IN  sent[Len(messages)]

\* send_all_messages: what the old socket acknowledged is skipped, and keeps that socket.
Replay(h) ==
    LET missed == {i \in DOMAIN messages : ~AlreadyReceived(messages[i], h.old_socket)} IN
    /\ h.pc = "replay"
    /\ inbox' = IF connection = h.socket THEN Sent(missed) ELSE inbox
    /\ messages' = [i \in DOMAIN messages |->
            IF i \in missed /\ messages[i].receiver = h.old_socket
            THEN [messages[i] EXCEPT !.receiver = h.socket] ELSE messages[i]]
    /\ subscribing' = subscribing \ {h}
    /\ doubts' = [r \in Requests |-> doubts[r]
            \cup {"gap" : p \in {p \in publishers : /\ p.m.request = r /\ p.m.code = bound.code
                                                   /\ p.pc # "send" /\ p.sent # h.socket}}
            \cup {"raced" : e \in {e \in ToSet(messages) : e.m.request = r /\ e.receiver = h.socket}}]
    /\ UNCHANGED <<broker_up, message_count, publishers, subscriptor, acks, sockets, connection,
                   reader, told, gamecardVars, teamVars, deathVars>>

\* process_message_received: the entry of the subscriptor's socket, if the message is queued.
process_message_ack(a) ==
    LET Found(e) == e.m.id = a.id /\ e.receiver = subscriptor IN
    /\ acks' = acks (-) One(a)
    /\ messages' = [i \in DOMAIN messages |-> IF Found(messages[i])
                                             THEN [messages[i] EXCEPT !.received = TRUE]
                                             ELSE messages[i]]
    /\ doubts' = [r \in Requests |-> doubts[r]
            \cup {"early" : p \in {p \in publishers : p.m.code = bound.code /\ p.m.id = a.id
                                                     /\ p.m.request = r}}
            \cup {"forged" : e \in {e \in ToSet(messages) : Found(e) /\ e.m.request = r
                                                              /\ r \notin read}}]
    /\ UNCHANGED <<broker_up, message_count, publishers, subscriptor, subscribing, clientVars,
                   told, gamecardVars, teamVars, deathVars>>

-----------------------------------------------------------------------------
(* The GameCard's subscription.                                             *)

\* subscribe_to connects as soon as the broker is there.
subscribe_to ==
    /\ reader.pc = "connect" /\ broker_up
    /\ sockets' = sockets + 1 /\ connection' = sockets + 1
    /\ subscribing' = subscribing \cup {[pc |-> "override", socket |-> sockets + 1,
                                         old_socket |-> 0]}
    /\ reader' = [reader EXCEPT !.pc = "recv"]
    /\ UNCHANGED <<broker_up, message_count, publishers, subscriptor, messages, acks, inbox, told,
                   gamecardVars, teamVars, deathVars, doubts>>

Thread(m) == One([pc |-> "apply", m |-> m, result |-> 0])

\* handle_event: a thread for what was read; the acknowledgement follows.
handle_event ==
    LET m == Head(inbox) IN
    /\ reader.pc = "recv" /\ inbox # <<>>
    /\ inbox' = Tail(inbox)
    /\ reader' = [pc |-> "ack", m |-> m]
    /\ threads' = threads (+) Thread(m) /\ read' = read \cup {m.request}
    /\ UNCHANGED <<brokerVars, sockets, connection, told, gamecard_up, direct, pokemons, applied,
                   teamVars, deathVars, doubts>>

SendAck(m) ==
    acks' = IF broker_up THEN acks (+) One([id |-> m.id, request |-> m.request]) ELSE acks

send_message_received_to_broker ==
    /\ reader.pc = "ack"
    /\ SendAck(reader.m)
    /\ reader' = [pc |-> "recv", m |-> NoMessage]
    /\ UNCHANGED <<broker_up, message_count, publishers, subscriptor, subscribing, messages,
                   sockets, connection, inbox, told, gamecardVars, teamVars, deathVars, doubts>>

\* The broker has closed the connection: the thread ends, for good.
Disconnected ==
    /\ reader.pc = "recv" /\ inbox = <<>> /\ connection = 0
    /\ reader' = [reader EXCEPT !.pc = "ended"]
    /\ UNCHANGED <<brokerVars, sockets, connection, inbox, told, gamecardVars, teamVars, deathVars,
                   doubts, bound>>

-----------------------------------------------------------------------------
(* The GameBoy.                                                             *)

\* Its main sends one message, to the broker or to the GameCard's listener, with the id it was
\* told.
GameBoyToBroker ==
    /\ told < bound.commands
    /\ told' = told + 1
    /\ IF broker_up THEN Accept(Message(bound.code, 0, <<0, told + 1>>, 0))
       ELSE UNCHANGED <<message_count, publishers>>
    /\ UNCHANGED <<broker_up, subscriptor, subscribing, messages, acks, clientVars, gamecardVars,
                   teamVars, deathVars, doubts>>

GameBoyToGameCard(id) ==
    LET m == [Message(bound.code, 0, <<0, told + 1>>, 0) EXCEPT !.id = id] IN
    /\ told < bound.commands /\ gamecard_up
    /\ told' = told + 1
    /\ direct' = direct \cup {m} /\ threads' = threads (+) Thread(m)
    /\ read' = read \cup {m.request}
    /\ doubts' = Doubt({m.request}, "named")
    /\ UNCHANGED <<brokerVars, clientVars, gamecard_up, pokemons, applied, teamVars, deathVars>>

\* handle_event acknowledges what came from the listener like anything else.
AckDirect(m) ==
    /\ direct' = direct \ {m}
    /\ SendAck(m)
    /\ UNCHANGED <<broker_up, message_count, publishers, subscriptor, subscribing, messages,
                   clientVars, told, gamecard_up, threads, pokemons, read, applied, teamVars,
                   deathVars, doubts>>

-----------------------------------------------------------------------------
(* The GameCard's handlers: handle_new_pokemon, handle_catch_pokemon and     *)
(* handle_get_pokemon.                                                       *)

Apply(h) ==
    LET found == pokemons > 0
        done == [h EXCEPT !.pc = "answer", !.result = IF found THEN 1 ELSE 0] IN
    /\ h.pc = "apply"
    /\ pokemons' = CASE h.m.code = "NEW_POKEMON" -> pokemons + 1
                     [] h.m.code = "CATCH_POKEMON" /\ found -> pokemons - 1
                     [] OTHER -> pokemons
    /\ threads' = (threads (-) One(h)) (+)
                    (IF h.m.code = "GET_POKEMON" /\ ~found THEN EmptyBag ELSE One(done))
    /\ applied' = [applied EXCEPT ![h.m.request] = @ + 1]
    /\ UNCHANGED <<brokerVars, clientVars, told, gamecard_up, direct, read, teamVars, deathVars,
                   doubts>>

\* Mutant of CorrelativeId: the id is in the wrong parameter of send_message here too.
NoCorrelativeId(m) == 0

\* send_caught_to_broker says which request it answers; send_appeared_to_broker and
\* send_localized_to_broker give the request's id for the message's own, which the broker replaces.
CorrelativeId(m) == IF m.code = "CATCH_POKEMON" THEN m.id ELSE 0

SendAnswer(h) ==
    /\ h.pc = "answer"
    /\ threads' = threads (-) One(h)
    /\ IF broker_up
       THEN Accept(Message(Answer[h.m.code], CorrelativeId(h.m), h.m.request, h.result))
       ELSE UNCHANGED <<message_count, publishers>>
    /\ UNCHANGED <<broker_up, subscriptor, subscribing, messages, acks, clientVars, told,
                   gamecard_up, direct, pokemons, read, applied, teamVars, deathVars, doubts>>

-----------------------------------------------------------------------------
(* The Team.                                                                *)

TeamFrame ==
    UNCHANGED <<broker_up, subscriptor, subscribing, messages, acks, clientVars, told,
                gamecardVars, team_socket, deathVars>>

\* Without a broker the pokemon counts as caught.
catch_pokemon(t) ==
    LET n == trainer[t].n + 1 IN
    /\ t <= bound.trainers /\ trainer[t].pc = "free"
    /\ Cardinality(Catches) < bound.catches
    /\ IF broker_up
       THEN /\ Accept(Message("CATCH_POKEMON", 0, <<t, n>>, 0))
            /\ trainer' = [trainer EXCEPT ![t].pc = "wait", ![t].n = n,
                                          ![t].returned = @ \cup {message_count + 1}]
       ELSE /\ trainer' = [trainer EXCEPT ![t].n = n, ![t].result_catch = 1]
            /\ UNCHANGED <<message_count, publishers>>
    /\ TeamFrame /\ UNCHANGED <<answers, doubts>>

receive_message_id(t) ==
    /\ \E id \in trainer[t].returned :
        trainer' = [trainer EXCEPT ![t].returned = @ \ {id}, ![t].id_message = id]
    /\ TeamFrame /\ UNCHANGED <<message_count, publishers, answers, doubts>>

\* The trainers that have still to be told that the id is that of their message.
Unaware(m) == {t \in Trainers : m.correlative_id \in trainer[t].returned}

\* obtener_trainer_mensaje: the first that holds the id.
handle_caught(m) ==
    LET holding == {t \in Trainers : trainer[t].id_message = m.correlative_id}
        first == CHOOSE t \in holding : \A u \in holding : t <= u IN
    /\ answers' = answers (-) One(m)
    /\ IF holding = {}
       THEN /\ doubts' = Doubt({<<t, trainer[t].n>> : t \in Unaware(m)}, "hasty")
            /\ UNCHANGED trainer
       ELSE /\ trainer' = [trainer EXCEPT ![first].result_catch = m.result,
                                          ![first].sem_caught = 1, ![first].answer = m.request,
                                          ![first].heard = @ \cup {m.request}]
            /\ UNCHANGED doubts
    /\ TeamFrame /\ UNCHANGED <<message_count, publishers>>

\* wait_catch returns, and the trainer's next pokemon may be matched.
wait_catch(t) ==
    /\ trainer[t].pc = "wait" /\ trainer[t].sem_caught = 1
    /\ trainer' = [trainer EXCEPT ![t].pc = "free", ![t].sem_caught = 0]
    /\ TeamFrame /\ UNCHANGED <<message_count, publishers, answers, doubts>>

-----------------------------------------------------------------------------
(* Processes that die and are started again.                                *)

\* What the GameCard was at work on, or had acknowledged a moment ago.
AtWork == {h.m.request : h \in BagToSet(threads)} \cup {a.request : a \in BagToSet(acks)}
            \cup (IF reader.pc = "ack" THEN {reader.m.request} ELSE {})

GameCardDies ==
    /\ gamecard_up /\ deaths < bound.deaths
    /\ deaths' = deaths + 1
    /\ gamecard_up' = FALSE /\ direct' = {} /\ threads' = EmptyBag
    /\ connection' = 0 /\ inbox' = <<>> /\ reader' = [pc |-> "off", m |-> NoMessage]
    /\ doubts' = Doubt(AtWork, "cut")
    /\ UNCHANGED <<brokerVars, sockets, told, pokemons, read, applied, teamVars, broker_deaths,
                   bound>>

GameCardStarts ==
    /\ ~gamecard_up
    /\ gamecard_up' = TRUE
    /\ reader' = [reader EXCEPT !.pc = "connect"]
    /\ UNCHANGED <<brokerVars, sockets, connection, inbox, told, direct, threads, pokemons, read,
                   applied, teamVars, deathVars, doubts>>

\* What it had sent can still be read.
BrokerDies ==
    /\ broker_up /\ broker_deaths < bound.broker_deaths
    /\ broker_deaths' = broker_deaths + 1
    /\ broker_up' = FALSE /\ publishers' = {} /\ subscribing' = {} /\ acks' = EmptyBag
    /\ subscriptor' = 0 /\ messages' = <<>>
    /\ connection' = 0 /\ team_socket' = FALSE
    /\ doubts' = Doubt(Requests, "broker died")
    /\ UNCHANGED <<message_count, sockets, inbox, reader, told, gamecardVars, answers, trainer,
                   deaths, bound>>

BrokerStarts ==
    /\ ~broker_up
    /\ broker_up' = TRUE /\ message_count' = 0
    /\ UNCHANGED <<publishers, subscriptor, subscribing, messages, acks, clientVars, told,
                   gamecardVars, teamVars, deathVars, doubts>>

-----------------------------------------------------------------------------
Broker ==
    \/ \E p \in publishers :
            SendToSubscriptors(p) \/ SendToTeam(p) \/ ListReceivers(p) \/ Enqueue(p)
    \/ \E h \in subscribing : OverrideSocket(h) \/ Replay(h)
    \/ \E a \in BagToSet(acks) : process_message_ack(a)

Client == subscribe_to \/ handle_event \/ send_message_received_to_broker \/ Disconnected

Handlers ==
    \/ \E m \in direct : AckDirect(m)
    \/ \E h \in BagToSet(threads) : Apply(h) \/ SendAnswer(h)

TeamThreads ==
    \/ \E t \in Trainers : receive_message_id(t) \/ wait_catch(t)
    \/ \E m \in BagToSet(answers) : handle_caught(m)

Next ==
    \/ Broker \/ Client \/ Handlers \/ TeamThreads
    \/ GameBoyToBroker \/ \E id \in bound.ids : GameBoyToGameCard(id)
    \/ \E t \in Trainers : catch_pokemon(t)
    \/ GameCardDies \/ GameCardStarts \/ BrokerDies \/ BrokerStarts

Spec == Init /\ [][Next]_vars

\* Every thread of a running process runs, and the GameCard is started again.  There are finitely
\* many messages, so a group of threads that goes on does all its work.
Fairness ==
    WF_vars(Broker) /\ WF_vars(Client) /\ WF_vars(Handlers) /\ WF_vars(TeamThreads)
        /\ WF_vars(GameCardStarts)

FairSpec == Spec /\ Fairness

-----------------------------------------------------------------------------
\* Every variable stays in the range the code's types and this model's bounds give it.
TypeOK ==
    /\ message_count \in Nat /\ sockets \in 1..(1 + deaths + broker_deaths)
    /\ subscriptor \in 0..sockets /\ connection \in {0, sockets}
    /\ reader.pc \in {"connect", "recv", "ack", "ended", "off"}
    /\ \A p, r \in publishers : p.m.id = r.m.id => p = r
    /\ IsABag(acks) /\ IsABag(threads) /\ IsABag(answers)
    /\ pokemons \in Nat /\ read \subseteq Requests
    /\ applied \in [Requests -> Nat]
    /\ \A t \in Trainers : trainer[t].sem_caught \in 0..1 /\ trainer[t].n \in 0..bound.catches

\* The GameCard does what a message asks once, although it comes again after a death, unless it
\* died at work on it, its acknowledgement was processed before it was queued, or it was queued
\* between a subscription's new socket and its replay; and unless the GameCard died twice.
AppliedOnce ==
    \A r \in Requests :
        applied[r] > 1 =>
            deaths > 1 \/ doubts[r] \cap {"cut", "early", "raced"} # {}

Asked(r) == IF r[1] = 0 THEN r[2] <= told ELSE r[2] <= trainer[r[1]].n

\* Whatever was asked is done in the end, even if the GameCard dies, unless it dies at work on it,
\* comes back between the send and the list_add of the message, its old subscription overtakes the
\* new one, somebody else's acknowledgement has the message's id, or the broker dies.
AppliedEventually ==
    <>[](\A r \in Requests :
            Asked(r) => \/ applied[r] > 0
                        \/ doubts[r] \cap {"cut", "gap", "overtaken", "forged", "broker died"} # {})

\* The answer that wakes a trainer is for what it asked last, unless a request of it was done
\* twice and answered twice, it was ever given the answer to a request to which the GameBoy gave
\* the id of another, or the broker was started again and gave the id again.
AnswerIsForRequest ==
    \A t \in Trainers :
        trainer[t].sem_caught = 1 =>
            \/ trainer[t].answer = <<t, trainer[t].n>>
            \/ \E n \in 1..trainer[t].n : applied[<<t, n>>] > 1
            \/ \E r \in trainer[t].heard : doubts[r] \cap {"named", "broker died"} # {}

\* In the end no trainer waits for an answer, unless its CATCH_POKEMON was not done for one of those
\* reasons, the answer came before the trainer knew its id, or the GameCard died before it was sent.
Answered ==
    <>[](\A t \in Trainers :
            trainer[t].pc = "wait" =>
                doubts[<<t, trainer[t].n>>] \cap {"cut", "gap", "overtaken", "forged",
                                                 "broker died", "hasty"} # {})
=============================================================================
