---------------------------- MODULE TeamCatching ----------------------------
(***************************************************************************)
(* The catching phase of a Team process (team/src/team.c, matcher.c,        *)
(* planner.c, trainer.c): the threads that handle APPEARED, LOCALIZED and   *)
(* CAUGHT messages, the matcher, the planner, the trainers' own threads and *)
(* the threads that deal with the outcome of a catch.  They share lists,    *)
(* dictionaries of counters, semaphores, and mutexes that one thread locks  *)
(* and another unlocks.                                                     *)
(*                                                                          *)
(* Positions are abstracted: any idle trainer may be the closest, and each  *)
(* walk is of 0..MaxDistance steps.  A dictionary entry is removed when its *)
(* counter gets to 0, so that 0 stands for a key that is not there; the     *)
(* pointers the code keeps into a dictionary show the counter's value of    *)
(* the moment it is read.  The global caught_pokemons is written only and   *)
(* left out.  The exchanges that follow when every trainer is full, and the *)
(* lists that prepare them, are not part of this module.                    *)
(***************************************************************************)
EXTENDS Integers, Sequences, SequencesExt, FiniteSetsExt

CONSTANTS Trainers,     \* the trainers, as numbers: the list trainers is in their order
          Pokemons,     \* species
          Objective,    \* objective of each trainer: how many of each species
          Caught,       \* what each trainer has by the configuration
          Algorithms,   \* values of ALGORITMO_PLANIFICACION
          QUANTUM,      \* steps before RR preempts
          MaxPokemons,  \* bound: pokemons that ever appear
          MaxMessages,  \* bound: APPEARED and LOCALIZED messages
          MaxDistance,  \* bound: steps of one walk
          MaxDuplicates,\* bound: CAUGHT messages delivered a second time
          Garbage       \* what malloc may have left in an id_message

Total(counters) == SumFunctionOnSet(counters, Pokemons)
TeamTotal(bags, p) == SumFunctionOnSet([t \in Trainers |-> bags[t][p]], Trainers)

\* Full by the configuration: handle_trainer makes it FULL, or EXIT, as it starts.
FullAtFirst == {t \in Trainers : Total(Caught[t]) = Total(Objective[t])}

\* What validate_pokemons_in_objectives and add_remaining do not refuse.  Somebody is
\* not full: else there is nothing to catch.
ASSUME ObjectivesAreSet ==
    /\ Trainers \subseteq Nat \ {0} /\ IsFiniteSet(Trainers) /\ FullAtFirst # Trainers
    /\ Objective \in [Trainers -> [Pokemons -> Nat]] /\ Caught \in [Trainers -> [Pokemons -> Nat]]
    /\ \A t \in Trainers, p \in Pokemons : Caught[t][p] > 0 => Objective[t][p] > 0
    /\ \A p \in Pokemons : TeamTotal(Caught, p) <= TeamTotal(Objective, p)

ASSUME BoundsAreNat ==
    /\ QUANTUM \in Nat \ {0} /\ MaxPokemons \in Nat /\ MaxMessages \in Nat
    /\ MaxDistance \in Nat /\ MaxDuplicates \in Nat /\ Garbage \subseteq Nat

Catches == 1..MaxPokemons
MessageThreads == 1..MaxMessages

VARIABLES
    algorithm,       \* ALGORITMO_PLANIFICACION
    crashed,         \* the process died on an invalid pointer
    remaining,       \* remaining_pokemons
    being_caught,    \* being_caught_pokemons
    received,        \* pokemon_received_to_catch: list of species
    appeared_backup, \* list of [list, pokemon]; list: a whole list put in as one element
    matches,         \* list of [trainer, pokemon]
    sem_trainer_available, \* its value
    sem_appeared_pokemon,  \* its value
    mutex_planning,  \* TRUE: locked
    message,         \* handle_appeared, handle_localized threads
    appeared,        \* pokemons that appeared so far
    matcher,         \* the matcher's thread
    trainer,         \* each trainer's thread, t_trainer and t_pcb_trainer
    catch,           \* each catch: its trainer, receive_message_id and handle_catch threads
    catches,         \* catches so far; the id of the CATCH message of each is its number
    caught_messages, \* CAUGHT messages under way: [id, result]
    sem_all_pokemons_caught, \* its value
    answered,        \* catches GameCard has answered
    duplicates,      \* CAUGHT messages delivered a second time
    lost,            \* history: catches whose answer did not reach their trainer
    misled           \* history: trainers that lost a pokemon they were to catch

counterVars == <<remaining, being_caught>>
listVars == <<received, appeared_backup, sem_appeared_pokemon>>
planVars == <<matches, mutex_planning, misled>>
messageVars == <<message, appeared>>
catchVars == <<catch, catches>>
answerVars == <<caught_messages, sem_all_pokemons_caught, answered, duplicates, lost>>
vars == <<algorithm, crashed, counterVars, listVars, planVars, sem_trainer_available,
          messageVars, matcher, trainer, catchVars, answerVars>>

Nobody == 0
NoMatch == [trainer |-> Nobody, pokemon |-> CHOOSE p \in Pokemons : TRUE]

NoThread(pc) == [pc |-> pc, localized |-> FALSE, pokemon |-> NoMatch.pokemon,
                 size |-> 0, rest |-> 0, q |-> 0, has |-> FALSE]

\* What a full trainer with these pokemons becomes: EXIT when validate_deadlock finds that
\* it has what it wants.
FullStatus(t, caught) == IF caught = Objective[t] THEN "EXIT" ELSE "FULL"

\* Every trainer's thread has come to its loop, and the semaphores are set: init_sem posts
\* a permit for each trainer, those that are full by the configuration included.
Init ==
    /\ algorithm \in Algorithms
    /\ crashed = FALSE
    /\ remaining = [p \in Pokemons |-> TeamTotal(Objective, p) - TeamTotal(Caught, p)]
    /\ being_caught = [p \in Pokemons |-> 0]
    /\ received = <<>>
    /\ appeared_backup = <<>>
    /\ matches = <<>>
    /\ sem_trainer_available = Cardinality(Trainers)
    /\ sem_appeared_pokemon = 0
    /\ mutex_planning = FALSE
    /\ message = [n \in MessageThreads |-> NoThread("none")]
    /\ appeared = 0
    /\ matcher = [pc |-> "wait", wanted |-> {}, has |-> {}, match |-> NoMatch]
    /\ \E garbage \in [Trainers -> Garbage] :
        trainer = [t \in Trainers |->
            [pc |-> "loop", pcb |-> "NEW", sem |-> 0, sem_caught |-> 0,
             status |-> IF t \in FullAtFirst THEN FullStatus(t, Caught[t]) ELSE "NEW",
             pokemon_to_catch |-> NoMatch.pokemon, left |-> 0, quantum |-> 0,
             result_catch |-> 0, id_message |-> garbage[t], caught |-> Caught[t]]]
    /\ catch = [c \in Catches |-> [trainer |-> Nobody, id |-> "none", pc |-> "none",
                                backup |-> NoMatch.pokemon]]
    /\ catches = 0
    /\ caught_messages = {}
    /\ sem_all_pokemons_caught = 0
    /\ answered = {}
    /\ duplicates = 0
    /\ lost = {}
    /\ misled = {}

Running == ~crashed /\ UNCHANGED <<algorithm, crashed>>

\* What no step of a thread of each kind changes.
MessageFrame ==
    Running /\ UNCHANGED <<counterVars, planVars, sem_trainer_available, matcher, trainer,
                         catchVars, answerVars>>
MatcherFrame ==
    Running /\ UNCHANGED <<remaining, appeared_backup, mutex_planning, misled, messageVars,
                         catchVars, answerVars>>
TrainerFrame ==
    Running /\ UNCHANGED <<counterVars, listVars, sem_trainer_available, messageVars,
                         matcher, answerVars>>
CatchFrame == Running /\ UNCHANGED <<planVars, messageVars, matcher, catches>>

\* The process dies, and with it every thread.
Die ==
    /\ ~crashed
    /\ crashed' = TRUE
    /\ UNCHANGED <<algorithm, counterVars, listVars, planVars, sem_trainer_available,
                   messageVars, matcher, trainer, catchVars, answerVars>>

-----------------------------------------------------------------------------
(* The mutexes that a thread keeps from one action to another.             *)

\* handle_appeared keeps it while it decides and while it waits for the backup's.
mutex_pokemon_received_to_catch ==
    \/ matcher.pc = "choose"
    \/ \E n \in MessageThreads :
            ~message[n].localized /\ message[n].pc \in {"decide", "backup"}

\* search_in_backup keeps it while it waits for the list of those to catch.
mutex_appeared_backup == \E c \in Catches : catch[c].pc = "refill"

-----------------------------------------------------------------------------
(* handle_appeared and handle_localized, each message in a thread.         *)

\* A message arrives, of an appeared pokemon or of size localized ones.
ReceiveMessage(n, p, localized, size) ==
    /\ message[n].pc = "none"
    /\ \A i \in 1..(n - 1) : message[i].pc # "none"
    /\ appeared + size <= MaxPokemons
    /\ appeared' = appeared + size
    /\ message' = [message EXCEPT ![n] = [@ EXCEPT !.pc = "remaining", !.localized = localized,
                                                  !.pokemon = p, !.size = size]]
    /\ MessageFrame /\ UNCHANGED listVars

\* A species nobody wants, or wants no more of, is forgotten.
ReadRemaining(n) ==
    /\ message[n].pc = "remaining"
    /\ message' = [message EXCEPT ![n] = IF remaining[message[n].pokemon] > 0
                                         THEN [@ EXCEPT !.pc = "count"] ELSE NoThread("done")]
    /\ MessageFrame /\ UNCHANGED <<listVars, appeared>>

\* get_q_received, up to dictionary_has_key.  Only handle_appeared locks the list.
CountReceived(n) ==
    LET p == message[n].pokemon IN
    /\ message[n].pc = "count"
    /\ message[n].localized \/ ~mutex_pokemon_received_to_catch
    /\ message' = [message EXCEPT ![n] =
                        [@ EXCEPT !.pc = "decide",
                                  !.q = Cardinality({i \in DOMAIN received : received[i] = p}),
                                  !.has = being_caught[p] > 0]]
    /\ MessageFrame /\ UNCHANGED <<listVars, appeared>>

\* What get_q_received returns, if dictionary_get still finds the key.
QReceived(n) ==
    message[n].q + (IF message[n].has THEN being_caught[message[n].pokemon] ELSE 0)

\* The key was there and is gone: dictionary_get's NULL is followed.
KeyGone(n) == message[n].has /\ being_caught[message[n].pokemon] = 0

\* The code's (*q_catch - q_received) > 0, on unsigned numbers.
StillWanted(n) == remaining[message[n].pokemon] # QReceived(n)

DecideAppeared(n) ==
    /\ message[n].pc = "decide" /\ ~message[n].localized
    /\ ~KeyGone(n)
    /\ \/ /\ StillWanted(n)
          /\ received' = Append(received, message[n].pokemon)
          /\ sem_appeared_pokemon' = sem_appeared_pokemon + 1
          /\ message' = [message EXCEPT ![n] = NoThread("done")]
       \/ /\ ~StillWanted(n)
          /\ UNCHANGED <<received, sem_appeared_pokemon>>
          /\ message' = [message EXCEPT ![n].pc = "backup"]
    /\ MessageFrame /\ UNCHANGED <<appeared_backup, appeared>>

\* The first of the localized ones, as many as i < *q_catch - q_received lets
\* through (all of them when the unsigned difference wraps around).
ToCatch(n) ==
    LET wanted == remaining[message[n].pokemon]
    IN  IF QReceived(n) > wanted THEN message[n].size
        ELSE Cardinality({i \in 0..(message[n].size - 1) : i < wanted - QReceived(n)})

DecideLocalized(n) ==
    /\ message[n].pc = "decide" /\ message[n].localized
    /\ ~KeyGone(n)
    /\ message' = [message EXCEPT ![n] =
                        [@ EXCEPT !.pc = IF ToCatch(n) > 0 THEN "add" ELSE "backup",
                                  !.size = ToCatch(n), !.rest = message[n].size - ToCatch(n)]]
    /\ MessageFrame /\ UNCHANGED <<listVars, appeared>>

DecideOnNothing(n) ==
    /\ message[n].pc = "decide"
    /\ KeyGone(n)
    /\ Die

AddLocalized(n) ==
    /\ message[n].pc = "add"
    /\ ~mutex_pokemon_received_to_catch
    /\ received' = received \o [i \in 1..message[n].size |-> message[n].pokemon]
    /\ sem_appeared_pokemon' = sem_appeared_pokemon + message[n].size
    /\ message' = [message EXCEPT ![n] = IF @.rest > 0 THEN [@ EXCEPT !.pc = "backup"]
                                         ELSE NoThread("done")]
    /\ MessageFrame /\ UNCHANGED <<appeared_backup, appeared>>

\* handle_localized puts its list of pokemons into the backup as one element.
AddToBackup(n) ==
    /\ message[n].pc = "backup"
    /\ ~mutex_appeared_backup
    /\ appeared_backup' = Append(appeared_backup, [list |-> message[n].localized,
                                                   pokemon |-> message[n].pokemon])
    /\ message' = [message EXCEPT ![n] = NoThread("done")]
    /\ MessageFrame /\ UNCHANGED <<received, sem_appeared_pokemon, appeared>>

-----------------------------------------------------------------------------
(* match_pokemon_with_trainer.                                             *)

\* Mutant of SemWait: the semaphore is tested and not lowered.
SemTested(sem) == sem

SemWait(sem) == sem - 1

\* Both semaphores and both mutexes are taken; check_remaining_minus_vistima
\* has asked which species have a key in either dictionary.
LookForMatch ==
    /\ matcher.pc = "wait"
    /\ sem_trainer_available > 0 /\ sem_appeared_pokemon > 0
    /\ ~mutex_pokemon_received_to_catch
    /\ sem_trainer_available' = SemWait(sem_trainer_available)
    /\ sem_appeared_pokemon' = SemWait(sem_appeared_pokemon)
    /\ matcher' = [matcher EXCEPT !.pc = "choose",
                                  !.wanted = {p \in Pokemons : remaining[p] > 0},
                                  !.has = {p \in Pokemons : being_caught[p] > 0}]
    /\ MatcherFrame /\ UNCHANGED <<being_caught, received, matches, trainer>>

not_exec(t) ==
    /\ trainer[t].status \notin {"EXIT", "FULL", "EXEC", "READY"}
    /\ trainer[t].pcb = "NEW"

\* check_remaining_minus_vistima is not 0: the unsigned difference of what
\* remains and what is being caught, or what remains if nothing was.
Catchable(p) ==
    /\ p \in matcher.wanted
    /\ remaining[p] # (IF p \in matcher.has THEN being_caught[p] ELSE 0)

Candidates == {i \in DOMAIN received : Catchable(received[i])}

\* A key was there and is gone.
MatcherKeyGone ==
    \E i \in DOMAIN received : /\ received[i] \in matcher.wanted \cap matcher.has
                               /\ being_caught[received[i]] = 0

\* The closest of the pokemons and its closest trainer, wherever they are.
ChooseMatch ==
    /\ matcher.pc = "choose"
    /\ ~MatcherKeyGone
    /\ \E i \in Candidates, t \in {u \in Trainers : not_exec(u)} :
        /\ matcher' = [matcher EXCEPT !.pc = "add",
                            !.match = [trainer |-> t, pokemon |-> received[i]]]
        /\ being_caught' = [being_caught EXCEPT ![received[i]] = @ + 1]
        /\ received' = RemoveAt(received, i)
    /\ MatcherFrame /\ UNCHANGED <<sem_appeared_pokemon, matches, sem_trainer_available,
                   trainer>>

\* No pokemon of the list is catchable, or no trainer idle: pointers never set are
\* followed, which is where the process dies here.
ChooseNothing ==
    /\ matcher.pc = "choose"
    /\ MatcherKeyGone \/ Candidates = {} \/ \A t \in Trainers : ~not_exec(t)
    /\ Die

AddMatch ==
    /\ matcher.pc = "add"
    /\ trainer' = [trainer EXCEPT ![matcher.match.trainer].status = "READY"]
    /\ matches' = Append(matches, matcher.match)
    /\ matcher' = [matcher EXCEPT !.pc = "wait", !.wanted = {}, !.has = {}, !.match = NoMatch]
    /\ MatcherFrame /\ UNCHANGED <<being_caught, received, sem_appeared_pokemon,
                   sem_trainer_available>>

-----------------------------------------------------------------------------
(* planning_catch: mutex_planning is locked here and unlocked by the trainer *)
(* when it gets preempted or waits for the answer to its CATCH.              *)

\* planner_fifo and planner_rr take the head; planner_sjf the trainer with the
\* least estimate, which may be any.
NextToExec == IF algorithm \in {"FIFO", "RR"} THEN {1} \cap DOMAIN matches ELSE DOMAIN matches

\* Mutant of MayPlan: the planner does not wait for mutex_planning.
MayPlanAlways == TRUE

MayPlan == ~mutex_planning

\* The catches of trainer t that being_caught_pokemons still counts.
UnderWay(t) ==
    {c \in Catches : /\ catch[c].trainer = t
                     /\ catch[c].pc \in {"none", "result", "refill", "being caught"}}

\* desalojar has unlocked mutex_planning and has yet to put the trainer back.
BeingPutBack == {t \in Trainers : trainer[t].pc \in {"preempt", "ready", "requeue"}}

\* Trainer t is given another pokemon to catch while handle_catch, or desalojar, has yet
\* to read which one its last catch is of.
Overwritten(t, p) ==
    IF (UnderWay(t) # {} \/ t \in BeingPutBack) /\ trainer[t].pokemon_to_catch # p
    THEN {t} ELSE {}

Plan ==
    /\ MayPlan
    /\ \E i \in NextToExec :
        /\ matches' = RemoveAt(matches, i)
        /\ misled' = misled \cup Overwritten(matches[i].trainer, matches[i].pokemon)
        /\ trainer' = [trainer EXCEPT ![matches[i].trainer] =
                            [@ EXCEPT !.pokemon_to_catch = matches[i].pokemon,
                                      !.status = "EXEC", !.sem = 1]]
    /\ mutex_planning' = TRUE
    /\ TrainerFrame /\ UNCHANGED catchVars

-----------------------------------------------------------------------------
(* handle_trainer: trainer_catch_pokemon, move_to_position, catch_pokemon.  *)

\* The trainer was unlocked and sets out.
Start(t) ==
    /\ trainer[t].pc = "loop" /\ trainer[t].sem = 1
    /\ \E distance \in 0..MaxDistance :
        trainer' = [trainer EXCEPT ![t] = [@ EXCEPT !.pc = "move", !.sem = 0, !.pcb = "EXEC",
                                                    !.left = distance]]
    /\ TrainerFrame /\ UNCHANGED <<planVars, catchVars>>

\* trainer_must_go_on after a step: RR counts quanta, SJF-CD compares estimates
\* with those of the matches and may do either.
GoesOn(t) == \/ algorithm \in {"FIFO", "SJF-SD", "SJF-CD"}
             \/ algorithm = "RR" /\ trainer[t].quantum + 1 < QUANTUM

Preempted(t) == \/ algorithm = "RR" /\ trainer[t].quantum + 1 >= QUANTUM
                \/ algorithm = "SJF-CD" /\ matches # <<>>

StepAndGoOn(t) ==
    /\ trainer[t].pc = "move" /\ trainer[t].left > 0
    /\ GoesOn(t)
    /\ trainer' = [trainer EXCEPT ![t] =
                        [@ EXCEPT !.left = trainer[t].left - 1,
                                  !.quantum = trainer[t].quantum + (IF algorithm = "RR" THEN 1 ELSE 0)]]
    /\ TrainerFrame /\ UNCHANGED <<planVars, catchVars>>

\* desalojar: mutex_planning is unlocked before anything else is done.
StepAndPreempt(t) ==
    /\ trainer[t].pc = "move" /\ trainer[t].left > 0
    /\ Preempted(t)
    /\ mutex_planning' = FALSE
    /\ trainer' = [trainer EXCEPT ![t] =
                        [@ EXCEPT !.pc = "preempt", !.left = trainer[t].left - 1, !.quantum = 0]]
    /\ TrainerFrame /\ UNCHANGED <<matches, misled, catchVars>>

\* desalojar, the status.
BecomeReady(t) ==
    /\ trainer[t].pc = "preempt"
    /\ trainer' = [trainer EXCEPT ![t] = [@ EXCEPT !.pc = "ready", !.status = "READY"]]
    /\ TrainerFrame /\ UNCHANGED <<planVars, catchVars>>

\* desalojar, was this a catch?  A trainer whose pcb is no longer EXEC takes the branch of
\* the exchanges instead, and is not put back among the matches.
CheckExec(t) ==
    /\ trainer[t].pc = "ready"
    /\ \/ /\ trainer[t].pcb = "EXEC"
          /\ trainer' = [trainer EXCEPT ![t].pc = "requeue"] /\ misled' = misled
       \/ /\ trainer[t].pcb # "EXEC"
          /\ trainer' = [trainer EXCEPT ![t].pc = "stranded"] /\ misled' = misled \cup {t}
    /\ TrainerFrame /\ UNCHANGED <<matches, mutex_planning, catchVars>>

\* Mutant of Requeued: a preempted trainer is not put back.
NotRequeued(t) == <<>>

Requeued(t) == <<[trainer |-> t, pokemon |-> trainer[t].pokemon_to_catch]>>

\* desalojar, the trainer is put back with its pokemon_to_catch of now, and waits to be
\* planned again.
Requeue(t) ==
    /\ trainer[t].pc = "requeue"
    /\ matches' = matches \o Requeued(t)
    /\ trainer' = [trainer EXCEPT ![t].pc = "preempted"]
    /\ TrainerFrame /\ UNCHANGED <<mutex_planning, misled, catchVars>>

Resume(t) ==
    /\ trainer[t].pc \in {"preempted", "stranded"} /\ trainer[t].sem = 1
    /\ trainer' = [trainer EXCEPT ![t] = [@ EXCEPT !.pc = "move", !.sem = 0]]
    /\ TrainerFrame /\ UNCHANGED <<planVars, catchVars>>

\* catch_pokemon with the broker: CATCH is sent, a thread waits for its id, and
\* wait_catch unlocks mutex_planning ...
SendCatch(t) ==
    /\ trainer[t].pc = "move" /\ trainer[t].left = 0
    /\ catches' = catches + 1
    /\ catch' = [catch EXCEPT ![catches + 1] = [@ EXCEPT !.trainer = t, !.id = "sent"]]
    /\ trainer' = [trainer EXCEPT ![t].pc = "catch"]
    /\ mutex_planning' = FALSE
    /\ TrainerFrame /\ UNCHANGED <<matches, misled>>

\* ... then sets the status and waits for the answer.
WaitCatch(t) ==
    /\ trainer[t].pc = "catch"
    /\ trainer' = [trainer EXCEPT ![t] = [@ EXCEPT !.pc = "caught", !.status = "CATCHING"]]
    /\ TrainerFrame /\ UNCHANGED <<planVars, catchVars>>

\* Without a broker the pokemon counts as caught ...
CatchByDefault(t) ==
    /\ trainer[t].pc = "move" /\ trainer[t].left = 0
    /\ catches' = catches + 1
    /\ catch' = [catch EXCEPT ![catches + 1].trainer = t]
    /\ trainer' = [trainer EXCEPT ![t] = [@ EXCEPT !.pc = "default", !.result_catch = 1]]
    /\ mutex_planning' = FALSE
    /\ TrainerFrame /\ UNCHANGED <<matches, misled>>

\* ... and a thread of its own (handle_catch) deals with it at once.
DealWithDefault(t) ==
    /\ trainer[t].pc = "default"
    /\ \E c \in Catches :
        /\ catch[c].trainer = t /\ catch[c].id = "none" /\ catch[c].pc = "none"
        /\ catch' = [catch EXCEPT ![c].pc = "result"]
    /\ trainer' = [trainer EXCEPT ![t] = [@ EXCEPT !.pc = "loop", !.status = "CATCHING"]]
    /\ TrainerFrame /\ UNCHANGED <<planVars, catches>>

\* receive_message_id.
ReceiveMessageId(c) ==
    /\ catch[c].id = "sent"
    /\ catch' = [catch EXCEPT ![c].id = "known"]
    /\ trainer' = [trainer EXCEPT ![catch[c].trainer].id_message = c]
    /\ CatchFrame /\ UNCHANGED <<counterVars, listVars, sem_trainer_available, answerVars>>

\* sem_caught was unlocked: handle_catch starts, and the trainer's loop goes on.
Answered(c) ==
    LET t == catch[c].trainer IN
    /\ catch[c].id # "none" /\ catch[c].pc = "none"
    /\ trainer[t].pc = "caught" /\ trainer[t].sem_caught = 1
    /\ trainer' = [trainer EXCEPT ![t] = [@ EXCEPT !.pc = "loop", !.sem_caught = 0]]
    /\ catch' = [catch EXCEPT ![c].pc = "result"]
    /\ CatchFrame /\ UNCHANGED <<counterVars, listVars, sem_trainer_available, answerVars>>

-----------------------------------------------------------------------------
(* GameCard's answer and handle_caught.                                     *)

Answer(c, result) ==
    /\ catch[c].id # "none" /\ c \notin answered
    /\ answered' = answered \cup {c}
    /\ caught_messages' = caught_messages \cup {[id |-> c, result |-> result]}
    /\ CatchFrame /\ UNCHANGED <<counterVars, listVars, sem_trainer_available, trainer,
                   catch, sem_all_pokemons_caught, duplicates, lost>>

\* The trainers obtener_trainer_mensaje can find.
Named(c) == {t \in Trainers : trainer[t].id_message = c}

\* The first of them gets the result.  The broker may deliver a message twice.
HandleCaught(m) ==
    /\ \/ caught_messages' = caught_messages \ {m} /\ duplicates' = duplicates
       \/ /\ duplicates < MaxDuplicates
          /\ caught_messages' = caught_messages /\ duplicates' = duplicates + 1
    /\ \/ Named(m.id) = {} /\ trainer' = trainer
       \/ \E t \in Named(m.id) :
            /\ \A u \in Named(m.id) : t <= u
            /\ trainer' = [trainer EXCEPT ![t] = [@ EXCEPT !.result_catch = m.result,
                                                   !.sem_caught = 1]]
    /\ lost' = IF Named(m.id) = {catch[m.id].trainer} THEN lost ELSE lost \cup {m.id}
    /\ CatchFrame /\ UNCHANGED <<counterVars, listVars, sem_trainer_available, catch,
                   sem_all_pokemons_caught, answered>>

-----------------------------------------------------------------------------
(* handle_catch, in a thread of its own.  It reads the trainer's fields as  *)
(* they are by then.                                                        *)

Pokemon(c) == trainer[catch[c].trainer].pokemon_to_catch
Result(c) == trainer[catch[c].trainer].result_catch

\* substract_from_dictionary: a key that is not there is left alone.
Substract(n) == IF n > 0 THEN n - 1 ELSE 0

\* Caught: the trainer has one more and one less remains.
CountCaught(c) ==
    /\ catch[c].pc = "result" /\ Result(c) = 1
    /\ trainer' = [trainer EXCEPT ![catch[c].trainer].caught[Pokemon(c)] = @ + 1]
    /\ remaining' = [remaining EXCEPT ![Pokemon(c)] = Substract(@)]
    /\ catch' = [catch EXCEPT ![c].pc = "being caught"]
    /\ CatchFrame /\ UNCHANGED <<being_caught, listVars, sem_trainer_available, answerVars>>

\* search_in_backup looks at the elements up to the first of the species; those
\* that are lists in truth have no species.
Similar(c) == {i \in DOMAIN appeared_backup :
                  appeared_backup[i].list \/ appeared_backup[i].pokemon = Pokemon(c)}

NoneInBackup(c) ==
    /\ catch[c].pc = "result" /\ Result(c) = 0
    /\ ~mutex_appeared_backup
    /\ Similar(c) = {}
    /\ catch' = [catch EXCEPT ![c].pc = "being caught"]
    /\ CatchFrame /\ UNCHANGED <<counterVars, listVars, sem_trainer_available, trainer,
                   answerVars>>

TakeFromBackup(c) ==
    /\ catch[c].pc = "result" /\ Result(c) = 0
    /\ ~mutex_appeared_backup
    /\ Similar(c) # {} /\ ~appeared_backup[Min(Similar(c))].list
    /\ appeared_backup' = RemoveAt(appeared_backup, Min(Similar(c)))
    /\ catch' = [catch EXCEPT ![c] = [@ EXCEPT !.pc = "refill", !.backup = Pokemon(c)]]
    /\ CatchFrame /\ UNCHANGED <<counterVars, received, sem_appeared_pokemon,
                   sem_trainer_available, trainer, answerVars>>

MisreadBackup(c) ==
    /\ catch[c].pc = "result" /\ Result(c) = 0
    /\ ~mutex_appeared_backup
    /\ Similar(c) # {} /\ appeared_backup[Min(Similar(c))].list
    /\ Die

\* The pokemon of the backup takes the place of the one that got away.
Refill(c) ==
    /\ catch[c].pc = "refill"
    /\ ~mutex_pokemon_received_to_catch
    /\ received' = Append(received, catch[c].backup)
    /\ sem_appeared_pokemon' = sem_appeared_pokemon + 1
    /\ catch' = [catch EXCEPT ![c].pc = "being caught"]
    /\ CatchFrame /\ UNCHANGED <<counterVars, appeared_backup, sem_trainer_available,
                   trainer, answerVars>>

\* Mutant of OneLess: the pokemon is still counted as being caught.
NotOneLess(n) == n

OneLess(n) == Substract(n)

NoLongerBeingCaught(c) ==
    /\ catch[c].pc = "being caught"
    /\ being_caught' = [being_caught EXCEPT ![Pokemon(c)] = OneLess(@)]
    /\ catch' = [catch EXCEPT ![c].pc = "full?"]
    /\ CatchFrame /\ UNCHANGED <<remaining, listVars, sem_trainer_available, trainer,
                   answerVars>>

is_trainer_full(t) == Total(trainer[t].caught) = Total(Objective[t])

\* The trainer is full.
BecomeFull(c) ==
    LET t == catch[c].trainer IN
    /\ catch[c].pc = "full?" /\ is_trainer_full(t)
    /\ trainer' = [trainer EXCEPT ![t].status = FullStatus(t, trainer[t].caught)]
    /\ catch' = [catch EXCEPT ![c].pc = "all full?"]
    /\ CatchFrame /\ UNCHANGED <<counterVars, listVars, sem_trainer_available, answerVars>>

AllFull ==
    /\ \A p \in Pokemons : remaining[p] = 0
    /\ \A t \in Trainers : trainer[t].status \in {"FULL", "EXIT"}

\* all_trainers_full, under mutex_trainers, and main is woken if so.
WakeMain(c) ==
    /\ catch[c].pc = "all full?"
    /\ matcher.pc # "choose"
    /\ sem_all_pokemons_caught' = sem_all_pokemons_caught + (IF AllFull THEN 1 ELSE 0)
    /\ catch' = [catch EXCEPT ![c].pc = "done"]
    /\ CatchFrame /\ UNCHANGED <<counterVars, listVars, sem_trainer_available, trainer,
                   caught_messages, answered, duplicates, lost>>

\* Not full: the trainer may be matched again, first by its pcb's status ...
BecomeNew(c) ==
    /\ catch[c].pc = "full?" /\ ~is_trainer_full(catch[c].trainer)
    /\ trainer' = [trainer EXCEPT ![catch[c].trainer].pcb = "NEW"]
    /\ catch' = [catch EXCEPT ![c].pc = "block"]
    /\ CatchFrame /\ UNCHANGED <<counterVars, listVars, sem_trainer_available, answerVars>>

\* ... then by its own, and the matcher is told.
BecomeAvailable(c) ==
    /\ catch[c].pc = "block"
    /\ trainer' = [trainer EXCEPT ![catch[c].trainer] =
                        [@ EXCEPT !.status = "BLOCK", !.quantum = 0]]
    /\ sem_trainer_available' = sem_trainer_available + 1
    /\ catch' = [catch EXCEPT ![c].pc = "done"]
    /\ CatchFrame /\ UNCHANGED <<counterVars, listVars, answerVars>>

-----------------------------------------------------------------------------
MessageStep(n) ==
    \/ ReadRemaining(n) \/ CountReceived(n) \/ DecideAppeared(n) \/ DecideLocalized(n)
    \/ DecideOnNothing(n) \/ AddLocalized(n) \/ AddToBackup(n)

MatcherStep == LookForMatch \/ ChooseMatch \/ ChooseNothing \/ AddMatch

TrainerStep(t) ==
    \/ Start(t) \/ StepAndGoOn(t) \/ Resume(t)
    \/ StepAndPreempt(t) \/ BecomeReady(t) \/ CheckExec(t) \/ Requeue(t)
    \/ SendCatch(t) \/ WaitCatch(t) \/ CatchByDefault(t) \/ DealWithDefault(t)

CatchStep(c) ==
    \/ Answered(c)
    \/ CountCaught(c) \/ NoneInBackup(c) \/ TakeFromBackup(c) \/ MisreadBackup(c) \/ Refill(c)
    \/ NoLongerBeingCaught(c) \/ BecomeFull(c) \/ WakeMain(c) \/ BecomeNew(c)
    \/ BecomeAvailable(c)

AnyMessage == [id : Catches, result : {0, 1}]

Next ==
    \/ \E n \in MessageThreads :
        \/ \E p \in Pokemons : \/ ReceiveMessage(n, p, FALSE, 1)
                              \/ \E size \in 1..MaxPokemons : ReceiveMessage(n, p, TRUE, size)
        \/ MessageStep(n)
    \/ MatcherStep
    \/ Plan
    \/ \E t \in Trainers : TrainerStep(t)
    \/ \E c \in Catches : \/ ReceiveMessageId(c) \/ CatchStep(c)
                         \/ \E result \in {0, 1} : Answer(c, result)
    \/ \E m \in caught_messages : HandleCaught(m)

Spec == Init /\ [][Next]_vars

\* Every thread that can run is run in the end; GameCard answers every CATCH.
Fairness ==
    /\ \A n \in MessageThreads : WF_vars(MessageStep(n))
    /\ WF_vars(MatcherStep)
    /\ WF_vars(Plan)
    /\ \A t \in Trainers : WF_vars(TrainerStep(t))
    /\ \A c \in Catches : /\ WF_vars(ReceiveMessageId(c))
                          /\ WF_vars(CatchStep(c))
                          /\ WF_vars(\E result \in {0, 1} : Answer(c, result))
    /\ \A m \in AnyMessage : WF_vars(m \in caught_messages /\ HandleCaught(m))

FairSpec == Spec /\ Fairness

-----------------------------------------------------------------------------
MessageState ==
    [pc : {"none", "remaining", "count", "decide", "add", "backup", "done"},
     localized : BOOLEAN, pokemon : Pokemons, size : 0..MaxPokemons, rest : 0..MaxPokemons,
     q : Nat, has : BOOLEAN]

Match == [trainer : Trainers \cup {Nobody}, pokemon : Pokemons]

TrainerState ==
    [pc : {"loop", "move", "preempt", "ready", "requeue", "preempted", "stranded", "catch",
           "caught", "default"},
     status : {"NEW", "READY", "EXEC", "BLOCK", "EXIT", "FULL", "CATCHING"},
     pcb : {"NEW", "EXEC"}, sem : {0, 1}, sem_caught : {0, 1}, pokemon_to_catch : Pokemons,
     left : 0..MaxDistance, quantum : 0..QUANTUM, result_catch : {0, 1}, id_message : Nat,
     caught : [Pokemons -> Nat]]

CatchState ==
    [trainer : Trainers \cup {Nobody}, id : {"none", "sent", "known"},
     pc : {"none", "result", "refill", "being caught", "full?", "all full?", "block", "done"},
     backup : Pokemons]

\* Every variable has its type; in particular no counter that the code keeps in
\* a uint32_t wraps around, and no semaphore stands at more than there can be.
TypeOK ==
    /\ algorithm \in Algorithms /\ crashed \in BOOLEAN
    /\ remaining \in [Pokemons -> Nat] /\ being_caught \in [Pokemons -> 0..MaxPokemons]
    /\ received \in Seq(Pokemons) /\ Len(received) <= MaxPokemons
    /\ appeared_backup \in Seq([list : BOOLEAN, pokemon : Pokemons])
    /\ matches \in Seq(Match)
    /\ sem_trainer_available \in 0..Cardinality(Trainers)
    /\ sem_appeared_pokemon \in 0..Len(received)
    /\ mutex_planning \in BOOLEAN
    /\ message \in [MessageThreads -> MessageState] /\ appeared \in 0..MaxPokemons
    /\ matcher \in [pc : {"wait", "choose", "add"}, wanted : SUBSET Pokemons,
                    has : SUBSET Pokemons, match : Match]
    /\ trainer \in [Trainers -> TrainerState]
    /\ catch \in [Catches -> CatchState] /\ catches \in 0..MaxPokemons
    /\ caught_messages \in SUBSET AnyMessage
    /\ sem_all_pokemons_caught \in 0..Cardinality(Trainers)
    /\ answered \in SUBSET Catches /\ duplicates \in 0..MaxDuplicates
    /\ lost \in SUBSET Catches /\ misled \in SUBSET Trainers

\* The trainers that were unlocked or walk.
Executes(t) == trainer[t].sem = 1 \/ trainer[t].pc = "move"
Executing == {t \in Trainers : Executes(t)}

\* The mutex that the planner locks and a trainer unlocks works as a semaphore:
\* one trainer at most is unlocked or walks, and only while mutex_planning is
\* locked, through preemptions and trainers that are matched twice.
OneExecutes == Cardinality(Executing) = (IF mutex_planning THEN 1 ELSE 0)

\* sem_trainer_available promises more trainers than get_closest_trainer can find only by
\* those that were full by the configuration, whose permits init_sem posts and nobody takes
\* back; although trainers become idle in two steps and full ones do not come back.  With no
\* such trainer in the team its uninitialised result is never used.
AvailableCanBeMatched ==
    sem_trainer_available + (IF matcher.pc = "choose" THEN 1 ELSE 0)
        <= Cardinality({t \in Trainers : not_exec(t)}) + Cardinality(FullAtFirst)

\* A preempted trainer that handle_catch of an earlier catch made NEW before desalojar
\* looked: it is not put back among the matches.
Stranded(t) == trainer[t].pc = "stranded"

\* The catches of species p under way: the match that the matcher is to add, those
\* in the list, those of the trainer that executes, those that desalojar is to put
\* back, and those that handle_catch has yet to deal with.
Adding(p) == IF matcher.pc = "add" /\ matcher.match.pokemon = p THEN 1 ELSE 0
Listed(p) == {i \in DOMAIN matches : matches[i].pokemon = p}
Walking(p) == {t \in Executing : trainer[t].pokemon_to_catch = p}
Returning(p) == {t \in BeingPutBack : trainer[t].pokemon_to_catch = p}
Sent(p) ==
    {c \in Catches : \E t \in Trainers : c \in UnderWay(t) /\ trainer[t].pokemon_to_catch = p}

\* being_caught_pokemons counts, for each species, the catches under way and no
\* other, also when a trainer has two of them at once; until a trainer's
\* pokemon_to_catch is overwritten before handle_catch or desalojar has read it, or a
\* preempted trainer is not put back.
BeingCaughtAccounted ==
    misled = {} =>
        \A p \in Pokemons :
            being_caught[p] = Adding(p) + Cardinality(Listed(p)) + Cardinality(Walking(p))
                                + Cardinality(Returning(p)) + Cardinality(Sent(p))

\* handle_appeared holds the list of those to catch and waits for the backup's
\* mutex, search_in_backup the other way round: both wait for ever.
CrossedLocks ==
    /\ \E n \in MessageThreads : message[n].pc = "backup" /\ ~message[n].localized
    /\ mutex_appeared_backup

Excused ==
    crashed \/ lost # {} \/ CrossedLocks \/ \E t \in Trainers : Stranded(t)

\* A matched trainer gets to its pokemon in the end, however often it is
\* preempted, and the outcome of its catch is dealt with, but for these: the
\* process dies, an answer comes before receive_message_id knows what it answers
\* (or finds another trainer by a stale id), two mutexes are taken in opposite
\* orders, a trainer is stranded.
MatchedCatches ==
    /\ \A t \in Trainers :
        trainer[t].status = "READY" ~> (trainer[t].status = "CATCHING" \/ Excused)
    /\ \A c \in Catches :
        catch[c].trainer # Nobody ~> (catch[c].pc = "done" \/ Excused)
=============================================================================
