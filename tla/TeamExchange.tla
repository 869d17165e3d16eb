---------------------------- MODULE TeamExchange ----------------------------
(***************************************************************************)
(* The exchanges of a Team process (team/src/trainer.c, planner.c,           *)
(* resolver.c, team.c): what happens from the moment a trainer is full.  The *)
(* thread that finds it full looks for direct exchanges with trainers that   *)
(* were full before (validate_deadlock).  When all are full main has them    *)
(* planned and run by the trainers' threads (proceed_to_finish,              *)
(* planning_deadlock, swap_pokemons), and then runs the indirect ones itself *)
(* (handle_deadlock).                                                        *)
(*                                                                           *)
(* Lists of pokemons are bags: the code's order among species is that of a   *)
(* hash table, and any species may come first.  Calls on lists are atomic.   *)
(* The matches are named by their place in matched_deadlocks.                *)
(***************************************************************************)
EXTENDS Naturals, Sequences, FiniteSetsExt

CONSTANTS NumTrainers,  \* trainers are numbered as in the list trainers
          Pokemons,     \* species
          Starts,       \* [objective, caught, early, round]: what the trainers want and have
                        \* when they are full; early are full by the configuration, of the
                        \* others a later round catches its last pokemon later (a bound)
          Algorithms,   \* values of ALGORITMO_PLANIFICACION
          QUANTUM,      \* cycles before RR preempts
          MaxDistance   \* bound: steps a trainer walks to the other

Trainers == 1..NumTrainers
Bags == [Pokemons -> Nat]

Total(bag) == SumFunctionOnSet(bag, Pokemons)
TeamTotal(bags, p) == SumFunctionOnSet([t \in Trainers |-> bags[t][p]], Trainers)

\* Everybody is full, and the team has caught what it needs and nothing else.  What a trainer
\* has by the configuration is of a species it wants.
ASSUME StartsAreFull ==
    \A s \in Starts :
        /\ s.objective \in [Trainers -> Bags] /\ s.caught \in [Trainers -> Bags]
        /\ s.early \subseteq Trainers /\ s.round \in [Trainers -> Nat]
        /\ \A t \in s.early, p \in Pokemons : s.caught[t][p] > 0 => s.objective[t][p] > 0
        /\ \A t \in Trainers : Total(s.caught[t]) = Total(s.objective[t])
        /\ \A p \in Pokemons : TeamTotal(s.caught, p) = TeamTotal(s.objective, p)

ASSUME BoundsAreNat == NumTrainers \in Nat \ {0} /\ QUANTUM \in Nat \ {0} /\ MaxDistance \in Nat

\* There are finitely many species and teams, so that the matches have a bound.
ASSUME FiniteTeams == IsFiniteSet(Pokemons) /\ IsFiniteSet(Starts)

VARIABLES
    algorithm,       \* ALGORITMO_PLANIFICACION
    objective, early, round, \* as chosen from Starts
    caught,          \* each trainer's caught
    status,          \* each trainer's status
    main,            \* the main thread
    listed,          \* how many trainers are in the list trainers
    sem_all_pokemons_caught, \* its value
    finisher,        \* each trainer's handle_catch, or its own thread if it is early
    leftovers,       \* of each trainer, the list of its t_to_deadlock
    remaining,       \* of each trainer, the list of its t_to_deadlock
    to_deadlock,     \* list of trainers
    matched_deadlocks, \* list of [trainer1, pokemon1, trainer2, pokemon2]
    waiter,          \* of each match, its add_to_queue_deadlocks_wait_status thread
    sem_deadlock,    \* each trainer's, 1: unlocked
    queue_deadlock,  \* list of matches
    mutex_planning_deadlock, \* TRUE: locked
    mutex_direct_deadlocks,  \* TRUE: locked
    count_sem_reverse_direct_deadlock,
    trainer,         \* each trainer's thread and sem
    executed,        \* history: of each match, how often it was executed
    overpromised,    \* history: a match of what its trainer2 had promised meanwhile
    hasty,           \* history: main went on before the last validate_deadlock was over
    lost,            \* history: sem_init came after a post
    crossed          \* history: a match was planned for a trainer preempted in another

startVars == <<algorithm, objective, early, round>>
detectVars == <<finisher, leftovers, remaining, to_deadlock, overpromised>>
matchVars == <<matched_deadlocks, waiter, executed>>
planVars == <<queue_deadlock, mutex_planning_deadlock>>
directVars == <<mutex_direct_deadlocks, count_sem_reverse_direct_deadlock>>
wakeVars == <<listed, sem_all_pokemons_caught, hasty, lost>>
waitVars == <<waiter, sem_deadlock>>
vars == <<startVars, caught, status, main, wakeVars, detectVars, matched_deadlocks, waitVars,
          planVars, directVars, trainer, executed, crossed>>

Empty == [p \in Pokemons |-> 0]
Nobody == 0
NoSpecies == CHOOSE p \in Pokemons : TRUE
MaxMatches == Max({Total(s.objective[t]) : s \in Starts, t \in Trainers}) * NumTrainers
Matches == 1..MaxMatches

Species(bag) == {p \in Pokemons : bag[p] > 0}
Plus(bag, p) == [bag EXCEPT ![p] = @ + 1]

\* Mutant of Minus: it counts below zero.
MinusUnchecked(bag, p) == [bag EXCEPT ![p] = @ - 1]

\* substract_from_dictionary and list_remove_by_value: what is not there stays so.
Minus(bag, p) == [bag EXCEPT ![p] = IF @ > 0 THEN @ - 1 ELSE 0]

get_dictionary_difference(a, b) ==
    [p \in Pokemons |-> IF a[p] > b[p] THEN a[p] - b[p] ELSE 0]

Init ==
    /\ algorithm \in Algorithms
    /\ \E s \in Starts :
        objective = s.objective /\ caught = s.caught /\ early = s.early /\ round = s.round
    /\ status = [t \in Trainers |-> "NEW"]
    /\ main = [pc |-> "create", i |-> 1, with |-> Nobody, leftovers |-> Empty,
               remaining |-> Empty, deadlocked |-> {}]
    /\ listed = 0
    /\ sem_all_pokemons_caught = 0
    /\ finisher = [t \in Trainers |-> [pc |-> "none", aux |-> Empty, other |-> Nobody,
                                       needs |-> NoSpecies, gives |-> NoSpecies]]
    /\ leftovers = [t \in Trainers |-> Empty] /\ remaining = [t \in Trainers |-> Empty]
    /\ to_deadlock = <<>> /\ matched_deadlocks = <<>>
    /\ waiter = <<>> /\ executed = <<>>
    /\ sem_deadlock = [t \in Trainers |-> 0]
    /\ queue_deadlock = <<>>
    /\ mutex_planning_deadlock = FALSE /\ mutex_direct_deadlocks = FALSE
    /\ count_sem_reverse_direct_deadlock = 0
    /\ trainer = [t \in Trainers |-> [pc |-> "loop", sem |-> 0, params |-> 0, match |-> 0,
                                      left |-> 0, quantum |-> 0]]
    /\ overpromised = FALSE /\ hasty = FALSE /\ lost = FALSE /\ crossed = FALSE

-----------------------------------------------------------------------------
(* main, until every trainer is full.                                       *)

MainFrame ==
    UNCHANGED <<startVars, caught, status, detectVars, matched_deadlocks, waitVars, planVars,
                directVars, trainer, executed, crossed>>

CreateTrainer ==
    /\ main.pc = "create"
    /\ main' = [main EXCEPT !.pc = "list"]
    /\ MainFrame /\ UNCHANGED wakeVars

\* The trainer's thread runs already.
ListTrainer ==
    /\ main.pc = "list"
    /\ listed' = main.i
    /\ main' = IF main.i = NumTrainers THEN [main EXCEPT !.pc = "sem_init"]
               ELSE [main EXCEPT !.pc = "create", !.i = @ + 1]
    /\ MainFrame /\ UNCHANGED <<sem_all_pokemons_caught, hasty, lost>>

\* sem_init gives the semaphore its value, whatever was posted before.
InitSem ==
    /\ main.pc = "sem_init"
    /\ sem_all_pokemons_caught' = 0
    /\ lost' = (sem_all_pokemons_caught > 0)
    /\ main' = [main EXCEPT !.pc = "wait"]
    /\ MainFrame /\ UNCHANGED <<listed, hasty>>

AllCaught ==
    /\ main.pc = "wait" /\ sem_all_pokemons_caught > 0
    /\ sem_all_pokemons_caught' = sem_all_pokemons_caught - 1
    /\ main' = [main EXCEPT !.pc = "proceed"]
    /\ hasty' = \E t \in Trainers : finisher[t].pc \in {"none", "full", "search", "match"}
    /\ MainFrame /\ UNCHANGED <<listed, lost>>

-----------------------------------------------------------------------------
(* The end of handle_catch, or the beginning of handle_trainer for who has   *)
(* everything by the configuration.                                          *)

FinisherFrame ==
    UNCHANGED <<startVars, caught, main, listed, hasty, lost, sem_deadlock, planVars, directVars,
                crossed>>

LastCatch(t) ==
    main.pc = "wait" /\ \A u \in Trainers : round[u] < round[t] => finisher[u].pc = "done"

Created(t) == listed >= t \/ (main.pc = "list" /\ main.i = t)

\* is_trainer_full: the trainer is FULL before the others can see what it has.
BecomeFull(t) ==
    /\ finisher[t].pc = "none"
    /\ IF t \in early THEN Created(t) ELSE LastCatch(t)
    /\ status' = [status EXCEPT ![t] = "FULL"]
    /\ finisher' = [finisher EXCEPT ![t].pc = "full"]
    /\ FinisherFrame /\ UNCHANGED <<sem_all_pokemons_caught, leftovers, remaining, to_deadlock,
                                   matchVars, trainer, overpromised>>

\* validate_deadlock: the two differences.
HasObjective(t) ==
    /\ finisher[t].pc = "full" /\ caught[t] = objective[t]
    /\ status' = [status EXCEPT ![t] = "EXIT"]
    /\ finisher' = [finisher EXCEPT ![t].pc = "all full?"]
    /\ FinisherFrame /\ UNCHANGED <<sem_all_pokemons_caught, leftovers, remaining, to_deadlock,
                                   matchVars, trainer, overpromised>>

BeginSearch(t) ==
    /\ finisher[t].pc = "full" /\ caught[t] # objective[t]
    /\ leftovers' = [leftovers EXCEPT ![t] = get_dictionary_difference(caught[t], objective[t])]
    /\ remaining' = [remaining EXCEPT ![t] = get_dictionary_difference(objective[t], caught[t])]
    /\ finisher' = [finisher EXCEPT ![t] = [@ EXCEPT !.pc = "search", !.aux = remaining'[t]]]
    /\ FinisherFrame /\ UNCHANGED <<status, sem_all_pokemons_caught, to_deadlock,
                                   matchVars, trainer, overpromised>>

\* get_leftover_from_to_deadlock_by_pokemon: the first that has p to spare.
WithLeftover(p) == {i \in DOMAIN to_deadlock : leftovers[to_deadlock[i]][p] > 0}
First(p) == to_deadlock[Min(WithLeftover(p))]

\* get_pokemon_he_needs: what t may give the first that has p.
HeNeeds(t, p) == IF WithLeftover(p) = {} THEN {}
                 ELSE Species(remaining[First(p)]) \cap Species(leftovers[t])

\* find_candidate_to_swap, for one pokemon of its copy of what remains.
FindCandidate(t) ==
    /\ finisher[t].pc = "search"
    /\ \E p \in Species(finisher[t].aux) :
        LET aux == Minus(finisher[t].aux, p) IN
        \/ /\ HeNeeds(t, p) = {}
           /\ finisher' = [finisher EXCEPT ![t].aux = aux]
        \/ \E q \in HeNeeds(t, p) :
                finisher' = [finisher EXCEPT ![t] = [pc |-> "match", aux |-> aux,
                                other |-> First(p), needs |-> p, gives |-> q]]
    /\ FinisherFrame /\ UNCHANGED <<status, sem_all_pokemons_caught, leftovers, remaining,
                                   to_deadlock, matchVars, trainer, overpromised>>

\* Mutant of AddMatch: the other's lists keep what is promised.
AddMatchKept(t) ==
    LET f == finisher[t] IN
    /\ f.pc = "match" /\ main.pc # "iterate"
    /\ matched_deadlocks' = Append(matched_deadlocks,
                                   [trainer1 |-> t, pokemon1 |-> f.gives,
                                    trainer2 |-> f.other, pokemon2 |-> f.needs])
    /\ waiter' = Append(waiter, "none") /\ executed' = Append(executed, 0)
    /\ leftovers' = [leftovers EXCEPT ![t] = Minus(@, f.gives)]
    /\ remaining' = [remaining EXCEPT ![t] = Minus(@, f.needs)]
    /\ finisher' = [finisher EXCEPT ![t].pc = "search"]
    /\ FinisherFrame /\ UNCHANGED <<status, sem_all_pokemons_caught, to_deadlock, trainer,
                                   overpromised>>

\* main keeps mutex_matched_deadlocks while it goes through the list.
AddMatch(t) ==
    LET f == finisher[t] IN
    /\ f.pc = "match"
    /\ main.pc # "iterate"
    /\ matched_deadlocks' = Append(matched_deadlocks,
                                   [trainer1 |-> t, pokemon1 |-> f.gives,
                                    trainer2 |-> f.other, pokemon2 |-> f.needs])
    /\ waiter' = Append(waiter, "none") /\ executed' = Append(executed, 0)
    /\ leftovers' = [leftovers EXCEPT ![t] = Minus(@, f.gives), ![f.other] = Minus(@, f.needs)]
    /\ remaining' = [remaining EXCEPT ![t] = Minus(@, f.needs), ![f.other] = Minus(@, f.gives)]
    /\ overpromised' = (overpromised \/ leftovers[f.other][f.needs] = 0
                                     \/ remaining[f.other][f.gives] = 0)
    /\ finisher' = [finisher EXCEPT ![t].pc = "search"]
    /\ FinisherFrame /\ UNCHANGED <<status, sem_all_pokemons_caught, to_deadlock, trainer>>

AddToDeadlock(t) ==
    /\ finisher[t].pc = "search" /\ finisher[t].aux = Empty
    /\ to_deadlock' = Append(to_deadlock, t)
    /\ finisher' = [finisher EXCEPT ![t].pc = "all full?"]
    /\ FinisherFrame /\ UNCHANGED <<status, sem_all_pokemons_caught, leftovers, remaining,
                                   matchVars, trainer, overpromised>>

\* remaining_pokemons is empty when the others' last catches have been counted.
AllFull ==
    /\ \A t \in Trainers \ early : finisher[t].pc # "none"
    /\ \A t \in 1..listed : status[t] \in {"FULL", "EXIT"}

\* all_trainers_full, on the trainers listed so far.
WakeMain(t) ==
    /\ finisher[t].pc = "all full?"
    /\ sem_all_pokemons_caught' = sem_all_pokemons_caught + (IF AllFull THEN 1 ELSE 0)
    /\ finisher' = [finisher EXCEPT ![t].pc = "done"]
    /\ trainer' = IF t \in early THEN trainer ELSE [trainer EXCEPT ![t].quantum = 0]
    /\ FinisherFrame /\ UNCHANGED <<status, leftovers, remaining, to_deadlock,
                                   matchVars, overpromised>>

-----------------------------------------------------------------------------
(* main: proceed_to_finish, the direct exchanges.                           *)

ProceedFrame ==
    UNCHANGED <<startVars, caught, wakeVars, detectVars, matched_deadlocks, sem_deadlock,
                mutex_planning_deadlock, trainer, executed, crossed>>

Proceed ==
    /\ main.pc = "proceed"
    /\ IF matched_deadlocks = <<>>
       THEN main' = [main EXCEPT !.pc = "gather"] /\ UNCHANGED directVars
       ELSE /\ mutex_direct_deadlocks' = TRUE
            /\ count_sem_reverse_direct_deadlock' = 0
            /\ main' = [main EXCEPT !.pc = "iterate", !.i = 1]
    /\ ProceedFrame /\ UNCHANGED <<status, waiter, queue_deadlock>>

trainer1(m) == matched_deadlocks[m].trainer1
trainer2(m) == matched_deadlocks[m].trainer2
Free(t) == status[t] \in {"FULL", "BLOCK"}

\* add_to_queue_deadlocks: two trainers are promised to each other.
Promised(m) == [status EXCEPT ![trainer1(m)] = "READY", ![trainer2(m)] = "SWAPPING"]

\* create_thread_add_to_queue_deadlocks, for the next match of the list.
IterateMatch ==
    /\ main.pc = "iterate" /\ main.i \in DOMAIN matched_deadlocks
    /\ main' = [main EXCEPT !.i = @ + 1]
    /\ IF Free(trainer1(main.i)) /\ Free(trainer2(main.i))
       THEN /\ status' = Promised(main.i)
            /\ queue_deadlock' = Append(queue_deadlock, main.i)
            /\ UNCHANGED waiter
       ELSE /\ waiter' = [waiter EXCEPT ![main.i] = "check1"]
            /\ UNCHANGED <<status, queue_deadlock>>
    /\ ProceedFrame /\ UNCHANGED directVars

AllIterated ==
    /\ main.pc = "iterate" /\ main.i \notin DOMAIN matched_deadlocks
    /\ main' = [main EXCEPT !.pc = "direct"]
    /\ ProceedFrame /\ UNCHANGED <<status, waiter, queue_deadlock, directVars>>

DirectDone ==
    /\ main.pc = "direct" /\ ~mutex_direct_deadlocks
    /\ mutex_direct_deadlocks' = TRUE
    /\ main' = [main EXCEPT !.pc = "gather"]
    /\ ProceedFrame /\ UNCHANGED <<status, waiter, queue_deadlock,
                                  count_sem_reverse_direct_deadlock>>

-----------------------------------------------------------------------------
(* add_to_queue_deadlocks_wait_status, the thread of a match whose trainers  *)
(* were taken.                                                               *)

WaiterFrame ==
    UNCHANGED <<startVars, caught, main, wakeVars, detectVars, matched_deadlocks,
                mutex_planning_deadlock, directVars, trainer, executed, crossed>>

\* A free trainer is not waited for: its sem_deadlock keeps what it has.
CheckStatus(m, check, t, lock, next) ==
    /\ waiter[m] = check
    /\ waiter' = [waiter EXCEPT ![m] = IF Free(t) THEN next ELSE lock]
    /\ WaiterFrame /\ UNCHANGED <<status, sem_deadlock, queue_deadlock>>

LockDeadlock(m, lock, t, next) ==
    /\ waiter[m] = lock /\ sem_deadlock[t] = 1
    /\ sem_deadlock' = [sem_deadlock EXCEPT ![t] = 0]
    /\ waiter' = [waiter EXCEPT ![m] = next]
    /\ WaiterFrame /\ UNCHANGED <<status, queue_deadlock>>

QueueMatch(m) ==
    /\ waiter[m] = "queue"
    /\ status' = Promised(m)
    /\ queue_deadlock' = Append(queue_deadlock, m)
    /\ waiter' = [waiter EXCEPT ![m] = "done"]
    /\ WaiterFrame /\ UNCHANGED sem_deadlock

WaitStatus(m) ==
    /\ m \in DOMAIN matched_deadlocks
    /\ \/ CheckStatus(m, "check1", trainer1(m), "lock1", "check2")
       \/ LockDeadlock(m, "lock1", trainer1(m), "check2")
       \/ CheckStatus(m, "check2", trainer2(m), "lock2", "queue")
       \/ LockDeadlock(m, "lock2", trainer2(m), "queue")
       \/ QueueMatch(m)

-----------------------------------------------------------------------------
(* planning_deadlock, the planner's thread: the oldest match, whatever the   *)
(* algorithm.                                                                *)

Planning == main.pc \in {"iterate", "direct", "gather", "resolve", "compare"}

Plan ==
    /\ Planning /\ queue_deadlock # <<>> /\ ~mutex_planning_deadlock
    /\ LET m == Head(queue_deadlock)
           t == trainer1(m) IN
        /\ queue_deadlock' = Tail(queue_deadlock)
        /\ mutex_planning_deadlock' = TRUE
        /\ trainer' = [trainer EXCEPT ![t].params = m, ![t].sem = 1]
        /\ status' = [status EXCEPT ![t] = "EXEC"]
        /\ crossed' = (crossed \/ (trainer[t].pc \in {"requeue", "preempted"}
                                    /\ trainer[t].match # m))
    /\ UNCHANGED <<startVars, caught, main, wakeVars, detectVars, matched_deadlocks, waitVars,
                   directVars, executed>>

-----------------------------------------------------------------------------
(* A trainer's thread: swap_pokemons.                                        *)

SwapFrame ==
    UNCHANGED <<startVars, main, wakeVars, detectVars, matched_deadlocks, waiter>>

\* It walks to the other and exchanges for four cycles that may preempt it.
StartSwap(t) ==
    /\ trainer[t].pc = "loop" /\ trainer[t].sem = 1
    /\ t \in early => finisher[t].pc = "done"
    /\ \E distance \in 0..MaxDistance :
        trainer' = [trainer EXCEPT ![t] = [@ EXCEPT !.pc = "cycle", !.sem = 0,
                                           !.match = trainer[t].params, !.left = distance + 4]]
    /\ SwapFrame /\ UNCHANGED <<caught, status, sem_deadlock, planVars, directVars, executed,
                               crossed>>

\* trainer_must_go_on.  SJF-CD compares the estimations of the trainers in the queue.
MustLeave(t) ==
    CASE algorithm = "RR" -> {trainer[t].quantum + 1 >= QUANTUM}
      [] algorithm = "SJF-CD" ->
            {FALSE} \cup {\E i \in DOMAIN queue_deadlock : trainer1(queue_deadlock[i]) # t}
      [] OTHER -> {FALSE}

GoOn(t) ==
    /\ trainer[t].pc = "cycle" /\ trainer[t].left > 0
    /\ FALSE \in MustLeave(t)
    /\ trainer' = [trainer EXCEPT ![t].left = @ - 1,
                                  ![t].quantum = IF algorithm = "RR" THEN @ + 1 ELSE @]
    /\ SwapFrame /\ UNCHANGED <<caught, status, sem_deadlock, planVars, directVars, executed,
                               crossed>>

\* desalojar: the planner may take the next match before this one is back in the queue.
desalojar(t) ==
    /\ trainer[t].pc = "cycle" /\ trainer[t].left > 0
    /\ TRUE \in MustLeave(t)
    /\ trainer' = [trainer EXCEPT ![t] = [@ EXCEPT !.pc = "requeue", !.quantum = 0,
                                                   !.left = trainer[t].left - 1]]
    /\ status' = [status EXCEPT ![t] = "READY"]
    /\ mutex_planning_deadlock' = FALSE
    /\ SwapFrame /\ UNCHANGED <<caught, sem_deadlock, queue_deadlock, directVars, executed,
                               crossed>>

Requeue(t) ==
    /\ trainer[t].pc = "requeue"
    /\ queue_deadlock' = Append(queue_deadlock, trainer[t].match)
    /\ trainer' = [trainer EXCEPT ![t].pc = "preempted"]
    /\ SwapFrame /\ UNCHANGED <<caught, status, sem_deadlock, mutex_planning_deadlock, directVars,
                               executed, crossed>>

\* It goes on with the match it was in, whichever was planned.
Resume(t) ==
    /\ trainer[t].pc = "preempted" /\ trainer[t].sem = 1
    /\ trainer' = [trainer EXCEPT ![t].pc = "cycle", ![t].sem = 0]
    /\ SwapFrame /\ UNCHANGED <<caught, status, sem_deadlock, planVars, directVars, executed,
                               crossed>>

\* Mutant of Swapped: trainer1 never gets its pokemon.
SwappedOneWay(t1, p1, t2, p2) ==
    [caught EXCEPT ![t1] = Minus(@, p1), ![t2] = Plus(Minus(@, p2), p1)]

\* exchange_pokemons, the dictionaries.
Swapped(t1, p1, t2, p2) ==
    [caught EXCEPT ![t1] = Plus(Minus(@, p1), p2), ![t2] = Plus(Minus(@, p2), p1)]

exchange_pokemons(t) ==
    LET m == matched_deadlocks[trainer[t].match] IN
    /\ trainer[t].pc = "cycle" /\ trainer[t].left = 0
    /\ caught' = Swapped(m.trainer1, m.pokemon1, m.trainer2, m.pokemon2)
    /\ executed' = [executed EXCEPT ![trainer[t].match] = @ + 1]
    /\ trainer' = [trainer EXCEPT ![t].pc = "validate1"]
    /\ SwapFrame /\ UNCHANGED <<status, sem_deadlock, planVars, directVars, crossed>>

Satisfied(u) == get_dictionary_difference(caught[u], objective[u]) = Empty

\* Mutant of Validate: sem_deadlock is not unlocked.
ValidateSilently(t, pc, u, next) ==
    /\ trainer[t].pc = pc
    /\ status' = [status EXCEPT ![u] = IF Satisfied(u) THEN "EXIT" ELSE "BLOCK"]
    /\ trainer' = [trainer EXCEPT ![t].pc = next]
    /\ SwapFrame /\ UNCHANGED <<caught, sem_deadlock, planVars, directVars, executed, crossed>>

\* validate_state_trainer, for one trainer of the match.
Validate(t, pc, u, next) ==
    /\ trainer[t].pc = pc
    /\ IF Satisfied(u)
       THEN status' = [status EXCEPT ![u] = "EXIT"] /\ UNCHANGED sem_deadlock
       ELSE /\ status' = [status EXCEPT ![u] = "BLOCK"]
            /\ sem_deadlock' = [sem_deadlock EXCEPT ![u] = 1]
    /\ trainer' = [trainer EXCEPT ![t].pc = next]
    /\ SwapFrame /\ UNCHANGED <<caught, planVars, directVars, executed, crossed>>

validate_state_trainer(t) ==
    \/ Validate(t, "validate1", t, "validate2")
    \/ Validate(t, "validate2", trainer2(trainer[t].match), "count")

\* Mutant of FinishSwap: the first swap wakes main.
FinishFirst(t) ==
    /\ trainer[t].pc = "count"
    /\ count_sem_reverse_direct_deadlock' = count_sem_reverse_direct_deadlock + 1
    /\ mutex_direct_deadlocks' = FALSE
    /\ mutex_planning_deadlock' = FALSE
    /\ trainer' = [trainer EXCEPT ![t].pc = "loop", ![t].quantum = 0]
    /\ SwapFrame /\ UNCHANGED <<caught, status, sem_deadlock, queue_deadlock, executed, crossed>>

FinishSwap(t) ==
    /\ trainer[t].pc = "count"
    /\ count_sem_reverse_direct_deadlock' = count_sem_reverse_direct_deadlock + 1
    /\ mutex_direct_deadlocks' =
        (mutex_direct_deadlocks
            /\ count_sem_reverse_direct_deadlock' # Len(matched_deadlocks))
    /\ mutex_planning_deadlock' = FALSE
    /\ trainer' = [trainer EXCEPT ![t].pc = "loop", ![t].quantum = 0]
    /\ SwapFrame /\ UNCHANGED <<caught, status, sem_deadlock, queue_deadlock, executed, crossed>>

-----------------------------------------------------------------------------
(* main: get_trainers_with_deadlock and handle_deadlock, the exchanges       *)
(* among trainers that no two of them want.                                  *)

ResolveFrame ==
    UNCHANGED <<startVars, wakeVars, detectVars, matched_deadlocks, waiter, planVars, directVars,
                trainer, executed, crossed>>

\* Mutant of Gather: who was never promised to anybody is left out.
GatherBlocked ==
    /\ main.pc = "gather"
    /\ LET deadlocked == {t \in Trainers : status[t] = "BLOCK"} IN
        main' = IF deadlocked = {} THEN [main EXCEPT !.pc = "exit"]
                ELSE [main EXCEPT !.pc = "resolve", !.i = 0, !.deadlocked = deadlocked]
    /\ ResolveFrame /\ UNCHANGED <<caught, status, sem_deadlock>>

Gather ==
    /\ main.pc = "gather"
    /\ LET deadlocked == {t \in Trainers : status[t] # "EXIT"} IN
        main' = IF deadlocked = {} THEN [main EXCEPT !.pc = "exit"]
                ELSE [main EXCEPT !.pc = "resolve", !.i = 0, !.deadlocked = deadlocked]
    /\ ResolveFrame /\ UNCHANGED <<caught, status, sem_deadlock>>

After(t, others) == {u \in others : u > t}

\* The outer loop: the differences of the next trainer that is not satisfied.
TakeNext ==
    /\ main.pc = "resolve"
    /\ LET next == After(main.i, main.deadlocked)
           t == Min(next) IN
        main' = IF next = {} THEN [main EXCEPT !.pc = "exit"]
                ELSE IF status[t] = "EXIT" THEN [main EXCEPT !.i = t]
                ELSE [main EXCEPT !.pc = "compare", !.i = t, !.with = Nobody,
                        !.leftovers = get_dictionary_difference(caught[t], objective[t]),
                        !.remaining = get_dictionary_difference(objective[t], caught[t])]
    /\ ResolveFrame /\ UNCHANGED <<caught, status, sem_deadlock>>

\* The inner loop: the next trainer to compare with, and what main takes from it.
Others == After(main.with, main.deadlocked \ {main.i})
Other == Min(Others)
INeed == {p \in Species(main.remaining) : caught[Other][p] > objective[Other][p]}
ItNeeds == {p \in Species(main.leftovers) : objective[Other][p] > caught[Other][p]}

NothingToTake ==
    /\ main.pc = "compare"
    /\ \/ Others = {} /\ main' = [main EXCEPT !.pc = "resolve"]
       \/ /\ Others # {} /\ (status[Other] = "EXIT" \/ INeed = {})
          /\ main' = [main EXCEPT !.with = Other]
    /\ ResolveFrame /\ UNCHANGED <<caught, status, sem_deadlock>>

\* give_me_my_pokemons_dude with resolve_deadlock, which no other thread disturbs: the
\* planner's queue is empty.
GiveMeMyPokemonsDude ==
    /\ main.pc = "compare" /\ Others # {} /\ status[Other] # "EXIT"
    /\ \E p \in INeed, q \in IF ItNeeds # {} THEN ItNeeds ELSE Species(main.leftovers) :
        LET t == main.i
            have == Swapped(t, q, Other, p)
            done == {u \in {t, Other} : get_dictionary_difference(have[u], objective[u]) = Empty}
        IN
        /\ caught' = have
        /\ status' = [u \in Trainers |-> IF u \in done THEN "EXIT"
                                         ELSE IF u \in {t, Other} THEN "BLOCK" ELSE status[u]]
        /\ sem_deadlock' = [u \in Trainers |-> IF u \in {t, Other} \ done THEN 1
                                               ELSE sem_deadlock[u]]
        /\ main' = [main EXCEPT !.leftovers = Minus(@, q), !.remaining = Minus(@, p),
                                !.with = IF t \in done THEN Other ELSE @]
    /\ ResolveFrame

-----------------------------------------------------------------------------
MainThread ==
    \/ CreateTrainer \/ ListTrainer \/ InitSem \/ AllCaught
    \/ Proceed \/ IterateMatch \/ AllIterated \/ DirectDone
    \/ Gather \/ TakeNext \/ NothingToTake \/ GiveMeMyPokemonsDude

Finisher(t) ==
    \/ BecomeFull(t) \/ HasObjective(t) \/ BeginSearch(t) \/ FindCandidate(t)
    \/ AddMatch(t) \/ AddToDeadlock(t) \/ WakeMain(t)

TrainerThread(t) ==
    \/ StartSwap(t) \/ GoOn(t) \/ desalojar(t) \/ Requeue(t) \/ Resume(t)
    \/ exchange_pokemons(t) \/ validate_state_trainer(t) \/ FinishSwap(t)

\* exit ends every thread.
Next ==
    /\ main.pc # "exit"
    /\ \/ MainThread \/ Plan
       \/ \E t \in Trainers : Finisher(t) \/ TrainerThread(t)
       \/ \E m \in DOMAIN matched_deadlocks : WaitStatus(m)

Spec == Init /\ [][Next]_vars

\* Every thread that can run does, and the last pokemons are caught.
Running(A) == main.pc # "exit" /\ A
Fairness ==
    /\ WF_vars(MainThread) /\ WF_vars(Running(Plan))
    /\ \A t \in Trainers : WF_vars(Running(Finisher(t))) /\ WF_vars(Running(TrainerThread(t)))
    /\ \A m \in Matches : WF_vars(Running(WaitStatus(m)))

FairSpec == Spec /\ Fairness

-----------------------------------------------------------------------------
Statuses == {"NEW", "FULL", "READY", "EXEC", "SWAPPING", "BLOCK", "EXIT"}

\* Every variable stays in the range the code's types and this model's bounds give it.
TypeOK ==
    /\ caught \in [Trainers -> Bags] /\ objective \in [Trainers -> Bags]
    /\ status \in [Trainers -> Statuses] /\ listed \in 0..NumTrainers
    /\ sem_all_pokemons_caught \in 0..NumTrainers
    /\ to_deadlock \in Seq(Trainers)
    /\ matched_deadlocks \in Seq([trainer1 : Trainers, pokemon1 : Pokemons,
                                  trainer2 : Trainers, pokemon2 : Pokemons])
    /\ Len(matched_deadlocks) <= MaxMatches
    /\ sem_deadlock \in [Trainers -> 0..1]
    /\ queue_deadlock \in Seq(Matches)
    /\ waiter \in Seq({"none", "check1", "lock1", "check2", "lock2", "queue", "done"})
    /\ executed \in Seq(Nat)
    /\ Len(waiter) = Len(matched_deadlocks) /\ Len(executed) = Len(matched_deadlocks)
    /\ \A t \in Trainers : trainer[t].match \in {0} \cup Matches /\ trainer[t].sem \in 0..1

\* What the exchanges rely on: no two searches promised the same pokemon, and no preempted
\* trainer went on with another match than the planned one.
Relied == ~overpromised /\ ~crossed

\* A trainer that has left has exactly its objective (validate_state_trainer looks at one of
\* the two differences only), and no exchange takes it back.
ExitHasObjective ==
    Relied => \A t \in Trainers : status[t] = "EXIT" => caught[t] = objective[t]

\* When the process exits every trainer has its objective: one pass of handle_deadlock over
\* who is left after the direct exchanges is enough.
EverybodySatisfied ==
    Relied /\ main.pc = "exit" => caught = objective

\* When main goes on from the direct exchanges each match was executed, once: the tokens
\* sem_deadlock keeps, the bypass of who is free and preemption lose no match and run none twice.
EveryMatchOnce ==
    ~hasty /\ ~crossed /\ main.pc \in {"gather", "resolve", "compare", "exit"} =>
        \A m \in DOMAIN matched_deadlocks : executed[m] = 1

\* Every step that moves pokemons is an exchange between two trainers that have them.
Exchange == INSTANCE PokemonExchange WITH sound <- Relied
ImplementsExchange == Exchange!Spec

\* The process exits, unless the wake-up was posted before sem_init, main went on with a list
\* of matches that was still growing, or a trainer left before a match that promised what it
\* had given already.
TeamFinishes == <>(main.pc = "exit" \/ lost \/ hasty \/ overpromised)
=============================================================================
