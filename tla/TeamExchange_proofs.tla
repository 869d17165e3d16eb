------------------------ MODULE TeamExchange_proofs ------------------------
(***************************************************************************)
(* The exchanges of a Team process, for any number of trainers, species and  *)
(* matches. When main goes on from the direct exchanges every match was      *)
(* executed, once. The exchanges implement PokemonExchange: every step that  *)
(* moves pokemons is an exchange between two trainers that have them; the    *)
(* direct ones give what the lists of t_to_deadlock had set aside, the       *)
(* indirect ones what main has just counted. Who leaves has its objective,   *)
(* and when the process exits everybody has.                                 *)
(***************************************************************************)
EXTENDS TeamExchange, TLAPS, SequenceTheorems, FiniteSetTheorems, NumberTheorems

-----------------------------------------------------------------------------
(* Types, as far as the proofs need them.                                   *)

FinisherState ==
    [pc : {"none", "full", "search", "match", "all full?", "done"}, aux : Bags,
     other : Trainers \cup {Nobody}, needs : Pokemons \cup {NoSpecies},
     gives : Pokemons \cup {NoSpecies}]

MainState ==
    [pc : {"create", "list", "sem_init", "wait", "proceed", "iterate", "direct", "gather",
           "resolve", "compare", "exit"},
     i : Nat, with : Nat, leftovers : Bags, remaining : Bags, deadlocked : SUBSET Trainers]

WaiterState == {"none", "check1", "lock1", "check2", "lock2", "queue", "done"}

TrainerState ==
    [pc : {"loop", "cycle", "requeue", "preempted", "validate1", "validate2", "count"},
     sem : {0, 1}, params : Nat, match : Nat, left : Nat, quantum : Nat]

MatchRecord ==
    [trainer1 : Trainers, pokemon1 : Pokemons, trainer2 : Trainers, pokemon2 : Pokemons]

Planned == 1..Len(matched_deadlocks)

\* A match that was found is between a trainer that waits for one and another.
DetectTypes ==
    /\ objective \in [Trainers -> Bags]
    /\ leftovers \in [Trainers -> Bags] /\ remaining \in [Trainers -> Bags]
    /\ finisher \in [Trainers -> FinisherState]
    /\ to_deadlock \in Seq(Trainers)
    /\ \A t \in Trainers : finisher[t].pc = "match" =>
        finisher[t].other \in Trainers /\ finisher[t].needs \in Pokemons
                                      /\ finisher[t].gives \in Pokemons

MainTypes ==
    /\ main \in MainState
    /\ main.pc = "compare" => main.i \in Trainers
    /\ count_sem_reverse_direct_deadlock \in Nat
    /\ mutex_planning_deadlock \in BOOLEAN /\ mutex_direct_deadlocks \in BOOLEAN
    /\ overpromised \in BOOLEAN /\ crossed \in BOOLEAN /\ hasty \in BOOLEAN

SwapTypes ==
    /\ matched_deadlocks \in Seq(MatchRecord)
    /\ waiter \in Seq(WaiterState) /\ Len(waiter) = Len(matched_deadlocks)
    /\ executed \in Seq(Nat) /\ Len(executed) = Len(matched_deadlocks)
    /\ queue_deadlock \in Seq(Planned)
    /\ trainer \in [Trainers -> TrainerState]
    /\ \A t \in Trainers :
        /\ trainer[t].sem = 1 => trainer[t].params \in Planned
        /\ trainer[t].pc # "loop" => trainer[t].match \in Planned

ExchangeTypes == DetectTypes /\ MainTypes /\ SwapTypes /\ caught \in [Trainers -> Bags]

-----------------------------------------------------------------------------
(* Where a match is.                                                        *)

BeforeDirect == main.pc \in {"create", "list", "sem_init", "wait", "proceed"}
AfterDirect == main.pc \in {"gather", "resolve", "compare", "exit"}

\* Where a match is under way: with the thread that waits for its trainers, in the planner's
\* queue, planned for its first trainer, or in that trainer's hands.
Waits(m) == waiter[m] \notin {"none", "done"}
Queued(m) == \E i \in DOMAIN queue_deadlock : queue_deadlock[i] = m
Given(t, m) == trainer[t].sem = 1 /\ trainer[t].params = m
Swaps(t, m) == trainer[t].pc # "loop" /\ trainer[t].match = m
Moving(m) == Waits(m) \/ Queued(m) \/ \E t \in Trainers : Given(t, m) \/ Swaps(t, m)

\* main has not come to the match yet.
Fresh(m) == BeforeDirect \/ (main.pc = "iterate" /\ m >= main.i)

Exchanged(t) == trainer[t].pc \in {"validate1", "validate2", "count"}

\* The trainer has the planner's mutex.
Active(t) == trainer[t].sem = 1 \/ trainer[t].pc = "cycle" \/ Exchanged(t)

OneActive ==
    /\ \A t, u \in Trainers : Active(t) /\ Active(u) => t = u
    /\ \A t \in Trainers : Active(t) => mutex_planning_deadlock

\* A match is in one place at a time, and was executed when its trainer has exchanged.
FreshRests == \A m \in Planned : Fresh(m) => ~Moving(m) /\ executed[m] = 0

WaitsOnce == \A m \in Planned : Waits(m) => executed[m] = 0

QueuedOnce ==
    \A i \in DOMAIN queue_deadlock :
        /\ executed[queue_deadlock[i]] = 0
        /\ ~Waits(queue_deadlock[i])
        /\ \A j \in DOMAIN queue_deadlock : queue_deadlock[i] = queue_deadlock[j] => i = j

GivenOnce ==
    \A t \in Trainers : trainer[t].sem = 1 =>
        /\ trainer1(trainer[t].params) = t
        /\ executed[trainer[t].params] = 0
        /\ ~Waits(trainer[t].params) /\ ~Queued(trainer[t].params)
        /\ \/ trainer[t].pc = "loop"
           \/ trainer[t].pc = "preempted" /\ trainer[t].match = trainer[t].params

SwapsOnce ==
    \A t \in Trainers : trainer[t].pc # "loop" =>
        /\ trainer1(trainer[t].match) = t
        /\ executed[trainer[t].match] = (IF Exchanged(t) THEN 1 ELSE 0)
        /\ ~Waits(trainer[t].match)
        /\ trainer[t].pc # "preempted" => ~Queued(trainer[t].match)

OnePlace == FreshRests /\ WaitsOnce /\ QueuedOnce /\ GivenOnce /\ SwapsOnce

\* The matches whose trainer has counted them.
Counted == {m \in Planned : executed[m] = 1 /\ \A t \in Trainers : ~Swaps(t, m)}

\* main has been woken, or has gone on.
Woken == AfterDirect \/ (main.pc \in {"iterate", "direct"} /\ ~mutex_direct_deadlocks)

\* Then nothing is under way; and all was executed but what was matched too late.
Settled ==
    /\ count_sem_reverse_direct_deadlock = Cardinality(Counted)
    /\ Woken => \A m \in Planned : /\ ~Moving(m)
                                   /\ executed[m] = 1 \/ (hasty /\ main.pc # "iterate")

\* Nobody looks for matches any more, unless main was hasty.
NoLateMatch ==
    main.pc \notin {"create", "list", "sem_init", "wait"} /\ ~hasty =>
        \A t \in Trainers : finisher[t].pc \in {"all full?", "done"}

MatchesInv == ~crossed => OneActive /\ OnePlace /\ Settled

-----------------------------------------------------------------------------
(* Bags and sequences.                                                      *)

\* What the operators on lists of pokemons return.
LEMMA BagOps ==
    ASSUME NEW b \in Bags, NEW p \in Pokemons
    PROVE  /\ Plus(b, p) \in Bags /\ Minus(b, p) \in Bags
           /\ \A q \in Pokemons : /\ Plus(b, p)[q] = (IF q = p THEN b[q] + 1 ELSE b[q])
                                  /\ Minus(b, p)[q] = (IF q = p /\ b[q] > 0 THEN b[q] - 1 ELSE b[q])
<1>. DEFINE n == IF b[p] > 0 THEN b[p] - 1 ELSE 0
<1>1. b[p] \in Nat /\ n \in Nat /\ Minus(b, p) = [b EXCEPT ![p] = n]
    BY DEF Bags, Minus
<1>2. Minus(b, p) \in Bags
    <2>. HIDE DEF n
    <2>. QED BY <1>1 DEF Bags
<1>3. \A q \in Pokemons : Minus(b, p)[q] = (IF q = p /\ b[q] > 0 THEN b[q] - 1 ELSE b[q])
    BY <1>1 DEF Bags
<1>4. Plus(b, p) \in Bags /\ \A q \in Pokemons : Plus(b, p)[q] = (IF q = p THEN b[q] + 1 ELSE b[q])
    BY DEF Bags, Plus
<1>. QED BY <1>2, <1>3, <1>4

\* A difference of dictionaries is a bag; what one has too much of the other does not.
LEMMA DifferenceIsBag ==
    ASSUME NEW b \in Bags, NEW c \in Bags
    PROVE  /\ get_dictionary_difference(b, c) \in Bags
           /\ \A p \in Pokemons : /\ get_dictionary_difference(b, c)[p] <= b[p]
                                  /\ get_dictionary_difference(b, c)[p] > 0 =>
                                        get_dictionary_difference(c, b)[p] = 0
BY DEF Bags, get_dictionary_difference

\* The dictionary with nothing in it.
LEMMA EmptyIsBag == Empty \in Bags
BY DEF Empty, Bags

\* The least element of a set of numbers is one of them.
LEMMA MinIsElement ==
    ASSUME NEW T \in SUBSET Nat, T # {}
    PROVE  Min(T) \in T
BY LeastNumber, Zenon DEF Min

-----------------------------------------------------------------------------
(* Every step keeps the types.                                              *)

\* A finisher's record keeps its type under each of the updates.
LEMMA FinisherUpdates ==
    ASSUME NEW f \in FinisherState
    PROVE  /\ \A pc \in {"full", "search", "all full?", "done"} :
                [f EXCEPT !.pc = pc] \in FinisherState
           /\ \A aux \in Bags : [f EXCEPT !.aux = aux] \in FinisherState
           /\ \A aux \in Bags : [f EXCEPT !.pc = "search", !.aux = aux] \in FinisherState
BY DEF FinisherState

\* The record of one finisher changes.
Finds(t, f) == finisher' = [finisher EXCEPT ![t] = f]

\* A search that goes on keeps the types.
LEMMA FindsTyped ==
    ASSUME DetectTypes, NEW t \in Trainers, NEW f \in FinisherState, Finds(t, f),
           objective' = objective, to_deadlock' \in Seq(Trainers),
           leftovers' \in [Trainers -> Bags], remaining' \in [Trainers -> Bags],
           f.pc = "match" => f.other \in Trainers /\ f.needs \in Pokemons /\ f.gives \in Pokemons
    PROVE  DetectTypes'
BY DEF DetectTypes, Finds

\* Who may be found has pokemons to spare and waits for a match.
LEMMA FirstWaits ==
    ASSUME DetectTypes, NEW p \in Pokemons, WithLeftover(p) # {}
    PROVE  /\ First(p) \in Trainers
           /\ \E i \in DOMAIN to_deadlock : First(p) = to_deadlock[i]
<1>1. DOMAIN to_deadlock = 1..Len(to_deadlock) /\ Len(to_deadlock) \in Nat
    BY LenProperties DEF DetectTypes
<1>2. WithLeftover(p) \in SUBSET Nat /\ WithLeftover(p) \subseteq DOMAIN to_deadlock
    BY <1>1 DEF WithLeftover
<1>3. Min(WithLeftover(p)) \in DOMAIN to_deadlock
    BY <1>2, MinIsElement
<1>4. to_deadlock[Min(WithLeftover(p))] \in Trainers
    BY <1>1, <1>3, ElementOfSeq DEF DetectTypes
<1>. QED BY <1>3, <1>4 DEF First

\* Every step of a search keeps the types.
LEMMA FinisherDetectTypes ==
    ASSUME ExchangeTypes, NEW t \in Trainers, Finisher(t)
    PROVE  DetectTypes'
<1>. USE DEF ExchangeTypes
<1>0. /\ finisher[t] \in FinisherState /\ objective' = objective
      /\ leftovers[t] \in Bags /\ remaining[t] \in Bags
      /\ caught[t] \in Bags /\ objective[t] \in Bags
    BY DEF DetectTypes, Finisher, FinisherFrame, startVars, BecomeFull, HasObjective, BeginSearch,
           FindCandidate, AddMatch, AddToDeadlock, WakeMain
<1>1. CASE BecomeFull(t) \/ HasObjective(t) \/ WakeMain(t)
    <2>1. PICK pc \in {"full", "all full?", "done"} : Finds(t, [finisher[t] EXCEPT !.pc = pc])
        BY <1>1 DEF BecomeFull, HasObjective, WakeMain, Finds
    <2>2. UNCHANGED <<leftovers, remaining, to_deadlock>>
        BY <1>1 DEF BecomeFull, HasObjective, WakeMain
    <2>3. [finisher[t] EXCEPT !.pc = pc] \in FinisherState
        BY <1>0, FinisherUpdates
    <2>4. [finisher[t] EXCEPT !.pc = pc].pc # "match"
        BY <1>0 DEF FinisherState
    <2>. QED BY <1>0, <2>1, <2>2, <2>3, <2>4, FindsTyped DEF DetectTypes
<1>2. CASE BeginSearch(t)
    <2>. DEFINE l == get_dictionary_difference(caught[t], objective[t])
                r == get_dictionary_difference(objective[t], caught[t])
                f == [finisher[t] EXCEPT !.pc = "search", !.aux = r]
    <2>1. l \in Bags /\ r \in Bags
        BY <1>0, DifferenceIsBag
    <2>2. leftovers' = [leftovers EXCEPT ![t] = l] /\ remaining' = [remaining EXCEPT ![t] = r]
        BY <1>2 DEF BeginSearch
    <2>3. to_deadlock' = to_deadlock /\ finisher' = [finisher EXCEPT ![t] =
                [finisher[t] EXCEPT !.pc = "search", !.aux = remaining'[t]]]
        BY <1>2 DEF BeginSearch
    <2>. HIDE DEF l, r
    <2>4. remaining'[t] = r
        BY <2>2 DEF DetectTypes
    <2>5. Finds(t, f) /\ f \in FinisherState /\ f.pc # "match"
        BY <1>0, <2>1, <2>3, <2>4, FinisherUpdates DEF Finds, FinisherState
    <2>. HIDE DEF f
    <2>. QED BY <1>0, <2>1, <2>2, <2>3, <2>5, FindsTyped DEF DetectTypes
<1>3. CASE FindCandidate(t)
    <2>0. UNCHANGED <<leftovers, remaining, to_deadlock>>
        BY <1>3 DEF FindCandidate
    <2>1. PICK p \in Species(finisher[t].aux) :
            \/ Finds(t, [finisher[t] EXCEPT !.aux = Minus(finisher[t].aux, p)])
            \/ \E q \in HeNeeds(t, p) :
                Finds(t, [pc |-> "match", aux |-> Minus(finisher[t].aux, p),
                          other |-> First(p), needs |-> p, gives |-> q])
        BY <1>3 DEF FindCandidate, Finds
    <2>. DEFINE aux == Minus(finisher[t].aux, p)
    <2>2. p \in Pokemons /\ aux \in Bags
        <3>1. p \in Pokemons /\ finisher[t].aux \in Bags
            BY <1>0 DEF Species, FinisherState
        <3>. QED BY <3>1, BagOps
    <2>. HIDE DEF aux
    <2>3. CASE Finds(t, [finisher[t] EXCEPT !.aux = aux])
        <3>1. [finisher[t] EXCEPT !.aux = aux] \in FinisherState
            BY <1>0, <2>2, FinisherUpdates
        <3>2. finisher[t].pc = "search" /\ [finisher[t] EXCEPT !.aux = aux].pc = "search"
            BY <1>0, <1>3 DEF FindCandidate, FinisherState
        <3>. QED BY <1>0, <2>0, <2>3, <3>1, <3>2, FindsTyped DEF DetectTypes
    <2>4. CASE \E q \in HeNeeds(t, p) :
                Finds(t, [pc |-> "match", aux |-> aux, other |-> First(p), needs |-> p, gives |-> q])
        <3>1. PICK q \in HeNeeds(t, p) :
                Finds(t, [pc |-> "match", aux |-> aux, other |-> First(p), needs |-> p, gives |-> q])
            BY <2>4
        <3>2. WithLeftover(p) # {} /\ q \in Pokemons
            BY DEF HeNeeds, Species
        <3>3. First(p) \in Trainers
            BY <2>2, <3>2, FirstWaits
        <3>. DEFINE f == [pc |-> "match", aux |-> aux, other |-> First(p), needs |-> p, gives |-> q]
        <3>4. f \in FinisherState
            BY <2>2, <3>2, <3>3 DEF FinisherState
        <3>5. f.other \in Trainers /\ f.needs \in Pokemons /\ f.gives \in Pokemons
            BY <2>2, <3>2, <3>3
        <3>. HIDE DEF f
        <3>. QED BY <1>0, <2>0, <3>1, <3>4, <3>5, FindsTyped DEF DetectTypes, f
    <2>. QED BY <2>1, <2>3, <2>4 DEF aux
<1>4. CASE AddMatch(t)
    <2>. DEFINE u == finisher[t].other
                p == finisher[t].needs
                q == finisher[t].gives
    <2>1. u \in Trainers /\ p \in Pokemons /\ q \in Pokemons
        BY <1>4 DEF AddMatch, DetectTypes
    <2>2. /\ leftovers' = [leftovers EXCEPT ![t] = Minus(@, q), ![u] = Minus(@, p)]
          /\ remaining' = [remaining EXCEPT ![t] = Minus(@, p), ![u] = Minus(@, q)]
          /\ to_deadlock' = to_deadlock /\ Finds(t, [finisher[t] EXCEPT !.pc = "search"])
        BY <1>4 DEF AddMatch, Finds
    <2>3. [finisher[t] EXCEPT !.pc = "search"] \in FinisherState
          /\ [finisher[t] EXCEPT !.pc = "search"].pc = "search"
        BY <1>0, FinisherUpdates DEF FinisherState
    <2>. HIDE DEF u, p, q
    <2>4. \A b \in Bags, s \in Pokemons : Minus(b, s) \in Bags
        BY BagOps
    <2>5. leftovers' \in [Trainers -> Bags] /\ remaining' \in [Trainers -> Bags]
        BY <2>1, <2>2, <2>4 DEF DetectTypes
    <2>. QED BY <1>0, <2>2, <2>3, <2>5, FindsTyped DEF DetectTypes
<1>5. CASE AddToDeadlock(t)
    <2>1. /\ Finds(t, [finisher[t] EXCEPT !.pc = "all full?"])
          /\ UNCHANGED <<leftovers, remaining>>
        BY <1>5 DEF AddToDeadlock, Finds
    <2>2. [finisher[t] EXCEPT !.pc = "all full?"] \in FinisherState
          /\ [finisher[t] EXCEPT !.pc = "all full?"].pc # "match"
        BY <1>0, FinisherUpdates DEF FinisherState
    <2>3. to_deadlock' \in Seq(Trainers)
        BY <1>5, AppendProperties DEF AddToDeadlock, DetectTypes
    <2>. QED BY <1>0, <2>1, <2>2, <2>3, FindsTyped DEF DetectTypes
<1>. QED BY <1>1, <1>2, <1>3, <1>4, <1>5 DEF Finisher

\* Steps of the other threads leave the searches alone.
LEMMA OtherDetectTypes ==
    ASSUME DetectTypes, UNCHANGED objective, UNCHANGED detectVars
    PROVE  DetectTypes'
BY DEF DetectTypes, detectVars

\* main's record keeps its type when it begins to compare and after an exchange.
LEMMA MainUpdates ==
    ASSUME NEW m \in MainState, NEW w \in Nat, NEW l \in Bags, NEW r \in Bags
    PROVE  /\ \A i \in Nat : [m EXCEPT !.pc = "compare", !.i = i, !.with = w, !.leftovers = l,
                                      !.remaining = r] \in MainState
           /\ [m EXCEPT !.leftovers = l, !.remaining = r, !.with = w] \in MainState
BY DEF MainState

\* Who main compares with is a trainer of its list, and not the one it has taken.
LEMMA OtherIsTrainer ==
    ASSUME MainTypes, Others # {}
    PROVE  Other \in Trainers /\ Other # main.i /\ Other \in Nat
<1>1. Trainers \subseteq Nat /\ main.deadlocked \subseteq Trainers
    BY BoundsAreNat DEF Trainers, MainTypes, MainState
<1>2. Others \subseteq main.deadlocked \ {main.i}
    BY DEF Others, After
<1>3. Min(Others) \in Others
    BY <1>1, <1>2, MinIsElement
<1>. QED BY <1>1, <1>2, <1>3 DEF Other

\* What an exchange leaves.
LEMMA SwappedTyped ==
    ASSUME caught \in [Trainers -> Bags], NEW t \in Trainers, NEW u \in Trainers,
           NEW p \in Pokemons, NEW q \in Pokemons
    PROVE  /\ Swapped(t, p, u, q) \in [Trainers -> Bags]
           /\ t # u => Swapped(t, p, u, q) =
                        [caught EXCEPT ![t] = Plus(Minus(caught[t], p), q),
                                       ![u] = Plus(Minus(caught[u], q), p)]
<1>1. \A b \in Bags, r, s \in Pokemons : Plus(Minus(b, r), s) \in Bags
    BY BagOps
<1>. QED BY <1>1 DEF Swapped

\* Every step of main keeps main's own types.
LEMMA MainThreadTypes ==
    ASSUME ExchangeTypes, MainThread
    PROVE  main' \in MainState /\ (main'.pc = "compare" => main'.i \in Trainers)
<1>. USE DEF ExchangeTypes, MainTypes
<1>0. main \in MainState /\ main.i \in Nat /\ main.i + 1 \in Nat /\ 1 \in Nat /\ 0 \in Nat
    BY DEF MainState
<1>1. CASE CreateTrainer \/ ListTrainer \/ InitSem \/ AllCaught \/ AllIterated \/ DirectDone
    <2>1. \/ \E pc \in {"list", "sem_init", "wait", "proceed", "direct", "gather"} :
                main' = [main EXCEPT !.pc = pc]
          \/ main' = [main EXCEPT !.pc = "create", !.i = main.i + 1]
        BY <1>1 DEF CreateTrainer, ListTrainer, InitSem, AllCaught, AllIterated, DirectDone
    <2>2. main' \in MainState
        BY <1>0, <2>1 DEF MainState
    <2>3. main'.pc # "compare"
        BY <1>0, <2>1 DEF MainState
    <2>. QED BY <2>2, <2>3
<1>2. CASE Proceed
    <2>1. \/ main' = [main EXCEPT !.pc = "gather"]
          \/ main' = [main EXCEPT !.pc = "iterate", !.i = 1]
        BY <1>2 DEF Proceed
    <2>. QED BY <1>0, <2>1 DEF MainState
<1>3. CASE IterateMatch
    <2>1. main' = [main EXCEPT !.i = main.i + 1] /\ main.pc = "iterate"
        BY <1>3 DEF IterateMatch
    <2>. QED BY <1>0, <2>1 DEF MainState
<1>4. CASE Gather
    <2>. DEFINE d == {t \in Trainers : status[t] # "EXIT"}
    <2>1. \/ main' = [main EXCEPT !.pc = "exit"]
          \/ main' = [main EXCEPT !.pc = "resolve", !.i = 0, !.deadlocked = d]
        BY <1>4 DEF Gather
    <2>2. d \in SUBSET Trainers
        OBVIOUS
    <2>. HIDE DEF d
    <2>. QED BY <1>0, <2>1, <2>2 DEF MainState
<1>5. CASE TakeNext
    <2>. DEFINE next == After(main.i, main.deadlocked)
                t == Min(next)
                l == get_dictionary_difference(caught[t], objective[t])
                r == get_dictionary_difference(objective[t], caught[t])
    <2>1. \/ main' = [main EXCEPT !.pc = "exit"]
          \/ next # {} /\ main' = [main EXCEPT !.i = t] /\ main.pc = "resolve"
          \/ /\ next # {}
             /\ main' = [main EXCEPT !.pc = "compare", !.i = t, !.with = Nobody,
                                     !.leftovers = l, !.remaining = r]
        BY <1>5 DEF TakeNext
    <2>2. next # {} => t \in Trainers /\ t \in Nat
        <3>1. Trainers \subseteq Nat /\ main.deadlocked \subseteq Trainers
            BY <1>0, BoundsAreNat DEF Trainers, MainState
        <3>2. next \subseteq Trainers /\ next \in SUBSET Nat
            BY <3>1 DEF After
        <3>. QED BY <3>1, <3>2, MinIsElement
    <2>3. t \in Trainers => l \in Bags /\ r \in Bags
        BY DifferenceIsBag DEF DetectTypes
    <2>. HIDE DEF t, l, r, next
    <2>4. CASE main' = [main EXCEPT !.pc = "exit"]
        BY <1>0, <2>4 DEF MainState
    <2>5. CASE next # {} /\ main' = [main EXCEPT !.i = t] /\ main.pc = "resolve"
        BY <1>0, <2>2, <2>5 DEF MainState
    <2>6. CASE /\ next # {}
               /\ main' = [main EXCEPT !.pc = "compare", !.i = t, !.with = Nobody,
                                       !.leftovers = l, !.remaining = r]
        <3>1. t \in Trainers /\ t \in Nat /\ l \in Bags /\ r \in Bags /\ Nobody \in Nat
            BY <2>2, <2>3, <2>6 DEF Nobody
        <3>2. main' \in MainState
            BY <1>0, <2>6, <3>1, MainUpdates
        <3>3. main'.i = t
            BY <1>0, <2>6 DEF MainState
        <3>. QED BY <3>1, <3>2, <3>3
    <2>. QED BY <2>1, <2>4, <2>5, <2>6
<1>6. CASE NothingToTake
    <2>1. \/ main' = [main EXCEPT !.pc = "resolve"]
          \/ Others # {} /\ main' = [main EXCEPT !.with = Other] /\ main.pc = "compare"
        BY <1>6 DEF NothingToTake
    <2>2. Others # {} => Other \in Nat
        BY OtherIsTrainer
    <2>. QED BY <1>0, <2>1, <2>2 DEF MainState
<1>7. CASE GiveMeMyPokemonsDude
    <2>1. PICK p \in INeed, q \in IF ItNeeds # {} THEN ItNeeds ELSE Species(main.leftovers),
               w \in {Other, main.with} :
            main' = [main EXCEPT !.leftovers = Minus(main.leftovers, q),
                                 !.remaining = Minus(main.remaining, p), !.with = w]
        BY <1>7 DEF GiveMeMyPokemonsDude
    <2>2. p \in Pokemons /\ q \in Pokemons
        BY DEF INeed, ItNeeds, Species
    <2>. DEFINE l == Minus(main.leftovers, q)
                r == Minus(main.remaining, p)
    <2>3. l \in Bags /\ r \in Bags
        BY <1>0, <2>2, BagOps DEF MainState
    <2>4. w \in Nat
        BY <1>0, <1>7, OtherIsTrainer DEF GiveMeMyPokemonsDude, MainState
    <2>5. main' = [main EXCEPT !.leftovers = l, !.remaining = r, !.with = w]
        BY <2>1
    <2>. HIDE DEF l, r
    <2>6. main' \in MainState
        BY <1>0, <2>3, <2>4, <2>5, MainUpdates
    <2>7. main'.i = main.i /\ main.pc = "compare"
        BY <1>0, <1>7, <2>5 DEF GiveMeMyPokemonsDude, MainState
    <2>. QED BY <2>6, <2>7
<1>. QED BY <1>1, <1>2, <1>3, <1>4, <1>5, <1>6, <1>7 DEF MainThread

\* A trainer's thread is somewhere else, in a match, and was told to go on or not.
Turns(t, pc, sem, match) ==
    /\ trainer' \in [Trainers -> TrainerState]
    /\ trainer'[t].pc = pc /\ trainer'[t].sem = sem /\ trainer'[t].match = match
    /\ trainer'[t].params = trainer[t].params
    /\ \A u \in Trainers \ {t} : trainer'[u] = trainer[u]

\* What each step of a trainer makes of its thread.
LEMMA TrainerTurns ==
    ASSUME SwapTypes, NEW t \in Trainers
    PROVE  /\ StartSwap(t) => Turns(t, "cycle", 0, trainer[t].params)
           /\ GoOn(t) => Turns(t, "cycle", trainer[t].sem, trainer[t].match)
           /\ desalojar(t) => Turns(t, "requeue", trainer[t].sem, trainer[t].match)
           /\ Requeue(t) => Turns(t, "preempted", trainer[t].sem, trainer[t].match)
           /\ Resume(t) => Turns(t, "cycle", 0, trainer[t].match)
           /\ exchange_pokemons(t) => Turns(t, "validate1", trainer[t].sem, trainer[t].match)
           /\ \A pc, u, next : next \in {"validate2", "count"} /\ Validate(t, pc, u, next) =>
                Turns(t, next, trainer[t].sem, trainer[t].match)
           /\ FinishSwap(t) => Turns(t, "loop", trainer[t].sem, trainer[t].match)
<1>. DEFINE h == trainer[t]
<1>0. trainer \in [Trainers -> TrainerState] /\ h \in TrainerState /\ MaxDistance \in Nat
    BY BoundsAreNat DEF SwapTypes
<1>1. ASSUME NEW g \in TrainerState, trainer' = [trainer EXCEPT ![t] = g], g.params = h.params
      PROVE  Turns(t, g.pc, g.sem, g.match)
    BY <1>0, <1>1 DEF Turns
<1>2. ASSUME StartSwap(t) PROVE Turns(t, "cycle", 0, h.params)
    <2>1. PICK distance \in 0..MaxDistance :
            trainer' = [trainer EXCEPT ![t] = [trainer[t] EXCEPT !.pc = "cycle", !.sem = 0,
                                                 !.match = trainer[t].params, !.left = distance + 4]]
        BY <1>2 DEF StartSwap
    <2>. DEFINE n == distance + 4
                g == [h EXCEPT !.pc = "cycle", !.sem = 0, !.match = h.params, !.left = n]
    <2>2. n \in Nat
        BY <1>0
    <2>3. trainer' = [trainer EXCEPT ![t] = g]
        BY <2>1
    <2>. HIDE DEF n, h
    <2>4. /\ g \in TrainerState /\ g.pc = "cycle" /\ g.sem = 0 /\ g.match = h.params
          /\ g.params = h.params
        BY <1>0, <2>2 DEF TrainerState
    <2>. HIDE DEF g
    <2>. QED BY <1>1, <2>3, <2>4
<1>3. ASSUME GoOn(t) PROVE Turns(t, "cycle", h.sem, h.match)
    <2>. DEFINE n == h.left - 1
                q == IF algorithm = "RR" THEN h.quantum + 1 ELSE h.quantum
                g == [h EXCEPT !.left = n, !.quantum = q]
    <2>1. n \in Nat /\ q \in Nat /\ h.pc = "cycle"
        BY <1>0, <1>3 DEF GoOn, TrainerState
    <2>2. trainer' = [trainer EXCEPT ![t] = g]
        BY <1>0, <1>3 DEF GoOn, TrainerState
    <2>. HIDE DEF n, q, h
    <2>3. /\ g \in TrainerState /\ g.pc = "cycle" /\ g.sem = h.sem /\ g.match = h.match
          /\ g.params = h.params
        BY <1>0, <2>1 DEF TrainerState
    <2>. HIDE DEF g
    <2>. QED BY <1>1, <2>2, <2>3
<1>4. ASSUME desalojar(t) PROVE Turns(t, "requeue", h.sem, h.match)
    <2>. DEFINE n == h.left - 1
                g == [h EXCEPT !.pc = "requeue", !.quantum = 0, !.left = n]
    <2>1. n \in Nat
        BY <1>0, <1>4 DEF desalojar, TrainerState
    <2>2. trainer' = [trainer EXCEPT ![t] = g]
        BY <1>4 DEF desalojar
    <2>. HIDE DEF n, h
    <2>3. /\ g \in TrainerState /\ g.pc = "requeue" /\ g.sem = h.sem /\ g.match = h.match
          /\ g.params = h.params
        BY <1>0, <2>1 DEF TrainerState
    <2>. HIDE DEF g
    <2>. QED BY <1>1, <2>2, <2>3
<1>5. ASSUME NEW pc \in {"preempted", "validate1", "validate2", "count"},
             trainer' = [trainer EXCEPT ![t].pc = pc]
      PROVE  Turns(t, pc, h.sem, h.match)
    <2>1. trainer' = [trainer EXCEPT ![t] = [h EXCEPT !.pc = pc]]
        BY <1>5
    <2>. HIDE DEF h
    <2>2. /\ [h EXCEPT !.pc = pc] \in TrainerState
          /\ [h EXCEPT !.pc = pc].pc = pc /\ [h EXCEPT !.pc = pc].sem = h.sem
          /\ [h EXCEPT !.pc = pc].match = h.match /\ [h EXCEPT !.pc = pc].params = h.params
        BY <1>0 DEF TrainerState
    <2>. QED BY <1>1, <2>1, <2>2
<1>6. ASSUME Resume(t) PROVE Turns(t, "cycle", 0, h.match)
    <2>. DEFINE g == [h EXCEPT !.pc = "cycle", !.sem = 0]
    <2>1. trainer' = [trainer EXCEPT ![t] = g]
        BY <1>0, <1>6 DEF Resume
    <2>. HIDE DEF h
    <2>2. /\ g \in TrainerState /\ g.pc = "cycle" /\ g.sem = 0 /\ g.match = h.match
          /\ g.params = h.params
        BY <1>0 DEF TrainerState
    <2>. HIDE DEF g
    <2>. QED BY <1>1, <2>1, <2>2
<1>7. ASSUME FinishSwap(t) PROVE Turns(t, "loop", h.sem, h.match)
    <2>. DEFINE g == [h EXCEPT !.pc = "loop", !.quantum = 0]
    <2>1. trainer' = [trainer EXCEPT ![t] = g]
        BY <1>0, <1>7 DEF FinishSwap
    <2>. HIDE DEF h
    <2>2. /\ g \in TrainerState /\ g.pc = "loop" /\ g.sem = h.sem /\ g.match = h.match
          /\ g.params = h.params
        BY <1>0 DEF TrainerState
    <2>. HIDE DEF g
    <2>. QED BY <1>1, <2>1, <2>2
<1>8. ASSUME NEW pc, NEW u, NEW next \in {"validate2", "count"}, Validate(t, pc, u, next)
      PROVE  Turns(t, next, h.sem, h.match)
    BY <1>5, <1>8 DEF Validate
<1>9. Requeue(t) => Turns(t, "preempted", h.sem, h.match)
    BY <1>5 DEF Requeue
<1>10. exchange_pokemons(t) => Turns(t, "validate1", h.sem, h.match)
    BY <1>5 DEF exchange_pokemons
<1>. QED BY <1>2, <1>3, <1>4, <1>6, <1>7, <1>8, <1>9, <1>10

\* What a trainer's thread leaves alone.
LEMMA TrainerFrame ==
    ASSUME NEW t \in Trainers, TrainerThread(t)
    PROVE  /\ UNCHANGED <<startVars, main, wakeVars, detectVars, matched_deadlocks, waiter>>
           /\ UNCHANGED crossed
BY DEF TrainerThread, SwapFrame, StartSwap, GoOn, desalojar, Requeue, Resume, exchange_pokemons,
       validate_state_trainer, Validate, FinishSwap

\* A sequence over a set is one over any larger set.
LEMMA WiderSeq ==
    ASSUME NEW S, NEW T, S \subseteq T, NEW s \in Seq(S)
    PROVE  s \in Seq(T)
<1>1. Len(s) \in Nat /\ s \in [1..Len(s) -> S]
    BY LenProperties
<1>2. s \in [1..Len(s) -> T]
    BY <1>1
<1>. QED BY <1>1, <1>2, SeqDef

\* The lists of matches and their threads, as they may change while the matches stay.
Threads(wait, ran, queue) ==
    /\ matched_deadlocks' = matched_deadlocks
    /\ waiter' = wait /\ wait \in Seq(WaiterState) /\ Len(wait) = Len(matched_deadlocks)
    /\ executed' = ran /\ ran \in Seq(Nat) /\ Len(ran) = Len(matched_deadlocks)
    /\ queue_deadlock' = queue /\ queue \in Seq(Planned)

\* What main does to waiters and queue: it queues a match or starts its waiter.
LEMMA MainThreads ==
    ASSUME ExchangeTypes, MainThread
    PROVE  /\ UNCHANGED trainer
           /\ IF IterateMatch /\ Free(trainer1(main.i)) /\ Free(trainer2(main.i))
              THEN Threads(waiter, executed, Append(queue_deadlock, main.i)) /\ main.i \in Planned
              ELSE IF IterateMatch
              THEN /\ Threads([waiter EXCEPT ![main.i] = "check1"], executed, queue_deadlock)
                   /\ main.i \in Planned
              ELSE Threads(waiter, executed, queue_deadlock)
<1>. USE DEF ExchangeTypes, SwapTypes
<1>0. /\ DOMAIN matched_deadlocks = Planned /\ DOMAIN waiter = Planned
      /\ Len(matched_deadlocks) \in Nat
    BY LenProperties DEF Planned
<1>1. UNCHANGED <<trainer, matched_deadlocks, executed>>
    BY DEF MainThread, CreateTrainer, ListTrainer, InitSem, AllCaught, Proceed, IterateMatch,
           AllIterated, DirectDone, Gather, TakeNext, NothingToTake, GiveMeMyPokemonsDude,
           MainFrame, ProceedFrame, ResolveFrame
<1>2. CASE IterateMatch
    <2>1. main.i \in Planned
        BY <1>0, <1>2 DEF IterateMatch
    <2>2. CASE Free(trainer1(main.i)) /\ Free(trainer2(main.i))
        <3>1. Append(queue_deadlock, main.i) \in Seq(Planned)
            BY <2>1, AppendProperties
        <3>. QED BY <1>1, <1>2, <2>1, <2>2, <3>1 DEF IterateMatch, Threads
    <2>3. CASE ~(Free(trainer1(main.i)) /\ Free(trainer2(main.i)))
        <3>1. "check1" \in WaiterState /\ main.i \in 1..Len(waiter) /\ waiter \in Seq(WaiterState)
            BY <2>1 DEF WaiterState, Planned
        <3>2. ASSUME NEW i \in 1..Len(waiter), NEW pc \in WaiterState
              PROVE  /\ [waiter EXCEPT ![i] = pc] \in Seq(WaiterState)
                     /\ Len([waiter EXCEPT ![i] = pc]) = Len(waiter)
            BY <3>1, <3>2, ExceptSeq
        <3>3. /\ [waiter EXCEPT ![main.i] = "check1"] \in Seq(WaiterState)
              /\ Len([waiter EXCEPT ![main.i] = "check1"]) = Len(waiter)
            BY <3>1, <3>2
        <3>. QED BY <1>1, <1>2, <2>1, <2>3, <3>3 DEF IterateMatch, Threads
    <2>. QED BY <2>2, <2>3
<1>3. CASE ~IterateMatch
    <2>1. UNCHANGED <<waiter, queue_deadlock>>
        BY <1>3 DEF MainThread, CreateTrainer, ListTrainer, InitSem, AllCaught, Proceed,
               AllIterated, DirectDone, Gather, TakeNext, NothingToTake, GiveMeMyPokemonsDude,
               MainFrame, ProceedFrame, ResolveFrame, waitVars, planVars
    <2>. QED BY <1>1, <1>3, <2>1 DEF Threads
<1>. QED BY <1>1, <1>2, <1>3

\* What a waiter does: it queues its match, or goes on.
LEMMA WaiterThreads ==
    ASSUME ExchangeTypes, NEW m \in Planned, WaitStatus(m)
    PROVE  /\ UNCHANGED <<main, trainer, crossed, hasty, finisher>>
           /\ UNCHANGED <<directVars, mutex_planning_deadlock>>
           /\ \/ QueueMatch(m) /\ Threads([waiter EXCEPT ![m] = "done"], executed,
                                          Append(queue_deadlock, m))
              \/ /\ ~QueueMatch(m) /\ waiter[m] \notin {"none", "done"}
                 /\ \E pc \in WaiterState \ {"none", "done"} :
                        Threads([waiter EXCEPT ![m] = pc], executed, queue_deadlock)
<1>. USE DEF ExchangeTypes, SwapTypes
<1>1. /\ UNCHANGED <<main, trainer, crossed, hasty, finisher, matched_deadlocks, executed>>
      /\ UNCHANGED <<directVars, mutex_planning_deadlock>>
    BY DEF WaitStatus, CheckStatus, LockDeadlock, QueueMatch, WaiterFrame, wakeVars, detectVars
<1>2. ASSUME NEW pc \in WaiterState
      PROVE  /\ [waiter EXCEPT ![m] = pc] \in Seq(WaiterState)
             /\ Len([waiter EXCEPT ![m] = pc]) = Len(matched_deadlocks)
    <2>1. m \in 1..Len(waiter) /\ waiter \in Seq(WaiterState)
        BY DEF Planned
    <2>2. Len([waiter EXCEPT ![m] = pc]) = Len(waiter)
        BY <1>2, <2>1, ExceptSeq
    <2>. QED BY <1>2, <2>1, <2>2, ExceptSeq
<1>3. CASE QueueMatch(m)
    <2>1. waiter' = [waiter EXCEPT ![m] = "done"] /\ queue_deadlock' = Append(queue_deadlock, m)
        BY <1>3 DEF QueueMatch
    <2>2. Append(queue_deadlock, m) \in Seq(Planned)
        BY AppendProperties
    <2>3. "done" \in WaiterState
        BY DEF WaiterState
    <2>. QED BY <1>1, <1>2, <1>3, <2>1, <2>2, <2>3 DEF Threads
<1>4. CASE ~QueueMatch(m)
    <2>1. /\ waiter[m] \in {"check1", "lock1", "check2", "lock2"} /\ UNCHANGED queue_deadlock
          /\ \E pc \in {"lock1", "check2", "lock2", "queue"} : waiter' = [waiter EXCEPT ![m] = pc]
        BY <1>4 DEF WaitStatus, CheckStatus, LockDeadlock
    <2>2. PICK pc \in {"lock1", "check2", "lock2", "queue"} : waiter' = [waiter EXCEPT ![m] = pc]
        BY <2>1
    <2>3. pc \in WaiterState \ {"none", "done"}
        BY DEF WaiterState
    <2>4. Threads([waiter EXCEPT ![m] = pc], executed, queue_deadlock)
        BY <1>1, <1>2, <2>1, <2>2, <2>3 DEF Threads
    <2>. QED BY <1>1, <1>4, <2>1, <2>3, <2>4
<1>. QED BY <1>3, <1>4

\* The planner's step, whose match is given to its first trainer.
LEMMA PlanThreads ==
    ASSUME ExchangeTypes, Plan
    PROVE  LET m == Head(queue_deadlock)
               t == trainer1(m) IN
           /\ m \in Planned /\ t \in Trainers /\ queue_deadlock # <<>>
           /\ Threads(waiter, executed, Tail(queue_deadlock))
           /\ trainer' \in [Trainers -> TrainerState]
           /\ trainer'[t].params = m /\ trainer'[t].sem = 1
           /\ trainer'[t].pc = trainer[t].pc /\ trainer'[t].match = trainer[t].match
           /\ \A u \in Trainers \ {t} : trainer'[u] = trainer[u]
           /\ crossed' = (crossed \/ (trainer[t].pc \in {"requeue", "preempted"}
                                        /\ trainer[t].match # m))
           /\ ~mutex_planning_deadlock /\ mutex_planning_deadlock'
           /\ UNCHANGED <<main, hasty, finisher>> /\ UNCHANGED directVars
<1>. USE DEF ExchangeTypes, SwapTypes
<1>. DEFINE m == Head(queue_deadlock)
            t == trainer1(m)
            h == trainer[t]
            g == [h EXCEPT !.params = m, !.sem = 1]
<1>1. queue_deadlock # <<>> /\ m \in Planned /\ Tail(queue_deadlock) \in Seq(Planned)
    BY HeadTailProperties DEF Plan
<1>2. t \in Trainers /\ m \in Nat
    <2>1. m \in 1..Len(matched_deadlocks) /\ m \in Nat
        BY <1>1, LenProperties DEF Planned
    <2>2. matched_deadlocks[m] \in MatchRecord
        BY <2>1, ElementOfSeq
    <2>. QED BY <2>1, <2>2 DEF trainer1, MatchRecord
<1>3. /\ UNCHANGED <<main, hasty, finisher, matched_deadlocks, waiter, executed>>
      /\ UNCHANGED directVars /\ ~mutex_planning_deadlock /\ mutex_planning_deadlock'
      /\ queue_deadlock' = Tail(queue_deadlock)
      /\ trainer' = [trainer EXCEPT ![t].params = m, ![t].sem = 1]
      /\ crossed' = (crossed \/ (trainer[t].pc \in {"requeue", "preempted"} /\ trainer[t].match # m))
    BY DEF Plan, wakeVars, detectVars, waitVars
<1>4. trainer \in [Trainers -> TrainerState] /\ h \in TrainerState
    BY <1>2
<1>. HIDE DEF m, t
<1>5. trainer' = [trainer EXCEPT ![t] = g]
    BY <1>2, <1>3, <1>4
<1>. HIDE DEF h
<1>6. /\ g \in TrainerState /\ g.params = m /\ g.sem = 1 /\ g.pc = h.pc /\ g.match = h.match
    BY <1>2, <1>4 DEF TrainerState
<1>. HIDE DEF g
<1>7. /\ trainer' \in [Trainers -> TrainerState] /\ trainer'[t] = g
      /\ \A u \in Trainers \ {t} : trainer'[u] = trainer[u]
    BY <1>2, <1>4, <1>5, <1>6
<1>8. Threads(waiter, executed, Tail(queue_deadlock))
    BY <1>1, <1>3 DEF Threads
<1>. QED BY <1>1, <1>2, <1>3, <1>6, <1>7, <1>8 DEF m, t, h

\* What the trainers' threads are at does not change.
TrainersStay ==
    /\ trainer' \in [Trainers -> TrainerState]
    /\ \A t \in Trainers : /\ trainer'[t].pc = trainer[t].pc /\ trainer'[t].sem = trainer[t].sem
                           /\ trainer'[t].match = trainer[t].match
                           /\ trainer'[t].params = trainer[t].params

\* A match is added behind the others, and nobody has come to it.
Adds(r) ==
    /\ r \in MatchRecord
    /\ matched_deadlocks' = Append(matched_deadlocks, r)
    /\ waiter' = Append(waiter, "none") /\ executed' = Append(executed, 0)
    /\ UNCHANGED <<queue_deadlock, trainer>>

MatchOf(t) == [trainer1 |-> t, pokemon1 |-> finisher[t].gives,
               trainer2 |-> finisher[t].other, pokemon2 |-> finisher[t].needs]

\* What a search does to the matches: it adds one at the end, or nothing.
LEMMA FinisherThreads ==
    ASSUME ExchangeTypes, NEW t \in Trainers, Finisher(t)
    PROVE  /\ UNCHANGED <<main, crossed, hasty, caught, startVars>>
           /\ UNCHANGED <<directVars, mutex_planning_deadlock>>
           /\ IF AddMatch(t) THEN Adds(MatchOf(t)) /\ finisher[t].pc = "match" /\ main.pc # "iterate"
              ELSE Threads(waiter, executed, queue_deadlock) /\ TrainersStay
<1>. USE DEF ExchangeTypes
<1>1. /\ UNCHANGED <<main, crossed, hasty, caught, startVars>>
      /\ UNCHANGED <<directVars, mutex_planning_deadlock, queue_deadlock>>
    BY DEF Finisher, BecomeFull, HasObjective, BeginSearch, FindCandidate, AddMatch,
           AddToDeadlock, WakeMain, FinisherFrame, planVars
<1>2. CASE AddMatch(t)
    <2>1. finisher[t].pc = "match" /\ main.pc # "iterate"
        BY <1>2 DEF AddMatch
    <2>2. MatchOf(t) \in MatchRecord
        BY <2>1 DEF MatchOf, MatchRecord, DetectTypes
    <2>3. Adds(MatchOf(t))
        BY <1>1, <1>2, <2>2 DEF AddMatch, Adds, MatchOf
    <2>. QED BY <1>1, <1>2, <2>1, <2>3
<1>3. CASE ~AddMatch(t)
    <2>1. UNCHANGED <<matched_deadlocks, waiter, executed>>
        BY <1>3 DEF Finisher, BecomeFull, HasObjective, BeginSearch, FindCandidate,
               AddToDeadlock, WakeMain, FinisherFrame, matchVars
    <2>2. Threads(waiter, executed, queue_deadlock)
        BY <1>1, <2>1 DEF Threads, SwapTypes
    <2>3. trainer' \in {trainer, [trainer EXCEPT ![t].quantum = 0]}
        BY <1>3 DEF Finisher, BecomeFull, HasObjective, BeginSearch, FindCandidate,
               AddToDeadlock, WakeMain
    <2>4. trainer \in [Trainers -> TrainerState]
        BY DEF SwapTypes
    <2>5. trainer' = trainer => TrainersStay
        BY <2>4 DEF TrainersStay
    <2>6. ASSUME trainer' = [trainer EXCEPT ![t].quantum = 0] PROVE TrainersStay
        <3>1. trainer' = [trainer EXCEPT ![t] = [trainer[t] EXCEPT !.quantum = 0]]
            BY <2>6
        <3>. DEFINE h == trainer[t]
                    g == [h EXCEPT !.quantum = 0]
        <3>2. h \in TrainerState
            BY <2>4
        <3>3. trainer' = [trainer EXCEPT ![t] = g]
            BY <3>1
        <3>. HIDE DEF h
        <3>4. /\ g \in TrainerState /\ g.pc = h.pc /\ g.sem = h.sem /\ g.match = h.match
              /\ g.params = h.params
            BY <3>2 DEF TrainerState
        <3>. HIDE DEF g
        <3>5. /\ trainer' \in [Trainers -> TrainerState]
              /\ \A u \in Trainers : trainer'[u] = IF u = t THEN g ELSE trainer[u]
            BY <2>4, <3>3, <3>4
        <3>. QED BY <3>4, <3>5 DEF TrainersStay, h
    <2>. QED BY <1>1, <1>3, <2>2, <2>3, <2>5, <2>6
<1>. QED BY <1>2, <1>3

\* What a trainer's thread does to the lists of matches.
LEMMA TrainerThreads ==
    ASSUME ExchangeTypes, NEW t \in Trainers, TrainerThread(t)
    PROVE  IF Requeue(t) THEN Threads(waiter, executed, Append(queue_deadlock, trainer[t].match))
           ELSE IF exchange_pokemons(t)
           THEN Threads(waiter, [executed EXCEPT ![trainer[t].match] = @ + 1], queue_deadlock)
           ELSE Threads(waiter, executed, queue_deadlock)
<1>. USE DEF ExchangeTypes, SwapTypes
<1>. DEFINE m == trainer[t].match
            n == executed[m] + 1
<1>1. UNCHANGED <<matched_deadlocks, waiter>>
    BY TrainerFrame
<1>2. trainer[t].pc # "loop" => m \in Planned
    OBVIOUS
<1>3. CASE Requeue(t)
    <2>1. /\ m \in Planned /\ queue_deadlock' = Append(queue_deadlock, m)
          /\ UNCHANGED executed
        BY <1>2, <1>3 DEF Requeue
    <2>2. Append(queue_deadlock, m) \in Seq(Planned)
        BY <2>1, AppendProperties
    <2>. QED BY <1>1, <1>3, <2>1, <2>2 DEF Threads
<1>4. CASE exchange_pokemons(t) /\ ~Requeue(t)
    <2>1. /\ m \in 1..Len(executed) /\ UNCHANGED queue_deadlock
          /\ executed' = [executed EXCEPT ![m] = n]
        BY <1>2, <1>4 DEF exchange_pokemons, planVars, Planned
    <2>2. n \in Nat /\ executed \in Seq(Nat)
        BY <2>1, ElementOfSeq
    <2>3. [executed EXCEPT ![m] = n] \in Seq(Nat)
        <3>. HIDE DEF n, m
        <3>. QED BY <2>1, <2>2, ExceptSeq
    <2>4. Len([executed EXCEPT ![m] = n]) = Len(executed)
        <3>. HIDE DEF n, m
        <3>. QED BY <2>1, <2>2, ExceptSeq
    <2>5. Threads(waiter, [executed EXCEPT ![m] = n], queue_deadlock)
        <3>. HIDE DEF n, m
        <3>. QED BY <1>1, <2>1, <2>3, <2>4 DEF Threads
    <2>. QED BY <1>4, <2>5
<1>5. CASE ~exchange_pokemons(t) /\ ~Requeue(t)
    <2>1. UNCHANGED <<executed, queue_deadlock>>
        BY <1>5 DEF TrainerThread, StartSwap, GoOn, desalojar, Resume,
               validate_state_trainer, Validate, FinishSwap, planVars
    <2>. QED BY <1>1, <1>5, <2>1 DEF Threads
<1>. QED BY <1>3, <1>4, <1>5

\* With the same matches, trainers of their type keep the types of the exchanges.
LEMMA SwapTypesStay ==
    ASSUME NEW wait, NEW ran, NEW queue, Threads(wait, ran, queue), SwapTypes,
           trainer' \in [Trainers -> TrainerState],
           \A t \in Trainers : /\ trainer'[t].sem = 1 => trainer'[t].params \in Planned
                               /\ trainer'[t].pc # "loop" => trainer'[t].match \in Planned
    PROVE  SwapTypes'
BY DEF SwapTypes, Threads, Planned

\* A trainer that takes its turn keeps the types of the exchanges.
LEMMA TurnsSwapTypes ==
    ASSUME NEW wait, NEW ran, NEW queue, Threads(wait, ran, queue), SwapTypes,
           NEW t \in Trainers, NEW pc, NEW sem, NEW match, Turns(t, pc, sem, match),
           sem = 1 => trainer[t].sem = 1, pc # "loop" => match \in Planned
    PROVE  SwapTypes'
<1>1. \A u \in Trainers : /\ trainer'[u].sem = 1 => trainer'[u].params \in Planned
                          /\ trainer'[u].pc # "loop" => trainer'[u].match \in Planned
    BY DEF Turns, SwapTypes
<1>. QED BY <1>1, SwapTypesStay DEF Turns

\* Every step of a trainer keeps them.
LEMMA TrainerSwapTypes ==
    ASSUME ExchangeTypes, NEW t \in Trainers, TrainerThread(t)
    PROVE  SwapTypes'
<1>1. SwapTypes
    BY DEF ExchangeTypes
<1>2. PICK wait, ran, queue : Threads(wait, ran, queue)
    BY TrainerThreads
<1>3. \E pc, match, sem : /\ Turns(t, pc, sem, match) /\ (sem = 1 => trainer[t].sem = 1)
                          /\ (pc # "loop" => match \in Planned)
    <2>0. /\ trainer[t].pc # "loop" => trainer[t].match \in Planned
          /\ trainer[t].sem = 1 => trainer[t].params \in Planned
        BY <1>1 DEF SwapTypes
    <2>1. CASE StartSwap(t)
        <3>1. Turns(t, "cycle", 0, trainer[t].params) /\ trainer[t].params \in Planned
            BY <1>1, <2>0, <2>1, TrainerTurns DEF StartSwap
        <3>. QED BY <3>1
    <2>2. CASE Resume(t)
        <3>1. Turns(t, "cycle", 0, trainer[t].match) /\ trainer[t].match \in Planned
            BY <1>1, <2>0, <2>2, TrainerTurns DEF Resume
        <3>. QED BY <3>1
    <2>3. CASE GoOn(t) \/ desalojar(t) \/ Requeue(t) \/ exchange_pokemons(t)
               \/ validate_state_trainer(t) \/ FinishSwap(t)
        <3>1. trainer[t].match \in Planned
            BY <2>0, <2>3 DEF GoOn, desalojar, Requeue, exchange_pokemons,
                  validate_state_trainer, Validate, FinishSwap
        <3>2. \E pc : Turns(t, pc, trainer[t].sem, trainer[t].match)
            BY <1>1, <2>3, TrainerTurns DEF validate_state_trainer
        <3>. QED BY <3>1, <3>2
    <2>. QED BY <2>1, <2>2, <2>3 DEF TrainerThread
<1>. QED BY <1>1, <1>2, <1>3, TurnsSwapTypes

\* A match that is added changes nothing about those before it.
LEMMA AddedSwapTypes ==
    ASSUME SwapTypes, NEW r, Adds(r)
    PROVE  /\ SwapTypes' /\ Len(matched_deadlocks)' = Len(matched_deadlocks) + 1
           /\ Planned' = Planned \cup {Len(matched_deadlocks) + 1}
           /\ \A m \in Planned : /\ matched_deadlocks'[m] = matched_deadlocks[m]
                                 /\ waiter'[m] = waiter[m] /\ executed'[m] = executed[m]
           /\ matched_deadlocks'[Len(matched_deadlocks) + 1] = r
           /\ waiter'[Len(matched_deadlocks) + 1] = "none"
           /\ executed'[Len(matched_deadlocks) + 1] = 0
<1>. DEFINE n == Len(matched_deadlocks)
<1>. USE DEF SwapTypes
<1>0. n \in Nat
    BY LenProperties
<1>1. /\ matched_deadlocks' \in Seq(MatchRecord) /\ Len(matched_deadlocks') = n + 1
      /\ matched_deadlocks'[n + 1] = r
      /\ \A m \in 1..n : matched_deadlocks'[m] = matched_deadlocks[m]
    BY AppendProperties DEF Adds
<1>2. /\ waiter' \in Seq(WaiterState) /\ Len(waiter') = n + 1
      /\ waiter'[n + 1] = "none" /\ \A m \in 1..n : waiter'[m] = waiter[m]
    <2>1. "none" \in WaiterState
        BY DEF WaiterState
    <2>. QED BY <2>1, AppendProperties DEF Adds
<1>3. /\ executed' \in Seq(Nat) /\ Len(executed') = n + 1
      /\ executed'[n + 1] = 0 /\ \A m \in 1..n : executed'[m] = executed[m]
    <2>1. 0 \in Nat
        OBVIOUS
    <2>. QED BY <2>1, AppendProperties DEF Adds
<1>4. Planned' = Planned \cup {n + 1} /\ Planned = 1..n
    BY <1>0, <1>1 DEF Planned
<1>5. queue_deadlock' \in Seq(Planned')
    <2>1. queue_deadlock \in Seq(Planned) /\ queue_deadlock' = queue_deadlock
        BY DEF Adds
    <2>2. Planned \subseteq Planned'
        BY <1>4
    <2>3. queue_deadlock \in Seq(Planned')
        BY <2>1, <2>2, WiderSeq, Zenon
    <2>. QED BY <2>1, <2>3
<1>6. SwapTypes'
    BY <1>1, <1>2, <1>3, <1>4, <1>5 DEF Adds
<1>. QED BY <1>1, <1>2, <1>3, <1>4, <1>6

\* Every step keeps the types of the exchanges.
LEMMA NextSwapTypes ==
    ASSUME ExchangeTypes, Next
    PROVE  SwapTypes'
<1>0. SwapTypes
    BY DEF ExchangeTypes
<1>1. CASE MainThread
    <2>1. PICK wait, ran, queue : Threads(wait, ran, queue)
        BY <1>1, MainThreads
    <2>2. trainer' = trainer
        BY <1>1, MainThreads
    <2>. QED BY <1>0, <2>1, <2>2, SwapTypesStay DEF SwapTypes
<1>2. CASE Plan
    <2>. DEFINE t == trainer1(Head(queue_deadlock))
    <2>0. /\ trainer'[t].params \in Planned /\ trainer' \in [Trainers -> TrainerState]
          /\ trainer'[t].pc = trainer[t].pc /\ trainer'[t].match = trainer[t].match
          /\ Threads(waiter, executed, Tail(queue_deadlock)) /\ t \in Trainers
          /\ \A u \in Trainers \ {t} : trainer'[u] = trainer[u]
        BY <1>2, PlanThreads
    <2>. HIDE DEF t
    <2>1. \A u \in Trainers : /\ trainer'[u].sem = 1 => trainer'[u].params \in Planned
                              /\ trainer'[u].pc # "loop" => trainer'[u].match \in Planned
        BY <1>0, <2>0 DEF SwapTypes
    <2>. QED BY <1>0, <2>0, <2>1, SwapTypesStay
<1>3. ASSUME NEW t \in Trainers, Finisher(t) PROVE SwapTypes'
    <2>1. CASE AddMatch(t)
        BY <1>0, <1>3, <2>1, FinisherThreads, AddedSwapTypes
    <2>2. CASE ~AddMatch(t)
        <3>1. Threads(waiter, executed, queue_deadlock) /\ TrainersStay
            BY <1>3, <2>2, FinisherThreads
        <3>2. \A u \in Trainers : /\ trainer'[u].sem = 1 => trainer'[u].params \in Planned
                                  /\ trainer'[u].pc # "loop" => trainer'[u].match \in Planned
            BY <1>0, <3>1 DEF SwapTypes, TrainersStay
        <3>. QED BY <1>0, <3>1, <3>2, SwapTypesStay DEF TrainersStay
    <2>. QED BY <2>1, <2>2
<1>4. ASSUME NEW t \in Trainers, TrainerThread(t) PROVE SwapTypes'
    BY <1>4, TrainerSwapTypes
<1>5. ASSUME NEW m \in DOMAIN matched_deadlocks, WaitStatus(m) PROVE SwapTypes'
    <2>1. m \in Planned
        BY <1>0, LenProperties DEF Planned, SwapTypes
    <2>2. PICK wait, ran, queue : Threads(wait, ran, queue)
        BY <1>5, <2>1, WaiterThreads
    <2>3. trainer' = trainer
        BY <1>5, <2>1, WaiterThreads
    <2>. QED BY <1>0, <2>2, <2>3, SwapTypesStay DEF SwapTypes
<1>. QED BY <1>1, <1>2, <1>3, <1>4, <1>5 DEF Next

\* Every step keeps the types of main.
LEMMA NextMainTypes ==
    ASSUME ExchangeTypes, Next
    PROVE  MainTypes'
<1>. USE DEF ExchangeTypes, MainTypes
<1>1. CASE MainThread
    <2>1. main' \in MainState /\ (main'.pc = "compare" => main'.i \in Trainers)
        BY <1>1, MainThreadTypes
    <2>2. UNCHANGED <<mutex_planning_deadlock, overpromised, crossed>>
        BY <1>1 DEF MainThread, CreateTrainer, ListTrainer, InitSem, AllCaught, Proceed,
               IterateMatch, AllIterated, DirectDone, Gather, TakeNext, NothingToTake,
               GiveMeMyPokemonsDude, MainFrame, ProceedFrame, ResolveFrame, directVars, planVars,
               wakeVars, detectVars
    <2>3. /\ count_sem_reverse_direct_deadlock' \in {0, count_sem_reverse_direct_deadlock}
          /\ mutex_direct_deadlocks' = TRUE \/ UNCHANGED mutex_direct_deadlocks
          /\ UNCHANGED hasty \/ hasty' = \E t \in Trainers :
                                        finisher[t].pc \in {"none", "full", "search", "match"}
        BY <1>1 DEF MainThread, CreateTrainer, ListTrainer, InitSem, AllCaught, Proceed,
               IterateMatch, AllIterated, DirectDone, Gather, TakeNext, NothingToTake,
               GiveMeMyPokemonsDude, MainFrame, ProceedFrame, ResolveFrame, directVars, planVars,
               wakeVars, detectVars
    <2>4. count_sem_reverse_direct_deadlock' \in Nat
        BY <2>3
    <2>5. mutex_direct_deadlocks' \in BOOLEAN /\ hasty' \in BOOLEAN
        BY <2>3, Zenon
    <2>. QED BY <2>1, <2>2, <2>4, <2>5
<1>2. CASE Plan
    BY <1>2 DEF Plan, wakeVars, detectVars, directVars
<1>3. ASSUME NEW t \in Trainers, Finisher(t) PROVE MainTypes'
    <2>1. UNCHANGED <<main, hasty, crossed, directVars, mutex_planning_deadlock>>
        BY <1>3, FinisherThreads
    <2>2. overpromised' \in BOOLEAN
        BY <1>3 DEF Finisher, BecomeFull, HasObjective, BeginSearch, FindCandidate, AddMatch,
               AddToDeadlock, WakeMain
    <2>. QED BY <2>1, <2>2 DEF directVars
<1>4. ASSUME NEW t \in Trainers, TrainerThread(t) PROVE MainTypes'
    <2>1. UNCHANGED <<main, hasty, crossed, overpromised>>
        BY <1>4, TrainerFrame DEF wakeVars, detectVars
    <2>2. count_sem_reverse_direct_deadlock' \in Nat
        <3>1. \/ UNCHANGED count_sem_reverse_direct_deadlock
              \/ count_sem_reverse_direct_deadlock' = count_sem_reverse_direct_deadlock + 1
            BY <1>4, Zenon DEF TrainerThread, StartSwap, GoOn, desalojar, Requeue, Resume,
                   exchange_pokemons, validate_state_trainer, Validate, FinishSwap, directVars,
                   planVars
        <3>. QED BY <3>1
    <2>3. /\ UNCHANGED mutex_planning_deadlock \/ mutex_planning_deadlock' = FALSE
          /\ \/ UNCHANGED mutex_direct_deadlocks
             \/ mutex_direct_deadlocks' =
                    (mutex_direct_deadlocks
                        /\ count_sem_reverse_direct_deadlock' # Len(matched_deadlocks))
        BY <1>4 DEF TrainerThread, StartSwap, GoOn, desalojar, Requeue, Resume,
               exchange_pokemons, validate_state_trainer, Validate, FinishSwap, directVars, planVars
    <2>4. mutex_planning_deadlock' \in BOOLEAN /\ mutex_direct_deadlocks' \in BOOLEAN
        BY <2>3, Zenon
    <2>. QED BY <2>1, <2>2, <2>4
<1>5. ASSUME NEW m \in DOMAIN matched_deadlocks, WaitStatus(m) PROVE MainTypes'
    BY <1>5 DEF WaitStatus, CheckStatus, LockDeadlock, QueueMatch, WaiterFrame, wakeVars,
           detectVars, directVars
<1>. QED BY <1>1, <1>2, <1>3, <1>4, <1>5 DEF Next

\* A match is between trainers, of species.
LEMMA MatchIsRecord ==
    ASSUME SwapTypes, NEW m \in Planned
    PROVE  /\ m \in Nat /\ m \in DOMAIN matched_deadlocks /\ matched_deadlocks[m] \in MatchRecord
           /\ trainer1(m) \in Trainers /\ trainer2(m) \in Trainers
           /\ matched_deadlocks[m].pokemon1 \in Pokemons /\ matched_deadlocks[m].pokemon2 \in Pokemons
           /\ waiter[m] \in WaiterState /\ executed[m] \in Nat
<1>1. /\ m \in 1..Len(matched_deadlocks) /\ m \in Nat /\ DOMAIN matched_deadlocks = 1..Len(matched_deadlocks)
      /\ m \in 1..Len(waiter) /\ m \in 1..Len(executed)
    BY LenProperties DEF Planned, SwapTypes
<1>2. matched_deadlocks[m] \in MatchRecord /\ waiter[m] \in WaiterState /\ executed[m] \in Nat
    BY <1>1, ElementOfSeq DEF SwapTypes
<1>. QED BY <1>1, <1>2 DEF trainer1, trainer2, MatchRecord

\* Pokemons are moved by an exchange of two trainers or by main, and stay bags.
LEMMA NextCaught ==
    ASSUME ExchangeTypes, Next
    PROVE  /\ caught' \in [Trainers -> Bags]
           /\ \/ UNCHANGED caught \/ GiveMeMyPokemonsDude
              \/ \E t \in Trainers : exchange_pokemons(t)
<1>0. caught \in [Trainers -> Bags] /\ SwapTypes /\ MainTypes
    BY DEF ExchangeTypes
<1>1. \/ UNCHANGED caught \/ GiveMeMyPokemonsDude
      \/ \E t \in Trainers : exchange_pokemons(t)
    <2>1. CASE MainThread /\ ~GiveMeMyPokemonsDude
        BY <2>1 DEF MainThread, CreateTrainer, ListTrainer, InitSem, AllCaught, Proceed,
               IterateMatch, AllIterated, DirectDone, Gather, TakeNext, NothingToTake,
               MainFrame, ProceedFrame
    <2>2. CASE Plan
        BY <2>2 DEF Plan
    <2>3. ASSUME NEW t \in Trainers, Finisher(t) PROVE UNCHANGED caught
        BY <2>3, FinisherThreads
    <2>4. ASSUME NEW t \in Trainers, TrainerThread(t), ~exchange_pokemons(t) PROVE UNCHANGED caught
        BY <2>4 DEF TrainerThread, StartSwap, GoOn, desalojar, Requeue, Resume,
               validate_state_trainer, Validate, FinishSwap
    <2>5. ASSUME NEW m \in DOMAIN matched_deadlocks, WaitStatus(m) PROVE UNCHANGED caught
        BY <2>5 DEF WaitStatus, CheckStatus, LockDeadlock, QueueMatch, WaiterFrame
    <2>. QED BY <2>1, <2>2, <2>3, <2>4, <2>5 DEF Next
<1>2. CASE UNCHANGED caught
    BY <1>0, <1>1, <1>2
<1>3. CASE GiveMeMyPokemonsDude
    <2>1. PICK p \in INeed, q \in IF ItNeeds # {} THEN ItNeeds ELSE Species(main.leftovers) :
            caught' = Swapped(main.i, q, Other, p)
        BY <1>3 DEF GiveMeMyPokemonsDude
    <2>2. p \in Pokemons /\ q \in Pokemons
        BY DEF INeed, ItNeeds, Species
    <2>3. Other \in Trainers /\ main.i \in Trainers
        BY <1>0, <1>3, OtherIsTrainer DEF GiveMeMyPokemonsDude, MainTypes
    <2>. QED BY <1>0, <1>1, <2>1, <2>2, <2>3, SwappedTyped
<1>4. ASSUME NEW t \in Trainers, exchange_pokemons(t) PROVE caught' \in [Trainers -> Bags]
    <2>. DEFINE m == trainer[t].match
    <2>1. m \in Planned
        BY <1>0, <1>4 DEF exchange_pokemons, SwapTypes
    <2>2. caught' = Swapped(trainer1(m), matched_deadlocks[m].pokemon1,
                            trainer2(m), matched_deadlocks[m].pokemon2)
        BY <1>4 DEF exchange_pokemons, trainer1, trainer2
    <2>. QED BY <1>0, <2>1, <2>2, MatchIsRecord, SwappedTyped
<1>. QED BY <1>1, <1>2, <1>3, <1>4

\* Every step keeps all the types.
LEMMA NextExchangeTypes ==
    ASSUME ExchangeTypes, [Next]_vars
    PROVE  ExchangeTypes'
<1>1. CASE UNCHANGED vars
    BY <1>1 DEF ExchangeTypes, DetectTypes, MainTypes, SwapTypes, Planned, vars, startVars,
           wakeVars, detectVars, waitVars, planVars, directVars
<1>2. CASE Next
    <2>1. MainTypes' /\ SwapTypes' /\ caught' \in [Trainers -> Bags]
        BY <1>2, NextMainTypes, NextSwapTypes, NextCaught
    <2>2. ASSUME ~ \E t \in Trainers : Finisher(t) PROVE DetectTypes'
        <3>1. UNCHANGED <<objective, detectVars>>
            BY <1>2, <2>2 DEF Next, MainThread, CreateTrainer, ListTrainer, InitSem, AllCaught,
                   Proceed, IterateMatch, AllIterated, DirectDone, Gather, TakeNext,
                   NothingToTake, GiveMeMyPokemonsDude, MainFrame, ProceedFrame, ResolveFrame,
                   Plan, WaitStatus, CheckStatus, LockDeadlock, QueueMatch, WaiterFrame,
                   TrainerThread, StartSwap, GoOn, desalojar, Requeue, Resume, SwapFrame,
                   exchange_pokemons, validate_state_trainer, Validate, FinishSwap, startVars
        <3>. QED BY <3>1, OtherDetectTypes DEF ExchangeTypes
    <2>3. DetectTypes'
        BY <2>2, FinisherDetectTypes
    <2>. QED BY <2>1, <2>3 DEF ExchangeTypes
<1>. QED BY <1>1, <1>2

-----------------------------------------------------------------------------
(* A match is in one place at a time.                                       *)

\* A search that adds a match after main went on is remembered in hasty.
LEMMA NextNoLateMatch ==
    ASSUME ExchangeTypes, NoLateMatch, [Next]_vars
    PROVE  NoLateMatch'
<1>. DEFINE Early == {"create", "list", "sem_init", "wait"}
<1>0. /\ main \in MainState /\ finisher \in [Trainers -> FinisherState]
      /\ \A t \in Trainers : finisher[t].pc \in
            {"none", "full", "search", "match", "all full?", "done"}
    BY DEF ExchangeTypes, MainTypes, DetectTypes, FinisherState
<1>1. ASSUME UNCHANGED <<main, hasty, finisher>> PROVE NoLateMatch'
    BY <1>1 DEF NoLateMatch
<1>2. CASE MainThread
    <2>1. UNCHANGED finisher
        BY <1>2 DEF MainThread, CreateTrainer, ListTrainer, InitSem, AllCaught, Proceed,
               IterateMatch, AllIterated, DirectDone, Gather, TakeNext, NothingToTake,
               GiveMeMyPokemonsDude, MainFrame, ProceedFrame, ResolveFrame, detectVars
    <2>2. CASE AllCaught
        BY <1>0, <2>1, <2>2 DEF AllCaught, NoLateMatch
    <2>3. CASE ~AllCaught
        <3>1. UNCHANGED hasty
            BY <1>2, <2>3 DEF MainThread, CreateTrainer, ListTrainer, InitSem, Proceed,
                   IterateMatch, AllIterated, DirectDone, Gather, TakeNext, NothingToTake,
                   GiveMeMyPokemonsDude, ProceedFrame, ResolveFrame, wakeVars
        <3>2. CASE main.pc \notin Early
            BY <2>1, <3>1, <3>2 DEF NoLateMatch
        <3>3. CASE main.pc \in Early
            <4>1. CreateTrainer \/ ListTrainer \/ InitSem
                BY <1>2, <2>3, <3>3 DEF MainThread, Proceed, IterateMatch, AllIterated,
                       DirectDone, Gather, TakeNext, NothingToTake, GiveMeMyPokemonsDude
            <4>2. main'.pc \in Early
                BY <1>0, <4>1 DEF CreateTrainer, ListTrainer, InitSem, MainState
            <4>. QED BY <4>2 DEF NoLateMatch
        <3>. QED BY <3>2, <3>3
    <2>. QED BY <2>2, <2>3
<1>3. ASSUME NEW t \in Trainers, Finisher(t) PROVE NoLateMatch'
    <2>1. UNCHANGED <<main, hasty>>
        BY <1>3, FinisherThreads
    <2>2. \A u \in Trainers : finisher[u].pc \in {"all full?", "done"} =>
                                finisher'[u].pc \in {"all full?", "done"}
        BY <1>0, <1>3 DEF Finisher, BecomeFull, HasObjective, BeginSearch, FindCandidate, AddMatch,
               AddToDeadlock, WakeMain, FinisherState
    <2>. QED BY <2>1, <2>2 DEF NoLateMatch
<1>4. ASSUME NEW t \in Trainers, TrainerThread(t) PROVE NoLateMatch'
    BY <1>1, <1>4, TrainerFrame DEF wakeVars, detectVars
<1>5. ASSUME NEW m \in DOMAIN matched_deadlocks, WaitStatus(m) PROVE NoLateMatch'
    BY <1>1, <1>5 DEF WaitStatus, CheckStatus, LockDeadlock, QueueMatch, WaiterFrame, wakeVars,
           detectVars
<1>6. CASE Plan
    BY <1>1, <1>6, PlanThreads
<1>7. CASE UNCHANGED vars
    BY <1>1, <1>7 DEF vars, wakeVars, detectVars
<1>. QED BY <1>2, <1>3, <1>4, <1>5, <1>6, <1>7 DEF Next

\* Nothing moves: every match and every thread of a trainer is where it was.
Quiet ==
    /\ UNCHANGED <<matched_deadlocks, executed, queue_deadlock, mutex_planning_deadlock>>
    /\ UNCHANGED <<mutex_direct_deadlocks, count_sem_reverse_direct_deadlock, crossed>>
    /\ \A m \in Planned : Waits(m)' <=> Waits(m)
    /\ \A t \in Trainers :
        /\ trainer'[t].sem = trainer[t].sem /\ trainer'[t].params = trainer[t].params
        /\ trainer'[t].match = trainer[t].match
        /\ \A pc \in {"loop", "cycle", "preempted"} : trainer'[t].pc = pc <=> trainer[t].pc = pc
        /\ Exchanged(t)' <=> Exchanged(t)
    /\ BeforeDirect' <=> BeforeDirect
    /\ AfterDirect' <=> AfterDirect
    /\ \A pc \in {"iterate", "direct"} : main'.pc = pc <=> main.pc = pc
    /\ main.pc = "iterate" => main'.i = main.i
    /\ main.pc \in {"iterate", "direct"} \/ AfterDirect => UNCHANGED hasty

\* A step that starts, queues and executes no match keeps every match in its place.
LEMMA QuietMatches ==
    ASSUME SwapTypes, MatchesInv, Quiet
    PROVE  MatchesInv'
<1>. SUFFICES ASSUME ~crossed' PROVE OneActive' /\ OnePlace' /\ Settled'
    BY DEF MatchesInv
<1>1. OneActive /\ OnePlace /\ Settled
    BY DEF MatchesInv, Quiet
<1>2. /\ Planned' = Planned /\ \A m : trainer1(m)' = trainer1(m)
      /\ \A m : Queued(m)' <=> Queued(m)
    BY DEF Quiet, Planned, trainer1, Queued
<1>3. \A t \in Trainers : /\ Active(t)' <=> Active(t)
                          /\ \A m : Given(t, m)' <=> Given(t, m)
                          /\ \A m : Swaps(t, m)' <=> Swaps(t, m)
    BY DEF Quiet, Active, Given, Swaps
<1>4. \A m \in Planned : /\ Moving(m)' <=> Moving(m)
                         /\ Fresh(m)' <=> Fresh(m)
                         /\ Waits(m)' <=> Waits(m)
                         /\ executed'[m] = executed[m]
    BY <1>2, <1>3 DEF Quiet, Moving, Fresh
<1>5. OneActive'
    BY <1>1, <1>3 DEF OneActive, Quiet
<1>6. /\ \A i \in DOMAIN queue_deadlock : queue_deadlock[i] \in Planned
      /\ \A t \in Trainers : /\ trainer[t].sem = 1 => trainer[t].params \in Planned
                             /\ trainer[t].pc # "loop" => trainer[t].match \in Planned
    BY ElementOfSeq, LenProperties DEF SwapTypes
<1>7. FreshRests' /\ WaitsOnce'
    BY <1>1, <1>2, <1>4 DEF OnePlace, FreshRests, WaitsOnce
<1>8. QueuedOnce'
    BY <1>1, <1>4, <1>6 DEF OnePlace, QueuedOnce, Quiet
<1>9. GivenOnce'
    BY <1>1, <1>2, <1>4, <1>6 DEF OnePlace, GivenOnce, Quiet
<1>10. SwapsOnce'
    BY <1>1, <1>2, <1>4, <1>6 DEF OnePlace, SwapsOnce, Quiet
<1>11. Counted' = Counted
    BY <1>2, <1>3, <1>4 DEF Counted
<1>12. Woken' <=> Woken
    BY DEF Woken, Quiet
<1>13. Settled'
    BY <1>1, <1>2, <1>4, <1>11, <1>12 DEF Settled, Quiet, Woken
<1>. QED BY <1>5, <1>7, <1>8, <1>9, <1>10, <1>13 DEF OnePlace

\* Whatever is under way is one of the matches.
LEMMA PlacesPlanned ==
    ASSUME SwapTypes
    PROVE  /\ \A i \in DOMAIN queue_deadlock : queue_deadlock[i] \in Planned
           /\ \A m : Queued(m) => m \in Planned
           /\ \A t \in Trainers : /\ trainer[t].sem = 1 => trainer[t].params \in Planned
                                  /\ trainer[t].pc # "loop" => trainer[t].match \in Planned
           /\ \A t \in Trainers : trainer[t] \in TrainerState
BY ElementOfSeq, LenProperties DEF SwapTypes, Queued

\* One trainer's thread moves, while the matches and main stay.
TrainerMoves ==
    /\ Threads(waiter, executed, queue_deadlock)
    /\ UNCHANGED <<main, hasty, mutex_direct_deadlocks, count_sem_reverse_direct_deadlock>>

\* The trainer begins the match it was given, or goes on with it.
LEMMA TakingMatches ==
    ASSUME SwapTypes, OneActive, OnePlace, Settled, TrainerMoves, NEW t \in Trainers,
           Turns(t, "cycle", 0, trainer[t].params), trainer[t].sem = 1,
           UNCHANGED mutex_planning_deadlock
    PROVE  OneActive' /\ OnePlace' /\ Settled'
<1>. DEFINE n == trainer[t].params
<1>1. /\ Planned' = Planned /\ \A m : trainer1(m)' = trainer1(m)
      /\ \A m : Queued(m)' <=> Queued(m)
      /\ \A m : Waits(m)' <=> Waits(m)
      /\ executed' = executed /\ queue_deadlock' = queue_deadlock
    BY DEF TrainerMoves, Threads, Planned, trainer1, Queued, Waits
<1>2. /\ trainer1(n) = t /\ executed[n] = 0 /\ ~Waits(n) /\ ~Queued(n) /\ n \in Planned
      /\ \/ trainer[t].pc = "loop"
         \/ trainer[t].pc = "preempted" /\ trainer[t].match = n
    BY PlacesPlanned DEF OnePlace, GivenOnce
<1>3. OneActive'
    BY DEF OneActive, Active, Exchanged, Turns
<1>4. /\ \A u \in Trainers : \A m : Given(u, m)' => Given(u, m)
      /\ \A m : Swaps(t, m)' <=> m = n
      /\ \A u \in Trainers \ {t} : \A m : Swaps(u, m)' <=> Swaps(u, m)
    BY DEF Given, Swaps, Turns
<1>5. \A m \in Planned : Moving(m)' => Moving(m)
    BY <1>1, <1>4 DEF Moving, Given
<1>6. \A m \in Planned : Fresh(m)' <=> Fresh(m)
    BY DEF TrainerMoves, Fresh, BeforeDirect
<1>7. FreshRests' /\ WaitsOnce'
    BY <1>1, <1>5, <1>6 DEF OnePlace, FreshRests, WaitsOnce
<1>8. QueuedOnce'
    BY <1>1 DEF OnePlace, QueuedOnce
<1>9. GivenOnce'
    BY <1>1, <1>2 DEF OnePlace, GivenOnce, Turns
<1>10. SwapsOnce'
    BY <1>1, <1>2 DEF OnePlace, SwapsOnce, Turns, Exchanged
<1>11. Counted' = Counted
    <2>1. n \notin Counted /\ n \notin Counted'
        BY <1>1, <1>2 DEF Counted
    <2>2. \A m \in Planned \ {n} : ~Swaps(t, m)' /\ ~Swaps(t, m)
        BY <1>2, <1>4 DEF Swaps
    <2>3. \A m \in Planned \ {n} : m \in Counted' <=> m \in Counted
        BY <1>1, <1>4, <2>2 DEF Counted
    <2>. QED BY <1>1, <2>1, <2>3 DEF Counted
<1>12. Settled'
    BY <1>1, <1>5, <1>11 DEF Settled, Woken, AfterDirect, TrainerMoves
<1>. QED BY <1>3, <1>7, <1>8, <1>9, <1>10, <1>12 DEF OnePlace

\* The trainer is preempted.
LEMMA LeavingMatches ==
    ASSUME SwapTypes, OneActive, OnePlace, Settled, TrainerMoves, NEW t \in Trainers,
           Turns(t, "requeue", trainer[t].sem, trainer[t].match), trainer[t].pc = "cycle"
    PROVE  OneActive' /\ OnePlace' /\ Settled'
<1>1. /\ Planned' = Planned /\ \A m : trainer1(m)' = trainer1(m)
      /\ \A m : Queued(m)' <=> Queued(m)
      /\ \A m : Waits(m)' <=> Waits(m)
      /\ executed' = executed /\ queue_deadlock' = queue_deadlock
    BY DEF TrainerMoves, Threads, Planned, trainer1, Queued, Waits
<1>2. trainer[t].sem # 1
    BY DEF OnePlace, GivenOnce
<1>3. OneActive'
    BY <1>2 DEF OneActive, Active, Exchanged, Turns
<1>4. \A u \in Trainers : \A m : /\ Given(u, m)' <=> Given(u, m)
                                 /\ Swaps(u, m)' <=> Swaps(u, m)
    BY DEF Given, Swaps, Turns
<1>5. \A m \in Planned : Moving(m)' => Moving(m)
    BY <1>1, <1>4 DEF Moving
<1>6. \A m \in Planned : Fresh(m)' <=> Fresh(m)
    BY DEF TrainerMoves, Fresh, BeforeDirect
<1>7. FreshRests' /\ WaitsOnce'
    BY <1>1, <1>5, <1>6 DEF OnePlace, FreshRests, WaitsOnce
<1>8. QueuedOnce'
    BY <1>1 DEF OnePlace, QueuedOnce
<1>9. GivenOnce'
    BY <1>1, <1>2 DEF OnePlace, GivenOnce, Turns
<1>10. SwapsOnce'
    BY <1>1 DEF OnePlace, SwapsOnce, Turns, Exchanged
<1>11. Counted' = Counted
    BY <1>1, <1>4 DEF Counted
<1>12. Settled'
    BY <1>1, <1>5, <1>11 DEF Settled, Woken, AfterDirect, TrainerMoves
<1>. QED BY <1>3, <1>7, <1>8, <1>9, <1>10, <1>12 DEF OnePlace

\* A match comes to the end of the planner's queue.
LEMMA Enqueued ==
    ASSUME SwapTypes, NEW m \in Planned, queue_deadlock' = Append(queue_deadlock, m)
    PROVE  /\ \A x : Queued(x)' <=> Queued(x) \/ x = m
           /\ \A i \in DOMAIN queue_deadlock' :
                IF i \in DOMAIN queue_deadlock THEN queue_deadlock'[i] = queue_deadlock[i]
                ELSE i = Len(queue_deadlock) + 1 /\ queue_deadlock'[i] = m
           /\ \A i \in DOMAIN queue_deadlock : i \in DOMAIN queue_deadlock'
<1>1. /\ Len(queue_deadlock) \in Nat /\ DOMAIN queue_deadlock = 1..Len(queue_deadlock)
      /\ queue_deadlock \in Seq(Planned)
    BY LenProperties DEF SwapTypes
<1>2. /\ queue_deadlock' \in Seq(Planned) /\ Len(queue_deadlock') = Len(queue_deadlock) + 1
      /\ \A i \in 1..Len(queue_deadlock) : queue_deadlock'[i] = queue_deadlock[i]
      /\ queue_deadlock'[Len(queue_deadlock) + 1] = m
    BY <1>1, AppendProperties
<1>3. DOMAIN queue_deadlock' = 1..(Len(queue_deadlock) + 1)
    BY <1>2, LenProperties
<1>4. \A x : Queued(x)' <=> Queued(x) \/ x = m
    <2>1. ASSUME NEW x, Queued(x) PROVE Queued(x)'
        BY <1>1, <1>2, <1>3, <2>1 DEF Queued
    <2>2. Queued(m)'
        BY <1>1, <1>2, <1>3 DEF Queued
    <2>3. ASSUME NEW x, Queued(x)' PROVE Queued(x) \/ x = m
        BY <1>1, <1>2, <1>3, <2>3 DEF Queued
    <2>. QED BY <2>1, <2>2, <2>3
<1>. QED BY <1>1, <1>2, <1>3, <1>4

\* A match that is queued was not queued, waited for or executed.
LEMMA EnqueuedOnce ==
    ASSUME SwapTypes, QueuedOnce, NEW m \in Planned, queue_deadlock' = Append(queue_deadlock, m),
           UNCHANGED executed, executed[m] = 0, ~Queued(m), ~Waits(m)',
           \A x \in Planned : Waits(x)' => Waits(x)
    PROVE  QueuedOnce'
<1>1. /\ \A i \in DOMAIN queue_deadlock' :
            IF i \in DOMAIN queue_deadlock THEN queue_deadlock'[i] = queue_deadlock[i]
            ELSE i = Len(queue_deadlock) + 1 /\ queue_deadlock'[i] = m
      /\ \A i \in DOMAIN queue_deadlock : queue_deadlock[i] \in Planned /\ queue_deadlock[i] # m
    BY Enqueued, PlacesPlanned DEF Queued
<1>2. \A x \in Planned : executed[x] = 0 /\ waiter[x] \in {"none", "done"} =>
            executed'[x] = 0 /\ waiter'[x] \in {"none", "done"}
    BY DEF Waits
<1>3. executed'[m] = 0 /\ waiter'[m] \in {"none", "done"}
    BY DEF Waits
<1>. SUFFICES ASSUME NEW i \in DOMAIN queue_deadlock'
              PROVE  /\ executed'[queue_deadlock'[i]] = 0
                     /\ waiter'[queue_deadlock'[i]] \in {"none", "done"}
                     /\ \A j \in DOMAIN queue_deadlock' :
                            queue_deadlock'[i] = queue_deadlock'[j] => i = j
    BY DEF QueuedOnce, Waits
<1>4. CASE i \in DOMAIN queue_deadlock
    <2>1. executed[queue_deadlock[i]] = 0 /\ waiter[queue_deadlock[i]] \in {"none", "done"}
        BY <1>4 DEF QueuedOnce, Waits
    <2>2. executed'[queue_deadlock'[i]] = 0 /\ waiter'[queue_deadlock'[i]] \in {"none", "done"}
        BY <1>1, <1>2, <1>4, <2>1
    <2>3. \A j \in DOMAIN queue_deadlock' : queue_deadlock'[i] = queue_deadlock'[j] => i = j
        BY <1>1, <1>4 DEF QueuedOnce
    <2>. QED BY <2>2, <2>3
<1>5. CASE i \notin DOMAIN queue_deadlock
    BY <1>1, <1>3, <1>5
<1>. QED BY <1>4, <1>5

\* The preempted trainer's match is back in the queue.
LEMMA RequeuedMatches ==
    ASSUME SwapTypes, OneActive, OnePlace, Settled, NEW t \in Trainers,
           Threads(waiter, executed, Append(queue_deadlock, trainer[t].match)),
           UNCHANGED <<main, hasty, mutex_direct_deadlocks, count_sem_reverse_direct_deadlock>>,
           UNCHANGED mutex_planning_deadlock,
           Turns(t, "preempted", trainer[t].sem, trainer[t].match), trainer[t].pc = "requeue"
    PROVE  OneActive' /\ OnePlace' /\ Settled'
<1>. DEFINE n == trainer[t].match
<1>1. /\ Planned' = Planned /\ \A m : trainer1(m)' = trainer1(m)
      /\ \A m : Waits(m)' <=> Waits(m)
      /\ executed' = executed /\ queue_deadlock' = Append(queue_deadlock, n)
    BY DEF Threads, Planned, trainer1, Waits
<1>2. /\ n \in Planned /\ trainer1(n) = t /\ executed[n] = 0 /\ ~Waits(n) /\ ~Queued(n)
      /\ trainer[t].sem # 1
    BY PlacesPlanned DEF OnePlace, GivenOnce, SwapsOnce, Exchanged
<1>3. \A m : Queued(m)' <=> Queued(m) \/ m = n
    BY <1>1, <1>2, Enqueued
<1>4. OneActive'
    BY <1>2 DEF OneActive, Active, Exchanged, Turns
<1>5. \A u \in Trainers : \A m : /\ Given(u, m)' <=> Given(u, m)
                                 /\ Swaps(u, m)' <=> Swaps(u, m)
    BY DEF Given, Swaps, Turns
<1>6. Swaps(t, n)
    BY DEF Swaps
<1>7. \A m \in Planned : Moving(m)' => Moving(m)
    BY <1>1, <1>3, <1>5, <1>6 DEF Moving
<1>8. \A m \in Planned : Fresh(m)' <=> Fresh(m)
    BY DEF Fresh, BeforeDirect
<1>9. FreshRests' /\ WaitsOnce'
    BY <1>1, <1>7, <1>8 DEF OnePlace, FreshRests, WaitsOnce
<1>10. QueuedOnce'
    BY <1>1, <1>2, EnqueuedOnce DEF OnePlace
<1>11. GivenOnce'
    BY <1>1, <1>2, <1>3 DEF OnePlace, GivenOnce, Turns
<1>12. SwapsOnce'
    BY <1>1, <1>2, <1>3 DEF OnePlace, SwapsOnce, Turns, Exchanged
<1>13. Counted' = Counted
    BY <1>1, <1>5 DEF Counted
<1>14. Settled'
    BY <1>1, <1>7, <1>13 DEF Settled, Woken, AfterDirect
<1>. QED BY <1>4, <1>9, <1>10, <1>11, <1>12, <1>14 DEF OnePlace

\* The match is executed.
LEMMA ExchangedMatches ==
    ASSUME SwapTypes, OneActive, OnePlace, Settled, NEW t \in Trainers,
           Threads(waiter, [executed EXCEPT ![trainer[t].match] = @ + 1], queue_deadlock),
           UNCHANGED <<main, hasty, mutex_direct_deadlocks, count_sem_reverse_direct_deadlock>>,
           UNCHANGED mutex_planning_deadlock,
           Turns(t, "validate1", trainer[t].sem, trainer[t].match), trainer[t].pc = "cycle"
    PROVE  OneActive' /\ OnePlace' /\ Settled'
<1>. DEFINE n == trainer[t].match
<1>1. /\ Planned' = Planned /\ \A m : trainer1(m)' = trainer1(m)
      /\ \A m : Waits(m)' <=> Waits(m)
      /\ \A m : Queued(m)' <=> Queued(m)
      /\ queue_deadlock' = queue_deadlock
    BY DEF Threads, Planned, trainer1, Waits, Queued
<1>2. /\ n \in Planned /\ trainer1(n) = t /\ executed[n] = 0 /\ ~Waits(n) /\ ~Queued(n)
      /\ trainer[t].sem # 1
    BY PlacesPlanned DEF OnePlace, GivenOnce, SwapsOnce, Exchanged
<1>3. executed'[n] = 1 /\ \A m \in Planned \ {n} : executed'[m] = executed[m]
    <2>1. DOMAIN executed = Planned
        BY LenProperties DEF SwapTypes, Planned
    <2>. QED BY <1>2, <2>1 DEF Threads
<1>4. OneActive'
    BY <1>2 DEF OneActive, Active, Exchanged, Turns
<1>5. \A u \in Trainers : \A m : /\ Given(u, m)' <=> Given(u, m)
                                 /\ Swaps(u, m)' <=> Swaps(u, m)
    BY DEF Given, Swaps, Turns
<1>6. \A m \in Planned : Moving(m)' <=> Moving(m)
    BY <1>1, <1>5 DEF Moving
<1>7. Moving(n) /\ Swaps(t, n) /\ Swaps(t, n)'
    <2>1. Swaps(t, n) /\ Swaps(t, n)'
        BY DEF Swaps, Turns
    <2>. QED BY <2>1 DEF Moving
<1>8. \A m \in Planned : Fresh(m)' <=> Fresh(m)
    BY DEF Fresh, BeforeDirect
<1>9. FreshRests'
    BY <1>1, <1>2, <1>3, <1>6, <1>7, <1>8 DEF OnePlace, FreshRests
<1>10. WaitsOnce'
    BY <1>1, <1>2, <1>3 DEF OnePlace, WaitsOnce
<1>11. QueuedOnce'
    <2>1. \A i \in DOMAIN queue_deadlock : queue_deadlock[i] \in Planned \ {n}
        BY <1>2, PlacesPlanned DEF Queued
    <2>. QED BY <1>1, <1>3, <2>1 DEF OnePlace, QueuedOnce
<1>12. GivenOnce'
    <2>1. \A u \in Trainers : trainer[u].sem = 1 => trainer[u].params \in Planned \ {n}
        BY <1>2, PlacesPlanned DEF OnePlace, GivenOnce
    <2>. QED BY <1>1, <1>2, <1>3, <2>1 DEF OnePlace, GivenOnce, Turns
<1>13. SwapsOnce'
    <2>1. \A u \in Trainers \ {t} : trainer[u].pc # "loop" => trainer[u].match \in Planned \ {n}
        BY <1>2, PlacesPlanned DEF OnePlace, SwapsOnce
    <2>2. \A u \in Trainers : Exchanged(u)' <=> Exchanged(u) \/ u = t
        BY DEF Exchanged, Turns
    <2>. QED BY <1>1, <1>2, <1>3, <2>1, <2>2 DEF OnePlace, SwapsOnce, Turns
<1>14. Counted' = Counted
    BY <1>1, <1>3, <1>5, <1>7 DEF Counted
<1>15. Settled'
    BY <1>1, <1>2, <1>3, <1>6, <1>7, <1>14 DEF Settled, Woken, AfterDirect
<1>. QED BY <1>4, <1>9, <1>10, <1>11, <1>12, <1>13, <1>15 DEF OnePlace

\* The trainer counts the match, and wakes main when it was the last.
LEMMA FinishedMatches ==
    ASSUME SwapTypes, OneActive, OnePlace, Settled, NEW t \in Trainers,
           Threads(waiter, executed, queue_deadlock), UNCHANGED <<main, hasty>>,
           ~mutex_planning_deadlock',
           count_sem_reverse_direct_deadlock' = count_sem_reverse_direct_deadlock + 1,
           ~mutex_direct_deadlocks' => \/ ~mutex_direct_deadlocks
                                       \/ count_sem_reverse_direct_deadlock' = Len(matched_deadlocks),
           Turns(t, "loop", trainer[t].sem, trainer[t].match), trainer[t].pc = "count"
    PROVE  OneActive' /\ OnePlace' /\ Settled'
<1>. DEFINE n == trainer[t].match
<1>1. /\ Planned' = Planned /\ \A m : trainer1(m)' = trainer1(m)
      /\ \A m : Waits(m)' <=> Waits(m)
      /\ \A m : Queued(m)' <=> Queued(m)
      /\ executed' = executed /\ queue_deadlock' = queue_deadlock
    BY DEF Threads, Planned, trainer1, Waits, Queued
<1>2. /\ n \in Planned /\ executed[n] = 1 /\ trainer[t].sem # 1
    BY PlacesPlanned DEF OnePlace, GivenOnce, SwapsOnce, Exchanged
<1>3. OneActive'
    BY <1>2 DEF OneActive, Active, Exchanged, Turns
<1>4. /\ \A u \in Trainers : \A m : Given(u, m)' <=> Given(u, m)
      /\ \A u \in Trainers \ {t} : \A m : Swaps(u, m)' <=> Swaps(u, m)
      /\ \A m : ~Swaps(t, m)'
      /\ \A m : Swaps(t, m) <=> m = n
    BY DEF Given, Swaps, Turns
<1>5. \A m \in Planned : Moving(m)' => Moving(m)
    BY <1>1, <1>4 DEF Moving
<1>6. \A m \in Planned : Fresh(m)' <=> Fresh(m)
    BY DEF Fresh, BeforeDirect
<1>7. FreshRests' /\ WaitsOnce'
    BY <1>1, <1>5, <1>6 DEF OnePlace, FreshRests, WaitsOnce
<1>8. QueuedOnce'
    BY <1>1 DEF OnePlace, QueuedOnce
<1>9. GivenOnce'
    BY <1>1, <1>2 DEF OnePlace, GivenOnce, Turns
<1>10. SwapsOnce'
    BY <1>1 DEF OnePlace, SwapsOnce, Turns, Exchanged
<1>11. Counted' = Counted \cup {n} /\ n \notin Counted
    <2>1. \A u \in Trainers \ {t} : ~Swaps(u, n)
        <3>1. trainer1(n) = t
            BY DEF OnePlace, SwapsOnce
        <3>. QED BY <3>1 DEF OnePlace, SwapsOnce, Swaps
    <2>2. n \notin Counted /\ n \in Counted'
        BY <1>1, <1>2, <1>4, <2>1 DEF Counted
    <2>3. \A m \in Planned \ {n} : m \in Counted' <=> m \in Counted
        BY <1>1, <1>4 DEF Counted
    <2>. QED BY <1>1, <1>2, <2>2, <2>3 DEF Counted
<1>12. /\ IsFiniteSet(Planned) /\ Cardinality(Planned) = Len(matched_deadlocks)
       /\ IsFiniteSet(Counted) /\ Counted' \subseteq Planned
    <2>1. Len(matched_deadlocks) \in Nat
        BY LenProperties DEF SwapTypes
    <2>2. IsFiniteSet(Planned) /\ Cardinality(Planned) = Len(matched_deadlocks)
        <3>1. 1 \in Int /\ Len(matched_deadlocks) \in Int
            BY <2>1
        <3>2. /\ IsFiniteSet(1..Len(matched_deadlocks))
              /\ Cardinality(1..Len(matched_deadlocks)) =
                    IF 1 > Len(matched_deadlocks) THEN 0 ELSE Len(matched_deadlocks) - 1 + 1
            BY <3>1, FS_Interval, Zenon
        <3>. QED BY <2>1, <3>2 DEF Planned
    <2>3. Counted \subseteq Planned /\ Counted' \subseteq Planned
        BY <1>2, <1>11 DEF Counted
    <2>. QED BY <2>2, <2>3, FS_Subset
<1>13. count_sem_reverse_direct_deadlock' = Cardinality(Counted')
    BY <1>11, <1>12, FS_AddElement DEF Settled
<1>14. ~Woken
    <2>1. Moving(n)
        BY <1>4 DEF Moving
    <2>. QED BY <1>2, <2>1 DEF Settled
<1>15. ASSUME Woken' PROVE \A m \in Planned : ~Moving(m)' /\ executed'[m] = 1
    <2>1. ~AfterDirect /\ ~AfterDirect' /\ mutex_direct_deadlocks /\ ~mutex_direct_deadlocks'
        BY <1>14, <1>15 DEF Woken, AfterDirect
    <2>2. Cardinality(Counted') = Cardinality(Planned)
        BY <1>12, <1>13, <2>1
    <2>3. Counted' = Planned
        BY <1>12, <2>2, FS_Subset
    <2>4. \A m \in Planned : executed[m] = 1 /\ \A u \in Trainers : ~Swaps(u, m)'
        BY <1>1, <2>3 DEF Counted
    <2>5. \A m \in Planned : ~Waits(m) /\ ~Queued(m) /\ \A u \in Trainers : ~Given(u, m)
        BY <2>4 DEF OnePlace, WaitsOnce, QueuedOnce, GivenOnce, Queued, Given
    <2>. QED BY <1>1, <1>4, <2>4, <2>5 DEF Moving
<1>16. Settled'
    BY <1>1, <1>13, <1>15 DEF Settled
<1>. QED BY <1>3, <1>7, <1>8, <1>9, <1>10, <1>16 DEF OnePlace

\* The planner gives the oldest match of its queue to its first trainer.
LEMMA PlannedMatches ==
    ASSUME ExchangeTypes, OneActive, OnePlace, Settled, Plan, ~crossed'
    PROVE  OneActive' /\ OnePlace' /\ Settled'
<1>0. SwapTypes
    BY DEF ExchangeTypes
<1>1. PICK n \in Planned, t \in Trainers :
      /\ n = Head(queue_deadlock) /\ t = trainer1(n) /\ queue_deadlock # <<>>
      /\ Threads(waiter, executed, Tail(queue_deadlock))
      /\ trainer' \in [Trainers -> TrainerState]
      /\ trainer'[t].params = n /\ trainer'[t].sem = 1
      /\ trainer'[t].pc = trainer[t].pc /\ trainer'[t].match = trainer[t].match
      /\ \A u \in Trainers \ {t} : trainer'[u] = trainer[u]
      /\ ~(trainer[t].pc \in {"requeue", "preempted"} /\ trainer[t].match # n)
      /\ ~mutex_planning_deadlock /\ mutex_planning_deadlock'
      /\ UNCHANGED <<main, hasty>> /\ UNCHANGED directVars
    BY PlanThreads
<1>2. /\ DOMAIN queue_deadlock = 1..Len(queue_deadlock) /\ Len(queue_deadlock) \in Nat
      /\ Len(queue_deadlock) # 0 /\ 1 \in DOMAIN queue_deadlock /\ n = queue_deadlock[1]
    BY <1>0, <1>1, LenProperties, EmptySeq DEF SwapTypes
<1>3. /\ DOMAIN queue_deadlock' = 1..(Len(queue_deadlock) - 1)
      /\ \A i \in DOMAIN queue_deadlock' :
            i + 1 \in DOMAIN queue_deadlock /\ queue_deadlock'[i] = queue_deadlock[i + 1]
    <2>1. /\ queue_deadlock' \in Seq(Planned) /\ Len(queue_deadlock') = Len(queue_deadlock) - 1
          /\ \A i \in 1..Len(queue_deadlock') : queue_deadlock'[i] = queue_deadlock[i + 1]
        BY <1>0, <1>1, HeadTailProperties DEF SwapTypes, Threads
    <2>2. DOMAIN queue_deadlock' = 1..Len(queue_deadlock')
        BY <2>1, LenProperties
    <2>. QED BY <1>2, <2>1, <2>2
<1>4. /\ Planned' = Planned /\ \A m : trainer1(m)' = trainer1(m)
      /\ \A m : Waits(m)' <=> Waits(m)
      /\ executed' = executed
    BY <1>1 DEF Threads, Planned, trainer1, Waits
<1>5. Queued(n) /\ executed[n] = 0 /\ ~Waits(n)
    BY <1>2 DEF OnePlace, QueuedOnce, Queued
<1>6. \A m : Queued(m)' => Queued(m)
    BY <1>2, <1>3 DEF Queued
<1>7. ~Queued(n)'
    <2>. SUFFICES ASSUME NEW i \in DOMAIN queue_deadlock', queue_deadlock'[i] = n PROVE FALSE
        BY DEF Queued
    <2>1. i + 1 \in DOMAIN queue_deadlock /\ queue_deadlock[i + 1] = queue_deadlock[1]
        BY <1>2, <1>3
    <2>2. i + 1 = 1
        BY <1>2, <2>1 DEF OnePlace, QueuedOnce
    <2>. QED BY <1>2, <1>3, <2>2
<1>8. \A u \in Trainers : ~Active(u)
    BY <1>1 DEF OneActive
<1>9. /\ trainer[t].sem # 1
      /\ \/ trainer[t].pc = "loop"
         \/ trainer[t].pc = "preempted" /\ trainer[t].match = n
    <2>1. trainer[t].pc # "requeue"
        BY <1>1, <1>5 DEF OnePlace, SwapsOnce
    <2>2. trainer[t].pc \in {"loop", "cycle", "requeue", "preempted", "validate1", "validate2", "count"}
        BY <1>0, <1>1, PlacesPlanned DEF TrainerState
    <2>. QED BY <1>1, <1>8, <2>1, <2>2 DEF Active, Exchanged
<1>10. \A u \in Trainers \ {t} : ~Active(u)'
    BY <1>1, <1>8 DEF Active, Exchanged
<1>11. OneActive'
    BY <1>1, <1>10 DEF OneActive
<1>12. /\ \A u \in Trainers : \A m : Given(u, m)' => Given(u, m) \/ (u = t /\ m = n)
       /\ \A u \in Trainers : \A m : Swaps(u, m)' <=> Swaps(u, m)
    BY <1>1 DEF Given, Swaps
<1>13. \A m \in Planned : Moving(m)' => Moving(m)
    BY <1>4, <1>5, <1>6, <1>12 DEF Moving
<1>14. \A m \in Planned : Fresh(m)' <=> Fresh(m)
    BY <1>1 DEF Fresh, BeforeDirect
<1>15. FreshRests' /\ WaitsOnce'
    BY <1>4, <1>13, <1>14 DEF OnePlace, FreshRests, WaitsOnce
<1>16. QueuedOnce'
    <2>1. \A i, j \in DOMAIN queue_deadlock' : i + 1 = j + 1 => i = j
        BY <1>2, <1>3
    <2>. QED BY <1>3, <1>4, <2>1 DEF OnePlace, QueuedOnce, Waits
<1>17. GivenOnce'
    <2>. SUFFICES ASSUME NEW u \in Trainers, trainer'[u].sem = 1, NEW p, p = trainer'[u].params
                  PROVE  /\ trainer1(p)' = u /\ executed'[p] = 0 /\ ~Waits(p)' /\ ~Queued(p)'
                         /\ \/ trainer'[u].pc = "loop"
                            \/ trainer'[u].pc = "preempted" /\ trainer'[u].match = p
        BY DEF GivenOnce, Waits, Queued, trainer1
    <2>1. CASE u = t
        BY <1>1, <1>4, <1>5, <1>7, <1>9, <2>1
    <2>2. CASE u # t
        BY <1>1, <1>4, <1>6, <2>2 DEF OnePlace, GivenOnce
    <2>. QED BY <2>1, <2>2
<1>18. SwapsOnce'
    <2>1. \A u \in Trainers : Exchanged(u)' <=> Exchanged(u)
        BY <1>1 DEF Exchanged
    <2>. QED BY <1>1, <1>4, <1>6, <2>1 DEF OnePlace, SwapsOnce
<1>19. Counted' = Counted
    BY <1>4, <1>12 DEF Counted
<1>20. Settled'
    BY <1>1, <1>4, <1>13, <1>19 DEF Settled, Woken, AfterDirect, directVars
<1>. QED BY <1>11, <1>15, <1>16, <1>17, <1>18, <1>20 DEF OnePlace

\* A match that nobody has comes to the queue, or to the thread that waits for its trainers.
LEMMA BegunMatches ==
    ASSUME SwapTypes, OneActive, OnePlace, Settled, NEW m \in Planned, NEW wait, NEW queue,
           Threads(wait, executed, queue),
           UNCHANGED <<trainer, mutex_planning_deadlock, count_sem_reverse_direct_deadlock>>,
           executed[m] = 0, ~Queued(m), \A u \in Trainers : ~Given(u, m) /\ ~Swaps(u, m),
           \/ queue = Append(queue_deadlock, m) /\ ~Waits(m)'
           \/ queue = queue_deadlock,
           \A x \in Planned \ {m} : Waits(x)' <=> Waits(x),
           \A x \in Planned : Fresh(x)' => Fresh(x) /\ x # m,
           ~Woken'
    PROVE  OneActive' /\ OnePlace' /\ Settled'
<1>1. /\ Planned' = Planned /\ \A x : trainer1(x)' = trainer1(x)
      /\ executed' = executed /\ queue_deadlock' = queue
    BY DEF Threads, Planned, trainer1
<1>2. OneActive'
    BY DEF OneActive, Active, Exchanged
<1>3. \A u \in Trainers : \A x : /\ Given(u, x)' <=> Given(u, x)
                                 /\ Swaps(u, x)' <=> Swaps(u, x)
    BY DEF Given, Swaps
<1>4. \A x : Queued(x)' => Queued(x) \/ (x = m /\ ~Waits(m)')
    <2>1. CASE queue = Append(queue_deadlock, m) /\ ~Waits(m)'
        BY <1>1, <2>1, Enqueued
    <2>2. CASE queue = queue_deadlock
        BY <1>1, <2>2 DEF Queued
    <2>. QED BY <2>1, <2>2
<1>5. \A x \in Planned \ {m} : Moving(x)' => Moving(x)
    BY <1>3, <1>4 DEF Moving
<1>6. FreshRests' /\ WaitsOnce'
    BY <1>1, <1>5 DEF OnePlace, FreshRests, WaitsOnce
<1>7. QueuedOnce'
    <2>1. CASE queue = Append(queue_deadlock, m) /\ ~Waits(m)'
        <3>1. \A x \in Planned : Waits(x)' => Waits(x)
            BY <2>1
        <3>. QED BY <1>1, <2>1, <3>1, EnqueuedOnce DEF OnePlace
    <2>2. CASE queue = queue_deadlock
        <3>1. \A i \in DOMAIN queue_deadlock : queue_deadlock[i] \in Planned \ {m}
            BY PlacesPlanned DEF Queued
        <3>. QED BY <1>1, <2>2, <3>1 DEF OnePlace, QueuedOnce
    <2>. QED BY <2>1, <2>2
<1>8. GivenOnce'
    <2>1. \A u \in Trainers : trainer[u].sem = 1 => trainer[u].params \in Planned \ {m}
        BY PlacesPlanned DEF Given
    <2>. QED BY <1>1, <1>4, <2>1 DEF OnePlace, GivenOnce
<1>9. SwapsOnce'
    <2>1. \A u \in Trainers : trainer[u].pc # "loop" => trainer[u].match \in Planned \ {m}
        BY PlacesPlanned DEF Swaps
    <2>. QED BY <1>1, <1>4, <2>1 DEF OnePlace, SwapsOnce, Exchanged
<1>10. Counted' = Counted
    BY <1>1, <1>3 DEF Counted
<1>11. Settled'
    BY <1>10 DEF Settled
<1>. QED BY <1>2, <1>6, <1>7, <1>8, <1>9, <1>11 DEF OnePlace

\* The thread that waited for the match's trainers adds it to the queue.
LEMMA QueueingMatches ==
    ASSUME ExchangeTypes, OneActive, OnePlace, Settled, NEW m \in Planned, QueueMatch(m)
    PROVE  OneActive' /\ OnePlace' /\ Settled'
<1>0. SwapTypes /\ WaitStatus(m)
    BY MatchIsRecord DEF ExchangeTypes, WaitStatus
<1>1. /\ UNCHANGED <<main, trainer, hasty>> /\ UNCHANGED <<directVars, mutex_planning_deadlock>>
      /\ Threads([waiter EXCEPT ![m] = "done"], executed, Append(queue_deadlock, m))
    BY <1>0, WaiterThreads
<1>2. DOMAIN waiter = Planned
    BY <1>0, LenProperties DEF SwapTypes, Planned
<1>3. waiter'[m] = "done" /\ \A x \in Planned \ {m} : waiter'[x] = waiter[x]
    BY <1>1, <1>2 DEF Threads
<1>4. Waits(m) /\ ~Waits(m)' /\ \A x \in Planned \ {m} : Waits(x)' <=> Waits(x)
    BY <1>3 DEF QueueMatch, Waits
<1>5. executed[m] = 0 /\ ~Queued(m) /\ \A u \in Trainers : ~Given(u, m) /\ ~Swaps(u, m)
    BY <1>4 DEF OnePlace, WaitsOnce, QueuedOnce, GivenOnce, SwapsOnce, Queued, Given, Swaps
<1>6. Moving(m)
    BY <1>4 DEF Moving
<1>7. ~Woken' /\ \A x \in Planned : Fresh(x)' => Fresh(x) /\ x # m
    <2>1. ~Woken /\ ~Fresh(m)
        BY <1>6 DEF Settled, OnePlace, FreshRests
    <2>. QED BY <1>1, <2>1 DEF Woken, AfterDirect, Fresh, BeforeDirect, directVars
<1>8. UNCHANGED <<trainer, mutex_planning_deadlock, count_sem_reverse_direct_deadlock>>
    BY <1>1 DEF directVars
<1>. QED BY <1>0, <1>1, <1>4, <1>5, <1>7, <1>8, BegunMatches

\* main comes to the next match.
LEMMA IteratedMatches ==
    ASSUME ExchangeTypes, OneActive, OnePlace, Settled, IterateMatch
    PROVE  OneActive' /\ OnePlace' /\ Settled'
<1>0. SwapTypes /\ MainThread /\ main \in MainState
    BY DEF ExchangeTypes, MainTypes, MainThread
<1>1. PICK m \in Planned : m = main.i
    BY <1>0, MainThreads
<1>2. /\ main.pc = "iterate" /\ main'.pc = "iterate" /\ main'.i = m + 1 /\ m \in Nat
      /\ UNCHANGED <<trainer, mutex_planning_deadlock, directVars>>
    BY <1>0, <1>1 DEF IterateMatch, ProceedFrame, MainState
<1>3. Fresh(m) /\ ~Moving(m) /\ executed[m] = 0
    BY <1>1, <1>2 DEF Fresh, OnePlace, FreshRests
<1>4. ~Woken /\ ~Woken'
    <2>1. ~Woken
        BY <1>2, <1>3 DEF Settled
    <2>. QED BY <1>2, <2>1 DEF Woken, AfterDirect, directVars
<1>5. \A x \in Planned : Fresh(x)' => Fresh(x) /\ x # m
    <2>1. \A x \in Planned : x \in Nat
        BY <1>0, MatchIsRecord
    <2>. QED BY <1>1, <1>2, <2>1 DEF Fresh, BeforeDirect
<1>6. ~Waits(m) /\ ~Queued(m) /\ \A u \in Trainers : ~Given(u, m) /\ ~Swaps(u, m)
    BY <1>3 DEF Moving
<1>7. UNCHANGED <<trainer, mutex_planning_deadlock, count_sem_reverse_direct_deadlock>>
    BY <1>2 DEF directVars
<1>8. CASE Free(trainer1(main.i)) /\ Free(trainer2(main.i))
    <2>1. Threads(waiter, executed, Append(queue_deadlock, m))
        BY <1>0, <1>1, <1>8, MainThreads
    <2>2. \A x : Waits(x)' <=> Waits(x)
        BY <2>1 DEF Threads, Waits
    <2>. QED BY <1>0, <1>3, <1>4, <1>5, <1>6, <1>7, <2>1, <2>2, BegunMatches
<1>9. CASE ~(Free(trainer1(main.i)) /\ Free(trainer2(main.i)))
    <2>1. Threads([waiter EXCEPT ![m] = "check1"], executed, queue_deadlock)
        BY <1>0, <1>1, <1>9, MainThreads
    <2>2. \A x \in Planned \ {m} : Waits(x)' <=> Waits(x)
        <3>1. DOMAIN waiter = Planned
            BY <1>0, LenProperties DEF SwapTypes, Planned
        <3>. QED BY <2>1, <3>1 DEF Threads, Waits
    <2>. QED BY <1>0, <1>3, <1>4, <1>5, <1>6, <1>7, <2>1, <2>2, BegunMatches
<1>. QED BY <1>8, <1>9

\* main is somewhere else, and no match and no trainer has moved.
LEMMA MainMatches ==
    ASSUME OneActive, OnePlace, Threads(waiter, executed, queue_deadlock),
           UNCHANGED <<trainer, mutex_planning_deadlock>>,
           \A m \in Planned : Fresh(m)' => Fresh(m)
    PROVE  /\ OneActive' /\ OnePlace' /\ Planned' = Planned /\ executed' = executed
           /\ \A m \in Planned : Moving(m)' <=> Moving(m)
           /\ Counted' = Counted
<1>1. /\ Planned' = Planned /\ \A x : trainer1(x)' = trainer1(x)
      /\ \A x : Waits(x)' <=> Waits(x)
      /\ \A x : Queued(x)' <=> Queued(x)
      /\ executed' = executed /\ queue_deadlock' = queue_deadlock
    BY DEF Threads, Planned, trainer1, Waits, Queued
<1>2. OneActive'
    BY DEF OneActive, Active, Exchanged
<1>3. \A u \in Trainers : \A x : /\ Given(u, x)' <=> Given(u, x)
                                 /\ Swaps(u, x)' <=> Swaps(u, x)
    BY DEF Given, Swaps
<1>4. \A m \in Planned : Moving(m)' <=> Moving(m)
    BY <1>1, <1>3 DEF Moving
<1>5. FreshRests' /\ WaitsOnce'
    BY <1>1, <1>4 DEF OnePlace, FreshRests, WaitsOnce
<1>6. QueuedOnce'
    BY <1>1 DEF OnePlace, QueuedOnce
<1>7. GivenOnce'
    BY <1>1 DEF OnePlace, GivenOnce
<1>8. SwapsOnce'
    BY <1>1 DEF OnePlace, SwapsOnce, Exchanged
<1>9. Counted' = Counted
    BY <1>1, <1>3 DEF Counted
<1>. QED BY <1>1, <1>2, <1>4, <1>5, <1>6, <1>7, <1>8, <1>9 DEF OnePlace

\* main begins to iterate, ends it, and goes on when all matches are settled.
LEMMA ProceedMatches ==
    ASSUME ExchangeTypes, OneActive, OnePlace, Settled,
           Proceed \/ AllIterated \/ DirectDone
    PROVE  OneActive' /\ OnePlace' /\ Settled'
<1>0. /\ SwapTypes /\ MainThread /\ main \in MainState
      /\ UNCHANGED <<trainer, mutex_planning_deadlock, hasty>>
    BY DEF ExchangeTypes, MainTypes, MainThread, Proceed, AllIterated, DirectDone, ProceedFrame,
           wakeVars
<1>1. Threads(waiter, executed, queue_deadlock)
    <2>1. ~IterateMatch
        BY DEF IterateMatch, Proceed, AllIterated, DirectDone
    <2>. QED BY <1>0, <2>1, MainThreads
<1>2. CASE Proceed
    <2>1. \A m \in Planned : Fresh(m)
        BY <1>2 DEF Proceed, Fresh, BeforeDirect
    <2>2. /\ OneActive' /\ OnePlace' /\ Planned' = Planned
          /\ Counted' = Counted
        BY <1>0, <1>1, <2>1, MainMatches
    <2>3. Counted = {}
        BY <2>1 DEF OnePlace, FreshRests, Counted
    <2>4. CASE matched_deadlocks = <<>>
        <3>1. Planned = {}
            BY <2>4, EmptySeq DEF Planned
        <3>2. UNCHANGED count_sem_reverse_direct_deadlock
            BY <1>2, <2>4 DEF Proceed, directVars
        <3>. QED BY <2>2, <3>1, <3>2 DEF Settled
    <2>5. CASE matched_deadlocks # <<>>
        <3>1. /\ count_sem_reverse_direct_deadlock' = 0 /\ mutex_direct_deadlocks'
              /\ main'.pc = "iterate"
            BY <1>0, <1>2, <2>5 DEF Proceed, MainState
        <3>2. ~Woken'
            BY <3>1 DEF Woken, AfterDirect
        <3>3. count_sem_reverse_direct_deadlock' = Cardinality(Counted')
            BY <2>2, <2>3, <3>1, FS_EmptySet
        <3>. QED BY <2>2, <3>2, <3>3 DEF Settled
    <2>. QED BY <2>4, <2>5
<1>3. CASE AllIterated \/ DirectDone
    <2>1. \/ AllIterated /\ main.pc = "iterate" /\ main'.pc = "direct" /\ UNCHANGED mutex_direct_deadlocks
          \/ DirectDone /\ main.pc = "direct" /\ main'.pc = "gather" /\ ~mutex_direct_deadlocks
        BY <1>0, <1>3 DEF AllIterated, DirectDone, MainState, directVars
    <2>2. UNCHANGED count_sem_reverse_direct_deadlock
        BY <1>3 DEF AllIterated, DirectDone, directVars
    <2>3. \A m \in Planned : ~Fresh(m)'
        BY <2>1 DEF Fresh, BeforeDirect
    <2>4. /\ OneActive' /\ OnePlace' /\ Planned' = Planned /\ executed' = executed
          /\ \A m \in Planned : Moving(m)' <=> Moving(m)
          /\ Counted' = Counted
        BY <1>0, <1>1, <2>3, MainMatches
    <2>5. Woken' => Woken
        BY <2>1 DEF Woken, AfterDirect
    <2>6. main'.pc # "iterate"
        BY <2>1
    <2>. QED BY <1>0, <2>2, <2>4, <2>5, <2>6 DEF Settled
<1>. QED BY <1>2, <1>3

\* A match that is found when main has gone on was found too late.
LEMMA AddedMatches ==
    ASSUME ExchangeTypes, OneActive, OnePlace, Settled, NoLateMatch,
           NEW t \in Trainers, AddMatch(t)
    PROVE  OneActive' /\ OnePlace' /\ Settled'
<1>. PICK n : n = Len(matched_deadlocks) + 1
    OBVIOUS
<1>0. SwapTypes /\ Finisher(t)
    BY DEF ExchangeTypes, Finisher
<1>1. /\ UNCHANGED <<main, crossed, hasty, caught, startVars>>
      /\ UNCHANGED <<directVars, mutex_planning_deadlock>>
      /\ Adds(MatchOf(t)) /\ finisher[t].pc = "match" /\ main.pc # "iterate"
    BY <1>0, FinisherThreads
<1>2. /\ Planned' = Planned \cup {n}
      /\ \A m \in Planned : /\ trainer1(m)' = trainer1(m) /\ executed'[m] = executed[m]
                            /\ Waits(m)' <=> Waits(m)
      /\ ~Waits(n)' /\ executed'[n] = 0
    BY <1>0, <1>1, AddedSwapTypes DEF trainer1, Waits
<1>3. n \notin Planned
    BY <1>0, LenProperties DEF Planned, SwapTypes
<1>4. /\ UNCHANGED <<queue_deadlock, trainer>>
      /\ \A m : Queued(m)' <=> Queued(m)
      /\ \A u \in Trainers : \A m : /\ Given(u, m)' <=> Given(u, m)
                                    /\ Swaps(u, m)' <=> Swaps(u, m)
    BY <1>1 DEF Adds, Queued, Given, Swaps
<1>5. ~Queued(n) /\ \A u \in Trainers : ~Given(u, n) /\ ~Swaps(u, n)
    BY <1>0, <1>3, PlacesPlanned DEF Given, Swaps
<1>6. /\ \A m \in Planned : Moving(m)' <=> Moving(m)
      /\ ~Moving(n)'
    BY <1>2, <1>4, <1>5 DEF Moving
<1>7. \A m \in Planned : Fresh(m)' <=> Fresh(m)
    BY <1>1 DEF Fresh, BeforeDirect
<1>8. OneActive'
    BY <1>1, <1>4 DEF OneActive, Active, Exchanged
<1>9. FreshRests' /\ WaitsOnce'
    BY <1>2, <1>6, <1>7 DEF OnePlace, FreshRests, WaitsOnce
<1>10. QueuedOnce'
    BY <1>0, <1>2, <1>4, PlacesPlanned DEF OnePlace, QueuedOnce, Waits
<1>11. GivenOnce'
    BY <1>0, <1>2, <1>4, PlacesPlanned DEF OnePlace, GivenOnce
<1>12. SwapsOnce'
    BY <1>0, <1>2, <1>4, PlacesPlanned DEF OnePlace, SwapsOnce, Exchanged
<1>13. Counted' = Counted
    BY <1>2, <1>4 DEF Counted
<1>14. ASSUME Woken' PROVE Woken /\ hasty
    <2>1. Woken
        BY <1>1, <1>14 DEF Woken, AfterDirect, directVars
    <2>2. main.pc \notin {"create", "list", "sem_init", "wait"}
        BY <2>1 DEF Woken, AfterDirect
    <2>. QED BY <1>1, <2>1, <2>2 DEF NoLateMatch
<1>15. Settled'
    <2>1. count_sem_reverse_direct_deadlock' = Cardinality(Counted')
        BY <1>1, <1>13 DEF Settled, directVars
    <2>. QED BY <1>1, <1>2, <1>6, <1>14, <2>1 DEF Settled
<1>. QED BY <1>8, <1>9, <1>10, <1>11, <1>12, <1>15 DEF OnePlace

\* Steps of main that start and queue no match.
LEMMA QuietMain ==
    ASSUME ExchangeTypes, \/ CreateTrainer \/ ListTrainer \/ InitSem \/ AllCaught
                          \/ Gather \/ TakeNext \/ NothingToTake \/ GiveMeMyPokemonsDude
    PROVE  Quiet
<1>0. SwapTypes /\ MainThread /\ main \in MainState
    BY DEF ExchangeTypes, MainTypes, MainThread
<1>1. Threads(waiter, executed, queue_deadlock) /\ UNCHANGED trainer
    <2>1. ~IterateMatch
        BY DEF IterateMatch, CreateTrainer, ListTrainer, InitSem, AllCaught, Gather, TakeNext,
               NothingToTake, GiveMeMyPokemonsDude
    <2>. QED BY <1>0, <2>1, MainThreads
<1>2. /\ UNCHANGED <<mutex_planning_deadlock, mutex_direct_deadlocks, crossed>>
      /\ UNCHANGED count_sem_reverse_direct_deadlock
    BY DEF CreateTrainer, ListTrainer, InitSem, AllCaught, Gather, TakeNext, NothingToTake,
           GiveMeMyPokemonsDude, MainFrame, ResolveFrame, planVars, directVars
<1>3. \/ /\ main.pc \in {"create", "list", "sem_init", "wait"}
         /\ main'.pc \in {"create", "list", "sem_init", "wait", "proceed"}
      \/ /\ main.pc \in {"gather", "resolve", "compare"} /\ UNCHANGED hasty
         /\ main'.pc \in {"gather", "resolve", "compare", "exit"}
    <2>1. CASE CreateTrainer \/ ListTrainer \/ InitSem \/ AllCaught
        BY <1>0, <2>1 DEF CreateTrainer, ListTrainer, InitSem, AllCaught, MainState
    <2>2. CASE Gather \/ TakeNext \/ NothingToTake \/ GiveMeMyPokemonsDude
        <3>1. UNCHANGED hasty
            BY <2>2 DEF Gather, TakeNext, NothingToTake, GiveMeMyPokemonsDude, ResolveFrame, wakeVars
        <3>2. CASE Gather
            BY <1>0, <3>1, <3>2 DEF Gather, MainState
        <3>3. CASE TakeNext
            BY <1>0, <3>1, <3>3 DEF TakeNext, MainState
        <3>4. CASE NothingToTake
            BY <1>0, <3>1, <3>4 DEF NothingToTake, MainState
        <3>5. CASE GiveMeMyPokemonsDude
            <4>1. main.pc = "compare" /\ main'.pc = "compare"
                BY <1>0, <3>5 DEF GiveMeMyPokemonsDude, MainState
            <4>. QED BY <3>1, <4>1
        <3>. QED BY <2>2, <3>2, <3>3, <3>4, <3>5
    <2>. QED BY <2>1, <2>2
<1>. QED BY <1>1, <1>2, <1>3 DEF Quiet, Threads, Waits, Exchanged, BeforeDirect, AfterDirect

\* Steps of a search that add no match.
LEMMA QuietFinisher ==
    ASSUME ExchangeTypes, NEW t \in Trainers, Finisher(t), ~AddMatch(t)
    PROVE  Quiet
<1>1. /\ UNCHANGED <<main, crossed, hasty>> /\ UNCHANGED <<directVars, mutex_planning_deadlock>>
      /\ Threads(waiter, executed, queue_deadlock) /\ TrainersStay
    BY FinisherThreads
<1>. QED BY <1>1 DEF Quiet, Threads, Waits, TrainersStay, Exchanged, BeforeDirect, AfterDirect,
                     directVars

\* Steps of a waiter that do not queue its match.
LEMMA QuietWaiter ==
    ASSUME ExchangeTypes, NEW m \in Planned, WaitStatus(m), ~QueueMatch(m)
    PROVE  Quiet
<1>1. PICK pc \in WaiterState \ {"none", "done"} :
            Threads([waiter EXCEPT ![m] = pc], executed, queue_deadlock)
    BY WaiterThreads
<1>2. /\ UNCHANGED <<main, trainer, crossed, hasty>> /\ waiter[m] \notin {"none", "done"}
      /\ UNCHANGED <<directVars, mutex_planning_deadlock>>
    BY WaiterThreads
<1>3. DOMAIN waiter = Planned
    BY LenProperties DEF ExchangeTypes, SwapTypes, Planned
<1>4. \A x \in Planned : Waits(x)' <=> Waits(x)
    BY <1>1, <1>2, <1>3 DEF Threads, Waits
<1>. QED BY <1>1, <1>2, <1>4 DEF Quiet, Threads, Exchanged, BeforeDirect, AfterDirect, directVars

\* Steps of a trainer that end no exchange and begin none.
LEMMA QuietTrainer ==
    ASSUME ExchangeTypes, NEW t \in Trainers, GoOn(t) \/ validate_state_trainer(t)
    PROVE  Quiet
<1>0. SwapTypes /\ TrainerThread(t)
    BY DEF ExchangeTypes, TrainerThread
<1>1. /\ UNCHANGED <<main, hasty, crossed, mutex_planning_deadlock>>
      /\ UNCHANGED <<mutex_direct_deadlocks, count_sem_reverse_direct_deadlock>>
    BY DEF GoOn, validate_state_trainer, Validate, SwapFrame, wakeVars, planVars, directVars
<1>2. Threads(waiter, executed, queue_deadlock)
    <2>1. ~Requeue(t) /\ ~exchange_pokemons(t)
        <3>1. CASE GoOn(t)
            BY <1>0, <3>1, PlacesPlanned DEF GoOn, Requeue, exchange_pokemons
        <3>2. CASE validate_state_trainer(t)
            BY <3>2 DEF validate_state_trainer, Validate, Requeue, exchange_pokemons
        <3>. QED BY <3>1, <3>2
    <2>. QED BY <1>0, <2>1, TrainerThreads
<1>3. \/ trainer[t].pc = "cycle" /\ Turns(t, "cycle", trainer[t].sem, trainer[t].match)
      \/ /\ trainer[t].pc \in {"validate1", "validate2"}
         /\ \E pc \in {"validate2", "count"} : Turns(t, pc, trainer[t].sem, trainer[t].match)
    BY <1>0, TrainerTurns DEF GoOn, validate_state_trainer, Validate
<1>4. \A u \in Trainers :
        /\ trainer'[u].sem = trainer[u].sem /\ trainer'[u].params = trainer[u].params
        /\ trainer'[u].match = trainer[u].match
        /\ \A pc \in {"loop", "cycle", "preempted"} : trainer'[u].pc = pc <=> trainer[u].pc = pc
        /\ Exchanged(u)' <=> Exchanged(u)
    BY <1>3 DEF Turns, Exchanged
<1>. QED BY <1>1, <1>2, <1>4 DEF Quiet, Threads, Waits, BeforeDirect, AfterDirect

\* The other steps of a trainer keep its match in one place.
LEMMA TrainerMatches ==
    ASSUME ExchangeTypes, OneActive, OnePlace, Settled, NEW t \in Trainers, TrainerThread(t),
           ~(GoOn(t) \/ validate_state_trainer(t))
    PROVE  OneActive' /\ OnePlace' /\ Settled'
<1>0. /\ SwapTypes /\ UNCHANGED <<main, hasty>>
    BY TrainerFrame DEF ExchangeTypes, wakeVars
<1>1. ASSUME ~Requeue(t), ~exchange_pokemons(t) PROVE Threads(waiter, executed, queue_deadlock)
    BY <1>1, TrainerThreads
<1>2. CASE StartSwap(t)
    <2>1. /\ UNCHANGED <<mutex_planning_deadlock, directVars>> /\ trainer[t].sem = 1
          /\ ~Requeue(t) /\ ~exchange_pokemons(t)
        BY <1>2 DEF StartSwap, planVars, Requeue, exchange_pokemons
    <2>2. TrainerMoves /\ Turns(t, "cycle", 0, trainer[t].params)
        BY <1>0, <1>1, <1>2, <2>1, TrainerTurns DEF TrainerMoves, directVars
    <2>. QED BY <1>0, <2>1, <2>2, TakingMatches
<1>3. CASE Resume(t)
    <2>1. /\ UNCHANGED <<mutex_planning_deadlock, directVars>> /\ trainer[t].sem = 1
          /\ ~Requeue(t) /\ ~exchange_pokemons(t) /\ trainer[t].pc = "preempted"
        BY <1>3 DEF Resume, planVars, Requeue, exchange_pokemons
    <2>2. trainer[t].match = trainer[t].params
        BY <2>1 DEF OnePlace, GivenOnce
    <2>3. TrainerMoves /\ Turns(t, "cycle", 0, trainer[t].params)
        BY <1>0, <1>1, <1>3, <2>1, <2>2, TrainerTurns DEF TrainerMoves, directVars
    <2>. QED BY <1>0, <2>1, <2>3, TakingMatches
<1>4. CASE desalojar(t)
    <2>1. /\ UNCHANGED directVars /\ trainer[t].pc = "cycle" /\ trainer[t].left > 0
          /\ ~Requeue(t) /\ ~exchange_pokemons(t)
        BY <1>0, <1>4, PlacesPlanned DEF desalojar, Requeue, exchange_pokemons
    <2>2. TrainerMoves /\ Turns(t, "requeue", trainer[t].sem, trainer[t].match)
        BY <1>0, <1>1, <1>4, <2>1, TrainerTurns DEF TrainerMoves, directVars
    <2>. QED BY <1>0, <2>1, <2>2, LeavingMatches
<1>5. CASE Requeue(t)
    <2>1. UNCHANGED <<mutex_planning_deadlock, directVars>> /\ trainer[t].pc = "requeue"
        BY <1>5 DEF Requeue
    <2>2. /\ Threads(waiter, executed, Append(queue_deadlock, trainer[t].match))
          /\ Turns(t, "preempted", trainer[t].sem, trainer[t].match)
        BY <1>0, <1>5, TrainerThreads, TrainerTurns
    <2>. QED BY <1>0, <2>1, <2>2, RequeuedMatches DEF directVars
<1>6. CASE exchange_pokemons(t)
    <2>1. UNCHANGED <<mutex_planning_deadlock, directVars>> /\ trainer[t].pc = "cycle" /\ ~Requeue(t)
        BY <1>6 DEF exchange_pokemons, planVars, Requeue
    <2>2. /\ Threads(waiter, [executed EXCEPT ![trainer[t].match] = @ + 1], queue_deadlock)
          /\ Turns(t, "validate1", trainer[t].sem, trainer[t].match)
        BY <1>0, <1>6, <2>1, TrainerThreads, TrainerTurns
    <2>. QED BY <1>0, <2>1, <2>2, ExchangedMatches DEF directVars
<1>7. CASE FinishSwap(t)
    <2>1. /\ ~mutex_planning_deadlock' /\ trainer[t].pc = "count" /\ ~Requeue(t)
          /\ ~exchange_pokemons(t)
          /\ count_sem_reverse_direct_deadlock' = count_sem_reverse_direct_deadlock + 1
        BY <1>7 DEF FinishSwap, Requeue, exchange_pokemons
    <2>2. ~mutex_direct_deadlocks' => \/ ~mutex_direct_deadlocks
                                      \/ count_sem_reverse_direct_deadlock' = Len(matched_deadlocks)
        BY <1>7, Zenon DEF FinishSwap
    <2>3. /\ Threads(waiter, executed, queue_deadlock)
          /\ Turns(t, "loop", trainer[t].sem, trainer[t].match)
        BY <1>0, <1>1, <1>7, <2>1, TrainerTurns
    <2>. QED BY <1>0, <2>1, <2>2, <2>3, FinishedMatches
<1>. QED BY <1>2, <1>3, <1>4, <1>5, <1>6, <1>7 DEF TrainerThread

\* Every step keeps every match in one place.
LEMMA NextMatchesInv ==
    ASSUME ExchangeTypes, NoLateMatch, MatchesInv, [Next]_vars
    PROVE  MatchesInv'
<1>0. SwapTypes
    BY DEF ExchangeTypes
<1>1. ASSUME Quiet PROVE MatchesInv'
    BY <1>0, <1>1, QuietMatches
<1>. SUFFICES ASSUME ~Quiet, ~crossed' PROVE OneActive' /\ OnePlace' /\ Settled'
    BY <1>1 DEF MatchesInv
<1>2. ~UNCHANGED vars
    BY DEF Quiet, vars, wakeVars, planVars, directVars, waitVars, Waits, Exchanged,
           BeforeDirect, AfterDirect
<1>3. ~crossed
    <2>1. CASE MainThread
        BY <2>1 DEF MainThread, CreateTrainer, ListTrainer, InitSem, AllCaught, Proceed,
               IterateMatch, AllIterated, DirectDone, Gather, TakeNext, NothingToTake,
               GiveMeMyPokemonsDude, MainFrame, ProceedFrame, ResolveFrame
    <2>2. CASE Plan
        BY <2>2 DEF Plan
    <2>3. ASSUME NEW t \in Trainers, Finisher(t) PROVE ~crossed
        BY <2>3, FinisherThreads
    <2>4. ASSUME NEW t \in Trainers, TrainerThread(t) PROVE ~crossed
        BY <2>4, TrainerFrame
    <2>5. ASSUME NEW m \in DOMAIN matched_deadlocks, WaitStatus(m) PROVE ~crossed
        BY <2>5 DEF WaitStatus, CheckStatus, LockDeadlock, QueueMatch, WaiterFrame
    <2>. QED BY <1>2, <2>1, <2>2, <2>3, <2>4, <2>5 DEF Next
<1>4. OneActive /\ OnePlace /\ Settled
    BY <1>3 DEF MatchesInv
<1>5. CASE MainThread
    BY <1>4, <1>5, QuietMain, ProceedMatches, IteratedMatches DEF MainThread
<1>6. CASE Plan
    BY <1>4, <1>6, PlannedMatches
<1>7. ASSUME NEW t \in Trainers, Finisher(t) PROVE OneActive' /\ OnePlace' /\ Settled'
    BY <1>4, <1>7, QuietFinisher, AddedMatches
<1>8. ASSUME NEW t \in Trainers, TrainerThread(t) PROVE OneActive' /\ OnePlace' /\ Settled'
    BY <1>4, <1>8, QuietTrainer, TrainerMatches
<1>9. ASSUME NEW m \in DOMAIN matched_deadlocks, WaitStatus(m)
      PROVE  OneActive' /\ OnePlace' /\ Settled'
    <2>1. m \in Planned
        BY <1>0, LenProperties DEF SwapTypes, Planned
    <2>. QED BY <1>4, <1>9, <2>1, QuietWaiter, QueueingMatches
<1>. QED BY <1>2, <1>5, <1>6, <1>7, <1>8, <1>9 DEF Next

\* Before any trainer is full there is no match.
LEMMA InitTypes ==
    ASSUME Init
    PROVE  ExchangeTypes /\ NoLateMatch /\ MatchesInv
<1>. USE DEF Init
<1>1. PICK s \in Starts : objective = s.objective /\ caught = s.caught
    OBVIOUS
<1>2. objective \in [Trainers -> Bags] /\ caught \in [Trainers -> Bags]
    BY <1>1, StartsAreFull
<1>3. Empty \in Bags
    BY EmptyIsBag
<1>4. DetectTypes
    <2>1. finisher \in [Trainers -> FinisherState]
        BY <1>3 DEF FinisherState
    <2>2. to_deadlock \in Seq(Trainers)
        BY EmptySeq
    <2>. QED BY <1>2, <1>3, <2>1, <2>2 DEF DetectTypes
<1>5. MainTypes
    BY <1>3 DEF MainTypes, MainState, Nobody
<1>6. matched_deadlocks = <<>> /\ waiter = <<>> /\ executed = <<>> /\ queue_deadlock = <<>>
    OBVIOUS
<1>7. \A S : <<>> \in Seq(S)
    BY EmptySeq
<1>8. SwapTypes
    <2>1. trainer \in [Trainers -> TrainerState]
        BY DEF TrainerState
    <2>. QED BY <1>6, <1>7, <2>1 DEF SwapTypes
<1>9. ExchangeTypes
    BY <1>2, <1>4, <1>5, <1>8 DEF ExchangeTypes
<1>10. NoLateMatch
    BY DEF NoLateMatch
<1>11. Planned = {} /\ DOMAIN queue_deadlock = {}
    <2>1. Len(<<>>) = 0 /\ DOMAIN queue_deadlock = 1..Len(queue_deadlock)
        BY <1>6, <1>7, EmptySeq, LenProperties
    <2>. QED BY <1>6, <2>1 DEF Planned
<1>12. OneActive /\ OnePlace
    BY <1>11 DEF OneActive, Active, Exchanged, OnePlace, FreshRests, WaitsOnce, QueuedOnce,
                 GivenOnce, SwapsOnce
<1>13. Settled
    <2>1. Counted = {}
        BY <1>11 DEF Counted
    <2>. QED BY <1>11, <2>1, FS_EmptySet DEF Settled
<1>. QED BY <1>9, <1>10, <1>12, <1>13 DEF MatchesInv

\* When main goes on from the direct exchanges (proceed_to_finish, resolver.c:18) each match of
\* matched_deadlocks was executed, once: whatever threads waited for its trainers, however often
\* the trainer was preempted, the planner's one mutex and the count that wakes main lose no match
\* and run none twice.
THEOREM EachMatchOnce == Spec => []EveryMatchOnce
<1>1. Init => ExchangeTypes /\ NoLateMatch /\ MatchesInv
    BY InitTypes
<1>2. ExchangeTypes /\ NoLateMatch /\ MatchesInv /\ [Next]_vars
        => (ExchangeTypes /\ NoLateMatch /\ MatchesInv)'
    BY NextExchangeTypes, NextNoLateMatch, NextMatchesInv
<1>3. ExchangeTypes /\ MatchesInv => EveryMatchOnce
    <2>1. ExchangeTypes => DOMAIN matched_deadlocks = Planned
        BY LenProperties DEF ExchangeTypes, SwapTypes, Planned
    <2>. QED BY <2>1 DEF MatchesInv, Settled, Woken, AfterDirect, EveryMatchOnce
<1>. QED BY <1>1, <1>2, <1>3, PTL DEF Spec

-----------------------------------------------------------------------------
(* What the lists of matches promise.                                       *)

Waiting == {to_deadlock[i] : i \in DOMAIN to_deadlock}

\* The match names the trainer.
Names(m, t) == trainer1(m) = t \/ trainer2(m) = t

\* Nobody finds who still looks for a match itself, and who looks for a species has none of it
\* to spare; f is the finisher's record.
SearchOf(t, f) ==
    /\ f.pc \in {"none", "full", "search", "match"} => t \notin Waiting
    /\ f.pc \in {"none", "full"} => \A m \in Planned : ~Names(m, t)
    /\ f.pc \in {"search", "match"} => \A p \in Pokemons : f.aux[p] > 0 => leftovers[t][p] = 0
    /\ f.pc = "match" => /\ f.other \in Waiting
                         /\ leftovers[t][f.needs] = 0 /\ leftovers[t][f.gives] > 0

Searches == \A t \in Trainers : SearchOf(t, finisher[t])

\* A match is between two trainers, and over two species.
Proper ==
    \A m \in Planned : /\ trainer1(m) # trainer2(m)
                       /\ matched_deadlocks[m].pokemon1 # matched_deadlocks[m].pokemon2

\* The matches in which t is still to give a p.
Owed(t, p) ==
    {m \in Planned : executed[m] = 0 /\ \/ trainer1(m) = t /\ matched_deadlocks[m].pokemon1 = p
                                        \/ trainer2(m) = t /\ matched_deadlocks[m].pokemon2 = p}

\* A trainer has what it is still to give and what it has to spare beyond what it wants.
Beyond(due, wants, has) == due = 0 \/ wants + due <= has

Covered ==
    Relied /\ ~AfterDirect =>
        \A t \in Trainers, p \in Pokemons :
            Beyond(leftovers[t][p] + Cardinality(Owed(t, p)), objective[t][p], caught[t][p])

\* What one number is above another.
Over(n, k) == IF n > k THEN n - k ELSE 0

\* main's lists of the trainer it has taken are what it has too much of and what it lacks.
MainKnows ==
    ~crossed /\ main.pc = "compare" =>
        \A p \in Pokemons : /\ main.leftovers[p] = Over(caught[main.i][p], objective[main.i][p])
                            /\ main.remaining[p] = Over(objective[main.i][p], caught[main.i][p])

-----------------------------------------------------------------------------
(* The searches.                                                            *)

\* Only the finishers touch the lists.
LEMMA OthersKeepLists ==
    ASSUME Next, \A t \in Trainers : ~Finisher(t)
    PROVE  UNCHANGED <<detectVars, matched_deadlocks>>
BY DEF Next, MainThread, CreateTrainer, ListTrainer, InitSem, AllCaught, Proceed, IterateMatch,
       AllIterated, DirectDone, Gather, TakeNext, NothingToTake, GiveMeMyPokemonsDude, MainFrame,
       ProceedFrame, ResolveFrame, Plan, WaitStatus, CheckStatus, LockDeadlock, QueueMatch,
       WaiterFrame, TrainerThread, StartSwap, GoOn, desalojar, Requeue, Resume, SwapFrame,
       exchange_pokemons, validate_state_trainer, Validate, FinishSwap

\* What keeps a search as it was.
LEMMA SearchUntouched ==
    ASSUME NEW u \in Trainers, NEW g, SearchOf(u, g),
           UNCHANGED <<leftovers, to_deadlock, matched_deadlocks>>
    PROVE  SearchOf(u, g)'
BY DEF SearchOf, Waiting, Planned, Names, trainer1, trainer2

\* The step of one finisher.
LEMMA SearchesStep ==
    ASSUME Searches, DetectTypes, NEW t \in Trainers, NEW f \in FinisherState, Finds(t, f),
           SearchOf(t, f)',
           \A u \in Trainers \ {t}, g \in FinisherState : SearchOf(u, g) => SearchOf(u, g)'
    PROVE  Searches'
<1>. SUFFICES ASSUME NEW u \in Trainers PROVE SearchOf(u, finisher[u])'
    BY DEF Searches
<1>1. finisher' = [finisher EXCEPT ![t] = f] /\ finisher \in [Trainers -> FinisherState]
    BY DEF Finds, DetectTypes
<1>2. CASE u = t
    <2>1. finisher'[u] = f
        BY <1>1, <1>2
    <2>. QED BY <1>2, <2>1 DEF SearchOf
<1>3. CASE u # t
    <2>1. PICK g \in FinisherState : finisher[u] = g /\ finisher'[u] = g
        BY <1>1, <1>3
    <2>2. SearchOf(u, g)'
        BY <1>3, <2>1 DEF Searches
    <2>. QED BY <2>1, <2>2 DEF SearchOf
<1>. QED BY <1>2, <1>3

\* What AddMatch does to the lists.
LEMMA AddedLists ==
    ASSUME ExchangeTypes, Searches, NEW t \in Trainers, AddMatch(t),
           NEW u, NEW p, NEW q,
           u = finisher[t].other, p = finisher[t].needs, q = finisher[t].gives
    PROVE  /\ u \in Trainers /\ u \in Waiting /\ u # t
           /\ p \in Pokemons /\ q \in Pokemons /\ p # q
           /\ leftovers[t][p] = 0 /\ leftovers[t][q] > 0
           /\ leftovers' \in [Trainers -> Bags]
           /\ \A v \in Trainers \ {t, u} : leftovers'[v] = leftovers[v]
           /\ \A r \in Pokemons :
                /\ leftovers'[t][r] = (IF r = q THEN leftovers[t][r] - 1 ELSE leftovers[t][r])
                /\ leftovers'[u][r] = (IF r = p /\ leftovers[u][r] > 0 THEN leftovers[u][r] - 1
                                       ELSE leftovers[u][r])
           /\ Adds([trainer1 |-> t, pokemon1 |-> q, trainer2 |-> u, pokemon2 |-> p])
           /\ Waiting' = Waiting
<1>1. finisher[t].pc = "match"
    BY DEF AddMatch
<1>2. u \in Trainers /\ p \in Pokemons /\ q \in Pokemons /\ leftovers \in [Trainers -> Bags]
    BY <1>1 DEF ExchangeTypes, DetectTypes
<1>3. u \in Waiting /\ u # t /\ leftovers[t][p] = 0 /\ leftovers[t][q] > 0 /\ p # q
    BY <1>1 DEF Searches, SearchOf
<1>4. leftovers' = [leftovers EXCEPT ![t] = Minus(@, q), ![u] = Minus(@, p)]
    BY DEF AddMatch
<1>5. \A b \in Bags, s \in Pokemons : /\ Minus(b, s) \in Bags
                                      /\ \A r \in Pokemons : Minus(b, s)[r] =
                                            IF r = s /\ b[r] > 0 THEN b[r] - 1 ELSE b[r]
    BY BagOps
<1>6. /\ leftovers' \in [Trainers -> Bags]
      /\ leftovers'[t] = Minus(leftovers[t], q) /\ leftovers'[u] = Minus(leftovers[u], p)
      /\ \A v \in Trainers \ {t, u} : leftovers'[v] = leftovers[v]
    BY <1>2, <1>3, <1>4, <1>5
<1>7. \A r \in Pokemons :
        /\ leftovers'[t][r] = (IF r = q THEN leftovers[t][r] - 1 ELSE leftovers[t][r])
        /\ leftovers'[u][r] = (IF r = p /\ leftovers[u][r] > 0 THEN leftovers[u][r] - 1
                               ELSE leftovers[u][r])
    <2>1. leftovers[t] \in Bags /\ leftovers[u] \in Bags
        BY <1>2
    <2>2. \A r \in Pokemons :
            /\ Minus(leftovers[t], q)[r] =
                (IF r = q /\ leftovers[t][r] > 0 THEN leftovers[t][r] - 1 ELSE leftovers[t][r])
            /\ Minus(leftovers[u], p)[r] =
                (IF r = p /\ leftovers[u][r] > 0 THEN leftovers[u][r] - 1 ELSE leftovers[u][r])
        <3>. PICK b \in Bags, c \in Bags : b = leftovers[t] /\ c = leftovers[u]
            BY <2>1
        <3>1. \A r \in Pokemons : Minus(b, q)[r] = (IF r = q /\ b[r] > 0 THEN b[r] - 1 ELSE b[r])
            BY <1>2, <1>5, Zenon
        <3>2. \A r \in Pokemons : Minus(c, p)[r] = (IF r = p /\ c[r] > 0 THEN c[r] - 1 ELSE c[r])
            BY <1>2, <1>5, Zenon
        <3>. QED BY <3>1, <3>2
    <2>. QED BY <1>3, <1>6, <2>2
<1>8. Adds([trainer1 |-> t, pokemon1 |-> q, trainer2 |-> u, pokemon2 |-> p])
    BY FinisherThreads DEF MatchOf, Finisher
<1>9. Waiting' = Waiting
    BY DEF AddMatch, Waiting
<1>. QED BY <1>2, <1>3, <1>6, <1>7, <1>8, <1>9

\* A search offers only what its trainer has to spare and keeps others' offers apart.
LEMMA FinisherSearches ==
    ASSUME ExchangeTypes, Searches, NEW t \in Trainers, Finisher(t)
    PROVE  Searches'
<1>0. /\ DetectTypes /\ SwapTypes
      /\ finisher[t] \in FinisherState
      /\ leftovers \in [Trainers -> Bags] /\ leftovers[t] \in Bags
      /\ caught[t] \in Bags /\ objective[t] \in Bags
    BY DEF ExchangeTypes, DetectTypes
<1>1. SearchOf(t, finisher[t])
    BY DEF Searches
<1>2. ASSUME UNCHANGED <<leftovers, to_deadlock, matched_deadlocks>>, NEW f \in FinisherState,
             Finds(t, f), SearchOf(t, f)
      PROVE  Searches'
    BY <1>0, <1>2, SearchUntouched, SearchesStep
<1>3. CASE BecomeFull(t) \/ HasObjective(t) \/ WakeMain(t)
    <2>1. PICK pc \in {"full", "all full?", "done"} :
            /\ Finds(t, [finisher[t] EXCEPT !.pc = pc])
            /\ pc = "full" => finisher[t].pc = "none"
        BY <1>3 DEF BecomeFull, HasObjective, WakeMain, Finds
    <2>2. UNCHANGED <<leftovers, to_deadlock, matched_deadlocks>>
        BY <1>3 DEF BecomeFull, HasObjective, WakeMain, matchVars
    <2>3. PICK f \in FinisherState : f = [finisher[t] EXCEPT !.pc = pc] /\ f.pc = pc
        <3>1. [finisher[t] EXCEPT !.pc = pc] \in FinisherState
            BY <1>0, FinisherUpdates
        <3>2. [finisher[t] EXCEPT !.pc = pc].pc = pc
            BY <1>0 DEF FinisherState
        <3>. QED BY <3>1, <3>2
    <2>4. SearchOf(t, f)
        BY <1>1, <2>1, <2>3 DEF SearchOf
    <2>. QED BY <1>2, <2>1, <2>2, <2>3, <2>4
<1>4. CASE BeginSearch(t)
    <2>1. PICK l \in Bags, r \in Bags :
            /\ l = get_dictionary_difference(caught[t], objective[t])
            /\ r = get_dictionary_difference(objective[t], caught[t])
            /\ \A p \in Pokemons : r[p] > 0 => l[p] = 0
        BY <1>0, DifferenceIsBag
    <2>2. /\ UNCHANGED <<to_deadlock, matched_deadlocks>> /\ finisher[t].pc = "full"
          /\ leftovers' = [leftovers EXCEPT ![t] = l]
          /\ remaining' = [remaining EXCEPT ![t] = r]
          /\ finisher' = [finisher EXCEPT ![t] =
                [finisher[t] EXCEPT !.pc = "search", !.aux = remaining'[t]]]
        BY <1>4, <2>1 DEF BeginSearch, matchVars
    <2>3. remaining'[t] = r
        BY <1>0, <2>2 DEF DetectTypes
    <2>4. PICK f \in FinisherState :
            f = [finisher[t] EXCEPT !.pc = "search", !.aux = r] /\ f.pc = "search" /\ f.aux = r
        <3>1. [finisher[t] EXCEPT !.pc = "search", !.aux = r] \in FinisherState
            BY <1>0, <2>1, FinisherUpdates
        <3>2. [finisher[t] EXCEPT !.pc = "search", !.aux = r].pc = "search" /\ [finisher[t] EXCEPT !.pc = "search", !.aux = r].aux = r
            BY <1>0, <2>1 DEF FinisherState
        <3>. QED BY <3>1, <3>2
    <2>5. Finds(t, f)
        BY <2>2, <2>3, <2>4 DEF Finds
    <2>6. leftovers'[t] = l /\ \A u \in Trainers \ {t} : leftovers'[u] = leftovers[u]
        BY <1>0, <2>2
    <2>7. SearchOf(t, f)'
        BY <1>1, <2>1, <2>2, <2>4, <2>6 DEF SearchOf, Waiting
    <2>8. Waiting' = Waiting /\ Planned' = Planned /\ \A m, u : Names(m, u)' <=> Names(m, u)
        BY <2>2 DEF Waiting, Planned, Names, trainer1, trainer2
    <2>9. \A u \in Trainers \ {t}, g \in FinisherState : SearchOf(u, g) => SearchOf(u, g)'
        BY <2>6, <2>8 DEF SearchOf
    <2>. QED BY <1>0, <2>5, <2>7, <2>9, SearchesStep
<1>5. CASE FindCandidate(t)
    <2>1. UNCHANGED <<leftovers, to_deadlock, matched_deadlocks>> /\ finisher[t].pc = "search"
        BY <1>5 DEF FindCandidate, matchVars
    <2>2. PICK p \in Species(finisher[t].aux) :
            \/ Finds(t, [finisher[t] EXCEPT !.aux = Minus(finisher[t].aux, p)])
            \/ \E q \in HeNeeds(t, p) :
                Finds(t, [pc |-> "match", aux |-> Minus(finisher[t].aux, p),
                          other |-> First(p), needs |-> p, gives |-> q])
        BY <1>5 DEF FindCandidate, Finds
    <2>3. p \in Pokemons /\ finisher[t].aux \in Bags /\ finisher[t].aux[p] > 0
        BY <1>0 DEF Species, FinisherState
    <2>4. PICK aux \in Bags : /\ aux = Minus(finisher[t].aux, p)
                              /\ \A r \in Pokemons : aux[r] > 0 => finisher[t].aux[r] > 0
        BY <2>3, BagOps DEF Bags
    <2>5. \A r \in Pokemons : /\ finisher[t].aux[r] > 0 => leftovers[t][r] = 0
                              /\ aux[r] > 0 => leftovers[t][r] = 0
        BY <1>1, <2>1, <2>4 DEF SearchOf
    <2>6. CASE Finds(t, [finisher[t] EXCEPT !.aux = aux])
        <3>1. PICK f \in FinisherState :
                f = [finisher[t] EXCEPT !.aux = aux] /\ f.pc = "search" /\ f.aux = aux
            <4>1. [finisher[t] EXCEPT !.aux = aux] \in FinisherState
                BY <1>0, <2>1, <2>4, FinisherUpdates
            <4>2. [finisher[t] EXCEPT !.aux = aux].pc = "search" /\ [finisher[t] EXCEPT !.aux = aux].aux = aux
                BY <1>0, <2>1, <2>4 DEF FinisherState
            <4>. QED BY <4>1, <4>2
        <3>2. SearchOf(t, f)
            BY <1>1, <2>1, <2>5, <3>1 DEF SearchOf
        <3>. QED BY <1>2, <2>1, <2>6, <3>1, <3>2
    <2>7. ASSUME NEW q \in HeNeeds(t, p),
                 Finds(t, [pc |-> "match", aux |-> aux, other |-> First(p), needs |-> p,
                           gives |-> q])
          PROVE  Searches'
        <3>1. WithLeftover(p) # {} /\ q \in Pokemons /\ leftovers[t][q] > 0
            BY DEF HeNeeds, Species
        <3>2. First(p) \in Trainers /\ First(p) \in Waiting
            BY <1>0, <2>3, <3>1, FirstWaits DEF Waiting
        <3>3. PICK f \in FinisherState :
                /\ f = [pc |-> "match", aux |-> aux, other |-> First(p), needs |-> p, gives |-> q]
                /\ f.pc = "match" /\ f.aux = aux /\ f.other = First(p) /\ f.needs = p
                /\ f.gives = q
            <4>1. [pc |-> "match", aux |-> aux, other |-> First(p), needs |-> p, gives |-> q]
                    \in FinisherState
                BY <2>3, <2>4, <3>1, <3>2 DEF FinisherState
            <4>. QED BY <4>1
        <3>4. leftovers[t][p] = 0 /\ t \notin Waiting
            BY <1>1, <2>1, <2>3, <2>5 DEF SearchOf
        <3>5. SearchOf(t, f)
            BY <2>5, <3>1, <3>2, <3>3, <3>4 DEF SearchOf
        <3>6. Finds(t, f)
            BY <2>7, <3>3
        <3>. QED BY <1>2, <2>1, <3>3, <3>5, <3>6
    <2>. QED BY <2>2, <2>4, <2>6, <2>7
<1>6. CASE AddMatch(t)
    <2>1. PICK u, p, q : u = finisher[t].other /\ p = finisher[t].needs /\ q = finisher[t].gives
        OBVIOUS
    <2>2. /\ u \in Waiting /\ u \in Trainers /\ u # t
          /\ \A v \in Trainers \ {t, u} : leftovers'[v] = leftovers[v]
          /\ \A r \in Pokemons :
                leftovers'[t][r] = (IF r = q THEN leftovers[t][r] - 1 ELSE leftovers[t][r])
          /\ leftovers[t][p] = 0 /\ leftovers[t][q] > 0
          /\ Adds([trainer1 |-> t, pokemon1 |-> q, trainer2 |-> u, pokemon2 |-> p])
          /\ Waiting' = Waiting
        BY <1>6, <2>1, AddedLists
    <2>3. finisher[t].pc = "match" /\ Finds(t, [finisher[t] EXCEPT !.pc = "search"])
        BY <1>6 DEF AddMatch, Finds
    <2>4. PICK f \in FinisherState :
            /\ f = [finisher[t] EXCEPT !.pc = "search"] /\ f.pc = "search"
            /\ f.aux = finisher[t].aux
        <3>1. [finisher[t] EXCEPT !.pc = "search"] \in FinisherState
            BY <1>0, FinisherUpdates
        <3>2. [finisher[t] EXCEPT !.pc = "search"].pc = "search" /\ [finisher[t] EXCEPT !.pc = "search"].aux = finisher[t].aux
            BY <1>0 DEF FinisherState
        <3>. QED BY <3>1, <3>2
    <2>5. t \notin Waiting /\ \A r \in Pokemons : f.aux[r] > 0 => leftovers[t][r] = 0
        BY <1>1, <2>3, <2>4 DEF SearchOf
    <2>6. \A r \in Pokemons : f.aux[r] > 0 => leftovers'[t][r] = 0
        BY <2>2, <2>5
    <2>7. SearchOf(t, f)'
        BY <2>2, <2>4, <2>5, <2>6 DEF SearchOf
    <2>8. ASSUME NEW v \in Trainers \ {t, u}
          PROVE  (\A m \in Planned : ~Names(m, v)) => \A m \in Planned' : ~Names(m, v)'
        <3>. PICK n : n = Len(matched_deadlocks) + 1
            OBVIOUS
        <3>1. /\ Planned' = Planned \cup {n}
              /\ \A m \in Planned : matched_deadlocks'[m] = matched_deadlocks[m]
              /\ matched_deadlocks'[n] =
                    [trainer1 |-> t, pokemon1 |-> q, trainer2 |-> u, pokemon2 |-> p]
            BY <1>0, <2>2, AddedSwapTypes
        <3>2. ASSUME NEW m \in Planned PROVE Names(m, v)' <=> Names(m, v)
            BY <3>1 DEF Names, trainer1, trainer2
        <3>3. ~(matched_deadlocks'[n].trainer1 = v \/ matched_deadlocks'[n].trainer2 = v)
            BY <3>1
        <3>4. ~Names(n, v)'
            BY <3>3 DEF Names, trainer1, trainer2
        <3>. QED BY <3>1, <3>2, <3>4
    <2>9. \A v \in Trainers \ {t}, g \in FinisherState : SearchOf(v, g) => SearchOf(v, g)'
        BY <2>2, <2>8 DEF SearchOf
    <2>. QED BY <1>0, <2>3, <2>4, <2>7, <2>9, SearchesStep
<1>7. CASE AddToDeadlock(t)
    <2>1. /\ Finds(t, [finisher[t] EXCEPT !.pc = "all full?"])
          /\ UNCHANGED <<leftovers, matched_deadlocks>> /\ to_deadlock' = Append(to_deadlock, t)
        BY <1>7 DEF AddToDeadlock, Finds, matchVars
    <2>2. PICK f \in FinisherState : f = [finisher[t] EXCEPT !.pc = "all full?"] /\ f.pc = "all full?"
        <3>1. [finisher[t] EXCEPT !.pc = "all full?"] \in FinisherState
            BY <1>0, FinisherUpdates
        <3>2. [finisher[t] EXCEPT !.pc = "all full?"].pc = "all full?"
            BY <1>0 DEF FinisherState
        <3>. QED BY <3>1, <3>2
    <2>3. Waiting' = Waiting \cup {t}
        <3>1. /\ Len(to_deadlock) \in Nat /\ DOMAIN to_deadlock = 1..Len(to_deadlock)
              /\ DOMAIN to_deadlock' = 1..(Len(to_deadlock) + 1)
              /\ \A i \in 1..Len(to_deadlock) : to_deadlock'[i] = to_deadlock[i]
              /\ to_deadlock'[Len(to_deadlock) + 1] = t
            <4>1. to_deadlock \in Seq(Trainers)
                BY <1>0 DEF DetectTypes
            <4>2. to_deadlock' \in Seq(Trainers) /\ Len(to_deadlock') = Len(to_deadlock) + 1
                BY <2>1, <4>1, AppendProperties
            <4>3. Len(to_deadlock) \in Nat /\ DOMAIN to_deadlock = 1..Len(to_deadlock)
                BY <4>1, LenProperties
            <4>4. DOMAIN to_deadlock' = 1..Len(to_deadlock')
                BY <4>2, LenProperties
            <4>5. /\ \A i \in 1..Len(to_deadlock) : to_deadlock'[i] = to_deadlock[i]
                  /\ to_deadlock'[Len(to_deadlock) + 1] = t
                BY <2>1, <4>1, AppendProperties, ZenonT(40)
            <4>. QED BY <4>2, <4>3, <4>4, <4>5
        <3>. QED BY <3>1 DEF Waiting
    <2>4. SearchOf(t, f)'
        BY <2>2 DEF SearchOf
    <2>5. Planned' = Planned /\ \A m, u : Names(m, u)' <=> Names(m, u)
        BY <2>1 DEF Planned, Names, trainer1, trainer2
    <2>6. \A u \in Trainers \ {t}, g \in FinisherState : SearchOf(u, g) => SearchOf(u, g)'
        BY <2>1, <2>3, <2>5 DEF SearchOf
    <2>. QED BY <1>0, <2>1, <2>2, <2>4, <2>6, SearchesStep
<1>. QED BY <1>3, <1>4, <1>5, <1>6, <1>7 DEF Finisher

\* Every step keeps the searches sound.
LEMMA NextSearches ==
    ASSUME ExchangeTypes, Searches, [Next]_vars
    PROVE  Searches'
<1>1. ASSUME UNCHANGED <<detectVars, matched_deadlocks>> PROVE Searches'
    <2>. SUFFICES ASSUME NEW t \in Trainers PROVE SearchOf(t, finisher[t])'
        BY DEF Searches
    <2>1. PICK f : f = finisher[t] /\ f = finisher'[t]
        BY <1>1 DEF detectVars
    <2>2. SearchOf(t, f)'
        BY <1>1, <2>1, SearchUntouched DEF Searches, detectVars
    <2>. QED BY <2>1, <2>2 DEF SearchOf
<1>2. CASE UNCHANGED vars
    BY <1>1, <1>2 DEF vars
<1>3. CASE Next /\ \A t \in Trainers : ~Finisher(t)
    BY <1>1, <1>3, OthersKeepLists
<1>4. CASE \E t \in Trainers : Finisher(t)
    BY <1>4, FinisherSearches
<1>. QED BY <1>2, <1>3, <1>4

\* Only AddMatch lengthens the list of matches.
LEMMA MatchesKept ==
    ASSUME ExchangeTypes, [Next]_vars, \A t \in Trainers : ~AddMatch(t)
    PROVE  UNCHANGED matched_deadlocks
<1>1. CASE UNCHANGED vars
    BY <1>1 DEF vars
<1>2. CASE Next /\ \A t \in Trainers : ~Finisher(t)
    BY <1>2, OthersKeepLists
<1>3. ASSUME NEW t \in Trainers, Finisher(t) PROVE UNCHANGED matched_deadlocks
    BY <1>3, FinisherThreads DEF Threads
<1>. QED BY <1>1, <1>2, <1>3

\* Every match is between two trainers and for two species.
LEMMA NextProper ==
    ASSUME ExchangeTypes, Searches, Proper, [Next]_vars
    PROVE  Proper'
<1>1. CASE UNCHANGED matched_deadlocks
    BY <1>1 DEF Proper, Planned, trainer1, trainer2
<1>2. ASSUME NEW t \in Trainers, AddMatch(t) PROVE Proper'
    <2>1. PICK u, p, q : u = finisher[t].other /\ p = finisher[t].needs /\ q = finisher[t].gives
        OBVIOUS
    <2>2. /\ u # t /\ p # q
          /\ Adds([trainer1 |-> t, pokemon1 |-> q, trainer2 |-> u, pokemon2 |-> p])
        BY <1>2, <2>1, AddedLists
    <2>3. PICK n : n = Len(matched_deadlocks) + 1
        OBVIOUS
    <2>4. /\ Planned' = Planned \cup {n}
          /\ \A m \in Planned : matched_deadlocks'[m] = matched_deadlocks[m]
          /\ matched_deadlocks'[n] =
                [trainer1 |-> t, pokemon1 |-> q, trainer2 |-> u, pokemon2 |-> p]
        BY <2>2, <2>3, AddedSwapTypes DEF ExchangeTypes
    <2>. QED BY <2>2, <2>4 DEF Proper, trainer1, trainer2
<1>. QED BY <1>1, <1>2, MatchesKept

-----------------------------------------------------------------------------
(* Who is to give a pokemon has it.                                         *)

\* There are finitely many matches.
LEMMA PlannedFinite ==
    ASSUME SwapTypes
    PROVE  IsFiniteSet(Planned)
<1>1. 1 \in Int /\ Len(matched_deadlocks) \in Int
    BY LenProperties DEF SwapTypes
<1>2. IsFiniteSet(1..Len(matched_deadlocks))
    BY <1>1, FS_Interval, Zenon
<1>. QED BY <1>2 DEF Planned

\* So a trainer owes finitely many pokemons of a species.
LEMMA OwedFinite ==
    ASSUME SwapTypes, NEW t, NEW p
    PROVE  IsFiniteSet(Owed(t, p)) /\ Cardinality(Owed(t, p)) \in Nat
<1>1. Owed(t, p) \subseteq Planned
    BY DEF Owed
<1>2. IsFiniteSet(Owed(t, p))
    BY <1>1, PlannedFinite, FS_Subset
<1>. QED BY <1>2, FS_CardinalityType

\* The promise is kept once it is off, and main does not come back.
LEMMA PromiseIsOff ==
    ASSUME ExchangeTypes, [Next]_vars
    PROVE  /\ Relied' => Relied
           /\ AfterDirect => AfterDirect'
<1>0. overpromised \in BOOLEAN /\ crossed \in BOOLEAN /\ main \in MainState
    BY DEF ExchangeTypes, MainTypes
<1>1. CASE UNCHANGED vars
    BY <1>1 DEF vars, detectVars, Relied, AfterDirect
<1>2. CASE MainThread
    <2>1. UNCHANGED <<overpromised, crossed>>
        BY <1>2 DEF MainThread, CreateTrainer, ListTrainer, InitSem, AllCaught, Proceed,
               IterateMatch, AllIterated, DirectDone, Gather, TakeNext, NothingToTake,
               GiveMeMyPokemonsDude, MainFrame, ProceedFrame, ResolveFrame, detectVars
    <2>2. AfterDirect => AfterDirect'
        BY <1>0, <1>2 DEF MainThread, CreateTrainer, ListTrainer, InitSem, AllCaught, Proceed,
               IterateMatch, AllIterated, DirectDone, Gather, TakeNext, NothingToTake,
               GiveMeMyPokemonsDude, AfterDirect, MainState
    <2>. QED BY <2>1, <2>2 DEF Relied
<1>3. CASE Plan
    BY <1>3 DEF Plan, detectVars, Relied, AfterDirect
<1>4. ASSUME NEW t \in Trainers, Finisher(t) PROVE (Relied' => Relied) /\ UNCHANGED main
    <2>1. UNCHANGED <<main, crossed>>
        BY <1>4, FinisherThreads
    <2>2. overpromised => overpromised'
        BY <1>4 DEF Finisher, BecomeFull, HasObjective, BeginSearch, FindCandidate, AddMatch,
               AddToDeadlock, WakeMain
    <2>. QED BY <2>1, <2>2 DEF Relied
<1>5. ASSUME NEW t \in Trainers, TrainerThread(t)
      PROVE  UNCHANGED <<main, crossed, overpromised>>
    BY <1>5, TrainerFrame DEF detectVars
<1>6. ASSUME NEW m \in DOMAIN matched_deadlocks, WaitStatus(m)
      PROVE  UNCHANGED <<main, crossed, overpromised>>
    BY <1>6 DEF WaitStatus, CheckStatus, LockDeadlock, QueueMatch, WaiterFrame, detectVars
<1>. QED BY <1>1, <1>2, <1>3, <1>4, <1>5, <1>6 DEF Next, Relied, AfterDirect

\* What moves pokemons, or the lists of what may be given.
LEMMA NothingMoves ==
    ASSUME ExchangeTypes, [Next]_vars, ~GiveMeMyPokemonsDude,
           \A t \in Trainers : ~BeginSearch(t) /\ ~AddMatch(t) /\ ~exchange_pokemons(t)
    PROVE  UNCHANGED <<leftovers, caught, executed, matched_deadlocks>>
<1>1. CASE UNCHANGED vars
    BY <1>1 DEF vars, detectVars
<1>2. CASE Next
    <2>1. UNCHANGED <<caught, matched_deadlocks>>
        BY <1>2, NextCaught, MatchesKept
    <2>2. ASSUME NEW t \in Trainers, Finisher(t) PROVE UNCHANGED <<leftovers, executed>>
        <3>1. BecomeFull(t) \/ HasObjective(t) \/ FindCandidate(t) \/ AddToDeadlock(t) \/ WakeMain(t)
            BY <2>2 DEF Finisher
        <3>. QED BY <3>1 DEF BecomeFull, HasObjective, FindCandidate, AddToDeadlock, WakeMain,
                             matchVars
    <2>3. ASSUME \A t \in Trainers : ~Finisher(t) PROVE UNCHANGED leftovers
        BY <1>2, <2>3, OthersKeepLists DEF detectVars
    <2>4. ASSUME NEW t \in Trainers, TrainerThread(t) PROVE UNCHANGED executed
        <3>1. \/ StartSwap(t) \/ GoOn(t) \/ desalojar(t) \/ Requeue(t) \/ Resume(t)
              \/ validate_state_trainer(t) \/ FinishSwap(t)
            BY <2>4 DEF TrainerThread
        <3>. QED BY <3>1 DEF StartSwap, GoOn, desalojar, Requeue, Resume, validate_state_trainer,
                             Validate, FinishSwap
    <2>5. ASSUME Plan PROVE UNCHANGED executed
        BY <2>5 DEF Plan
    <2>6. ASSUME NEW m \in DOMAIN matched_deadlocks, WaitStatus(m) PROVE UNCHANGED executed
        BY <2>6 DEF WaitStatus, CheckStatus, LockDeadlock, QueueMatch, WaiterFrame
    <2>7. UNCHANGED executed
        <3>1. CASE MainThread
            BY <3>1 DEF MainThread, CreateTrainer, ListTrainer, InitSem, AllCaught, Proceed,
                   IterateMatch, AllIterated, DirectDone, Gather, TakeNext, NothingToTake,
                   MainFrame, ProceedFrame, ResolveFrame
        <3>. QED BY <1>2, <2>2, <2>4, <2>5, <2>6, <3>1 DEF Next
    <2>. QED BY <2>1, <2>2, <2>3, <2>7
<1>. QED BY <1>1, <1>2

\* What the trainers want does not change.
LEMMA StartsStay ==
    ASSUME [Next]_vars
    PROVE  UNCHANGED startVars
<1>1. ASSUME NEW t \in Trainers, Finisher(t) PROVE UNCHANGED startVars
    BY <1>1 DEF Finisher, BecomeFull, HasObjective, BeginSearch, FindCandidate, AddMatch,
           AddToDeadlock, WakeMain, FinisherFrame
<1>2. ASSUME NEW t \in Trainers, TrainerThread(t) PROVE UNCHANGED startVars
    BY <1>2, TrainerFrame
<1>3. ASSUME NEW m \in DOMAIN matched_deadlocks, WaitStatus(m) PROVE UNCHANGED startVars
    BY <1>3 DEF WaitStatus, CheckStatus, LockDeadlock, QueueMatch, WaiterFrame
<1>4. CASE MainThread
    BY <1>4 DEF MainThread, CreateTrainer, ListTrainer, InitSem, AllCaught, Proceed,
           IterateMatch, AllIterated, DirectDone, Gather, TakeNext, NothingToTake,
           GiveMeMyPokemonsDude, MainFrame, ProceedFrame, ResolveFrame
<1>. QED BY <1>1, <1>2, <1>3, <1>4 DEF Next, vars, Plan

\* A step that moves no pokemon, promises none and adds no match keeps every debt covered.
LEMMA NothingMovedCovered ==
    ASSUME ExchangeTypes, Covered, [Next]_vars,
           UNCHANGED <<leftovers, caught, executed, matched_deadlocks>>
    PROVE  Covered'
<1>1. \A t, p : Owed(t, p)' = Owed(t, p)
    BY DEF Owed, Planned, trainer1, trainer2
<1>2. objective' = objective
    BY StartsStay DEF startVars
<1>. QED BY <1>1, <1>2, PromiseIsOff DEF Covered

\* What the difference of two dictionaries says of a species.
LEMMA DifferenceCounts ==
    ASSUME NEW b \in Bags, NEW c \in Bags, NEW p \in Pokemons
    PROVE  /\ get_dictionary_difference(b, c)[p] = Over(b[p], c[p])
           /\ b[p] \in Nat /\ c[p] \in Nat /\ Over(b[p], c[p]) \in Nat
BY DEF Bags, get_dictionary_difference, Over

\* Who begins its search is named in no match.
LEMMA BegunCovered ==
    ASSUME ExchangeTypes, Searches, Covered, [Next]_vars, NEW t \in Trainers, BeginSearch(t)
    PROVE  Covered'
<1>1. /\ UNCHANGED <<executed, matched_deadlocks>> /\ caught' = caught
      /\ finisher[t].pc = "full"
      /\ leftovers' = [leftovers EXCEPT ![t] = get_dictionary_difference(caught[t], objective[t])]
    BY DEF BeginSearch, matchVars, FinisherFrame
<1>2. \A u, p : Owed(u, p)' = Owed(u, p)
    BY <1>1 DEF Owed, Planned, trainer1, trainer2
<1>3. \A p : Owed(t, p) = {}
    BY <1>1 DEF Searches, SearchOf, Names, Owed
<1>4. /\ caught[t] \in Bags /\ objective[t] \in Bags /\ leftovers \in [Trainers -> Bags]
      /\ caught \in [Trainers -> Bags]
    BY DEF ExchangeTypes, DetectTypes
<1>5. \A p \in Pokemons : /\ leftovers'[t][p] = Over(caught[t][p], objective[t][p])
                            /\ caught[t][p] \in Nat /\ objective[t][p] \in Nat
    <2>1. leftovers'[t] = get_dictionary_difference(caught[t], objective[t])
        BY <1>1, <1>4
    <2>. QED BY <1>4, <2>1, DifferenceCounts
<1>6. \A u \in Trainers \ {t} : leftovers'[u] = leftovers[u]
    BY <1>1, <1>4
<1>. SUFFICES ASSUME Relied', ~AfterDirect', NEW u \in Trainers, NEW p \in Pokemons
              PROVE  Beyond(leftovers'[u][p] + Cardinality(Owed(u, p)'), objective'[u][p],
                            caught'[u][p])
    BY DEF Covered
<1>7. Beyond(leftovers[u][p] + Cardinality(Owed(u, p)), objective[u][p], caught[u][p])
    BY PromiseIsOff DEF Covered
<1>8. objective' = objective
    BY StartsStay DEF startVars
<1>9. CASE u = t
    <2>1. Cardinality(Owed(u, p)') = 0
        BY <1>2, <1>3, <1>9, FS_EmptySet
    <2>2. PICK n \in Nat, k \in Nat : n = caught[t][p] /\ k = objective[t][p]
        BY <1>5
    <2>3. leftovers'[u][p] = Over(n, k) /\ caught'[u][p] = n /\ objective'[u][p] = k
        BY <1>1, <1>5, <1>8, <1>9, <2>2
    <2>4. Beyond(Over(n, k) + 0, k, n)
        BY DEF Over, Beyond
    <2>. QED BY <2>1, <2>3, <2>4
<1>10. CASE u # t
    BY <1>1, <1>2, <1>6, <1>7, <1>8, <1>10
<1>. QED BY <1>9, <1>10

\* A match sets aside what the two trainers had to spare.
LEMMA AddedCovered ==
    ASSUME ExchangeTypes, Searches, Covered, [Next]_vars, NEW t \in Trainers, AddMatch(t)
    PROVE  Covered'
<1>1. PICK u, p, q : u = finisher[t].other /\ p = finisher[t].needs /\ q = finisher[t].gives
    OBVIOUS
<1>2. /\ u \in Trainers /\ u # t /\ p \in Pokemons /\ q \in Pokemons /\ p # q
      /\ leftovers[t][q] > 0
      /\ \A v \in Trainers \ {t, u} : leftovers'[v] = leftovers[v]
      /\ \A r \in Pokemons :
            /\ leftovers'[t][r] = (IF r = q THEN leftovers[t][r] - 1 ELSE leftovers[t][r])
            /\ leftovers'[u][r] = (IF r = p /\ leftovers[u][r] > 0 THEN leftovers[u][r] - 1
                                   ELSE leftovers[u][r])
      /\ Adds([trainer1 |-> t, pokemon1 |-> q, trainer2 |-> u, pokemon2 |-> p])
    BY <1>1, AddedLists
<1>3. caught' = caught /\ (overpromised' = (overpromised \/ leftovers[u][p] = 0
                                                        \/ remaining[u][q] = 0))
    BY <1>1 DEF AddMatch, FinisherFrame
<1>4. PICK n : n = Len(matched_deadlocks) + 1
    OBVIOUS
<1>5. /\ Planned' = Planned \cup {n} /\ n \notin Planned
      /\ \A m \in Planned : matched_deadlocks'[m] = matched_deadlocks[m] /\ executed'[m] = executed[m]
      /\ matched_deadlocks'[n] = [trainer1 |-> t, pokemon1 |-> q, trainer2 |-> u, pokemon2 |-> p]
      /\ executed'[n] = 0
    <2>1. n \notin Planned
        BY <1>4, LenProperties DEF ExchangeTypes, SwapTypes, Planned
    <2>. QED BY <1>2, <1>4, <2>1, AddedSwapTypes DEF ExchangeTypes
<1>6. \A v, r : Owed(v, r)' = IF (v = t /\ r = q) \/ (v = u /\ r = p)
                              THEN Owed(v, r) \cup {n} ELSE Owed(v, r)
    <2>. TAKE v, r
    <2>1. \A m \in Planned : m \in Owed(v, r)' <=> m \in Owed(v, r)
        BY <1>5 DEF Owed, trainer1, trainer2
    <2>2. n \in Owed(v, r)' <=> (v = t /\ r = q) \/ (v = u /\ r = p)
        BY <1>5 DEF Owed, trainer1, trainer2
    <2>3. Owed(v, r)' \subseteq Planned \cup {n} /\ Owed(v, r) \subseteq Planned
        BY <1>5 DEF Owed
    <2>. QED BY <2>1, <2>2, <2>3
<1>. SUFFICES ASSUME Relied', ~AfterDirect', NEW v \in Trainers, NEW r \in Pokemons
              PROVE  Beyond(leftovers'[v][r] + Cardinality(Owed(v, r)'), objective'[v][r],
                            caught'[v][r])
    BY DEF Covered
<1>7. /\ Beyond(leftovers[v][r] + Cardinality(Owed(v, r)), objective[v][r], caught[v][r])
      /\ objective' = objective
    BY PromiseIsOff, StartsStay DEF Covered, startVars
<1>8. leftovers[u][p] # 0 /\ leftovers[u][p] \in Nat /\ leftovers[t][q] \in Nat
      /\ leftovers[v][r] \in Nat /\ caught[v][r] \in Nat
    BY <1>2, <1>3 DEF Relied, ExchangeTypes, DetectTypes, Bags
<1>9. CASE (v = t /\ r = q) \/ (v = u /\ r = p)
    <2>1. Owed(v, r)' = Owed(v, r) \cup {n} /\ n \notin Owed(v, r)
        BY <1>5, <1>6, <1>9 DEF Owed
    <2>2. Cardinality(Owed(v, r)') = Cardinality(Owed(v, r)) + 1 /\ Cardinality(Owed(v, r)) \in Nat
        BY <2>1, OwedFinite, FS_AddElement DEF ExchangeTypes
    <2>3. leftovers'[v][r] = leftovers[v][r] - 1
        BY <1>2, <1>8, <1>9
    <2>4. leftovers'[v][r] + Cardinality(Owed(v, r)') = leftovers[v][r] + Cardinality(Owed(v, r))
        BY <1>8, <2>2, <2>3
    <2>. QED BY <1>3, <1>7, <2>4
<1>10. CASE ~((v = t /\ r = q) \/ (v = u /\ r = p))
    <2>1. Owed(v, r)' = Owed(v, r)
        BY <1>6, <1>10
    <2>2. leftovers'[v][r] = leftovers[v][r]
        BY <1>2, <1>10
    <2>. QED BY <1>3, <1>7, <2>1, <2>2
<1>. QED BY <1>9, <1>10

\* What two trainers have when they have exchanged.
LEMMA SwappedCounts ==
    ASSUME caught \in [Trainers -> Bags], NEW t \in Trainers, NEW u \in Trainers, t # u,
           NEW p \in Pokemons, NEW q \in Pokemons, p # q, NEW have, have = Swapped(t, p, u, q)
    PROVE  /\ have \in [Trainers -> Bags]
           /\ \A v \in Trainers \ {t, u} : have[v] = caught[v]
           /\ \A r \in Pokemons :
                /\ have[t][r] = (IF r = p THEN (IF caught[t][p] > 0 THEN caught[t][p] - 1 ELSE 0)
                                 ELSE IF r = q THEN caught[t][q] + 1 ELSE caught[t][r])
                /\ have[u][r] = (IF r = q THEN (IF caught[u][q] > 0 THEN caught[u][q] - 1 ELSE 0)
                                 ELSE IF r = p THEN caught[u][p] + 1 ELSE caught[u][r])
<1>1. /\ have \in [Trainers -> Bags]
      /\ have = [caught EXCEPT ![t] = Plus(Minus(caught[t], p), q),
                               ![u] = Plus(Minus(caught[u], q), p)]
    BY SwappedTyped
<1>2. /\ have[t] = Plus(Minus(caught[t], p), q) /\ have[u] = Plus(Minus(caught[u], q), p)
      /\ \A v \in Trainers \ {t, u} : have[v] = caught[v]
    BY <1>1
<1>3. ASSUME NEW b \in Bags, NEW x \in Pokemons, NEW y \in Pokemons, x # y, NEW r \in Pokemons
      PROVE  Plus(Minus(b, x), y)[r] = (IF r = x THEN (IF b[x] > 0 THEN b[x] - 1 ELSE 0)
                                        ELSE IF r = y THEN b[y] + 1 ELSE b[r])
    <2>1. Minus(b, x) \in Bags
        BY <1>3, BagOps
    <2>2. Plus(Minus(b, x), y)[r] = (IF r = y THEN Minus(b, x)[r] + 1 ELSE Minus(b, x)[r])
        BY <1>3, <2>1, BagOps
    <2>3. Minus(b, x)[r] = (IF r = x /\ b[r] > 0 THEN b[r] - 1 ELSE b[r])
        BY <1>3, BagOps
    <2>4. b[x] \in Nat
        BY <1>3 DEF Bags
    <2>. QED BY <1>3, <2>2, <2>3, <2>4
<1>4. caught[t] \in Bags /\ caught[u] \in Bags
    OBVIOUS
<1>. PICK b \in Bags, c \in Bags : b = caught[t] /\ c = caught[u]
    BY <1>4
<1>5. \A r \in Pokemons :
        Plus(Minus(b, p), q)[r] = (IF r = p THEN (IF b[p] > 0 THEN b[p] - 1 ELSE 0)
                                   ELSE IF r = q THEN b[q] + 1 ELSE b[r])
    BY <1>3, SMT
<1>6. q # p
    OBVIOUS
<1>7. \A r \in Pokemons :
        Plus(Minus(c, q), p)[r] = (IF r = q THEN (IF c[q] > 0 THEN c[q] - 1 ELSE 0)
                                   ELSE IF r = p THEN c[p] + 1 ELSE c[r])
    BY <1>3, <1>6, SMT
<1>. QED BY <1>1, <1>2, <1>5, <1>7

\* It is an exchange when both have what they give.
LEMMA SwappedIsExchange ==
    ASSUME caught \in [Trainers -> Bags], NEW t \in Trainers, NEW u \in Trainers, t # u,
           NEW p \in Pokemons, NEW q \in Pokemons, p # q,
           caught[t][p] > 0, caught[u][q] > 0, caught' = Swapped(t, p, u, q)
    PROVE  Exchange!Exchange(t, u, p, q)
<1>1. /\ caught' \in [Trainers -> Bags]
      /\ \A v \in Trainers \ {t, u} : caught'[v] = caught[v]
      /\ \A r \in Pokemons :
            /\ caught'[t][r] = (IF r = p THEN caught[t][p] - 1
                                ELSE IF r = q THEN caught[t][q] + 1 ELSE caught[t][r])
            /\ caught'[u][r] = (IF r = q THEN caught[u][q] - 1
                                ELSE IF r = p THEN caught[u][p] + 1 ELSE caught[u][r])
    BY SwappedCounts
<1>2. PICK b \in Bags, c \in Bags : b = caught[t] /\ c = caught[u]
    OBVIOUS
<1>3. PICK d \in Bags, e \in Bags : d = caught'[t] /\ e = caught'[u]
    BY <1>1
<1>4. d = [b EXCEPT ![p] = b[p] - 1, ![q] = b[q] + 1]
    <2>1. \A r \in Pokemons : d[r] = IF r = p THEN b[p] - 1 ELSE IF r = q THEN b[q] + 1 ELSE b[r]
        BY <1>1, <1>2, <1>3
    <2>. QED BY <2>1 DEF Bags
<1>5. e = [c EXCEPT ![q] = c[q] - 1, ![p] = c[p] + 1]
    <2>1. \A r \in Pokemons : e[r] = IF r = q THEN c[q] - 1 ELSE IF r = p THEN c[p] + 1 ELSE c[r]
        BY <1>1, <1>2, <1>3
    <2>. QED BY <2>1 DEF Bags
<1>6. caught' = [caught EXCEPT ![t] = d, ![u] = e]
    BY <1>1, <1>3
<1>7. caught' = [caught EXCEPT ![t][p] = @ - 1, ![t][q] = @ + 1, ![u][q] = @ - 1, ![u][p] = @ + 1]
    BY <1>2, <1>4, <1>5, <1>6 DEF Bags
<1>. QED BY <1>7 DEF Exchange!Exchange

\* The match a trainer's thread is about to execute.
LEMMA ExchangeIsOwed ==
    ASSUME ExchangeTypes, MatchesInv, Proper, Covered, Relied, NEW t \in Trainers,
           exchange_pokemons(t), NEW m, m = trainer[t].match
    PROVE  /\ m \in Planned /\ executed[m] = 0 /\ ~AfterDirect
           /\ executed'[m] = 1 /\ \A k \in Planned \ {m} : executed'[k] = executed[k]
           /\ \E u, w \in Trainers, p, q \in Pokemons :
                /\ u # w /\ p # q
                /\ matched_deadlocks[m].trainer1 = u /\ matched_deadlocks[m].pokemon1 = p
                /\ matched_deadlocks[m].trainer2 = w /\ matched_deadlocks[m].pokemon2 = q
                /\ m \in Owed(u, p) /\ m \in Owed(w, q)
                /\ caught[u][p] > objective[u][p] /\ caught[w][q] > objective[w][q]
                /\ caught[u][p] > 0 /\ caught[w][q] > 0
                /\ caught' = Swapped(u, p, w, q)
<1>0. SwapTypes /\ trainer[t].pc = "cycle" /\ OneActive /\ OnePlace /\ Settled
    BY DEF ExchangeTypes, exchange_pokemons, MatchesInv, Relied
<1>1. m \in Planned /\ executed[m] = 0
    BY <1>0, PlacesPlanned DEF OnePlace, SwapsOnce, Exchanged
<1>2. ~AfterDirect
    <2>1. Moving(m)
        BY <1>0 DEF Moving, Swaps
    <2>. QED BY <1>0, <1>1, <2>1 DEF Settled, Woken
<1>3. executed'[m] = 1 /\ \A k \in Planned \ {m} : executed'[k] = executed[k]
    <2>1. executed' = [executed EXCEPT ![m] = @ + 1]
        BY DEF exchange_pokemons
    <2>2. DOMAIN executed = Planned
        BY <1>0, LenProperties DEF SwapTypes, Planned
    <2>. QED BY <1>1, <2>1, <2>2
<1>4. PICK u, w \in Trainers, p, q \in Pokemons :
            /\ matched_deadlocks[m].trainer1 = u /\ matched_deadlocks[m].pokemon1 = p
            /\ matched_deadlocks[m].trainer2 = w /\ matched_deadlocks[m].pokemon2 = q
    BY <1>0, <1>1, MatchIsRecord DEF trainer1, trainer2
<1>5. u # w /\ p # q
    BY <1>1, <1>4 DEF Proper, trainer1, trainer2
<1>6. m \in Owed(u, p) /\ m \in Owed(w, q)
    BY <1>1, <1>4 DEF Owed, trainer1, trainer2
<1>7. ASSUME NEW v \in Trainers, NEW r \in Pokemons, m \in Owed(v, r)
      PROVE  caught[v][r] > objective[v][r] /\ caught[v][r] > 0
    <2>1. Beyond(leftovers[v][r] + Cardinality(Owed(v, r)), objective[v][r], caught[v][r])
        BY <1>2 DEF Covered
    <2>2. IsFiniteSet(Owed(v, r)) /\ Cardinality(Owed(v, r)) \in Nat
        BY <1>0, OwedFinite
    <2>3. Cardinality(Owed(v, r)) # 0
        BY <1>7, <2>2, FS_EmptySet
    <2>4. leftovers[v][r] \in Nat /\ caught[v][r] \in Nat /\ objective[v][r] \in Nat
        BY DEF ExchangeTypes, DetectTypes, Bags
    <2>. QED BY <2>1, <2>2, <2>3, <2>4 DEF Beyond
<1>8. caught' = Swapped(u, p, w, q)
    BY <1>4 DEF exchange_pokemons
<1>9. /\ caught[u][p] > objective[u][p] /\ caught[w][q] > objective[w][q]
      /\ caught[u][p] > 0 /\ caught[w][q] > 0
    BY <1>6, <1>7
<1>. QED BY <1>1, <1>2, <1>3, <1>4, <1>5, <1>6, <1>8, <1>9

\* An executed match pays one debt with one pokemon.
LEMMA ExchangedCovered ==
    ASSUME ExchangeTypes, MatchesInv, Proper, Covered, [Next]_vars,
           NEW t \in Trainers, exchange_pokemons(t)
    PROVE  Covered'
<1>. SUFFICES ASSUME Relied', ~AfterDirect', NEW v \in Trainers, NEW r \in Pokemons
              PROVE  Beyond(leftovers'[v][r] + Cardinality(Owed(v, r)'), objective'[v][r],
                            caught'[v][r])
    BY DEF Covered
<1>1. /\ Relied /\ objective' = objective
      /\ Beyond(leftovers[v][r] + Cardinality(Owed(v, r)), objective[v][r], caught[v][r])
    BY PromiseIsOff, StartsStay DEF Covered, startVars
<1>2. PICK m : m = trainer[t].match
    OBVIOUS
<1>3. /\ m \in Planned /\ executed[m] = 0 /\ executed'[m] = 1
      /\ \A k \in Planned \ {m} : executed'[k] = executed[k]
    BY <1>1, <1>2, ExchangeIsOwed
<1>4. PICK u, w \in Trainers, p, q \in Pokemons :
        /\ u # w /\ p # q
        /\ m \in Owed(u, p) /\ m \in Owed(w, q)
        /\ caught[u][p] > 0 /\ caught[w][q] > 0
        /\ caught' = Swapped(u, p, w, q)
    BY <1>1, <1>2, ExchangeIsOwed, SMT
<1>5. UNCHANGED <<leftovers, matched_deadlocks>>
    BY TrainerFrame DEF TrainerThread, detectVars
<1>6. Owed(v, r)' = Owed(v, r) \ {m}
    BY <1>3, <1>5 DEF Owed, Planned, trainer1, trainer2
<1>7. /\ IsFiniteSet(Owed(v, r)) /\ Cardinality(Owed(v, r)) \in Nat
      /\ Cardinality(Owed(v, r)') =
            IF m \in Owed(v, r) THEN Cardinality(Owed(v, r)) - 1 ELSE Cardinality(Owed(v, r))
    BY <1>6, OwedFinite, FS_RemoveElement DEF ExchangeTypes
<1>8. leftovers[v][r] \in Nat /\ caught[v][r] \in Nat /\ objective[v][r] \in Nat
      /\ caught \in [Trainers -> Bags] /\ caught[u][p] \in Nat /\ caught[w][q] \in Nat /\ caught[u][q] \in Nat /\ caught[w][p] \in Nat
    BY DEF ExchangeTypes, DetectTypes, Bags
<1>9. /\ \A x \in Trainers \ {u, w} : caught'[x] = caught[x]
      /\ \A s \in Pokemons :
            /\ caught'[u][s] = (IF s = p THEN (IF caught[u][p] > 0 THEN caught[u][p] - 1 ELSE 0)
                                ELSE IF s = q THEN caught[u][q] + 1 ELSE caught[u][s])
            /\ caught'[w][s] = (IF s = q THEN (IF caught[w][q] > 0 THEN caught[w][q] - 1 ELSE 0)
                                ELSE IF s = p THEN caught[w][p] + 1 ELSE caught[w][s])
    BY <1>4, <1>8, SwappedCounts
<1>10. CASE (v = u /\ r = p) \/ (v = w /\ r = q)
    <2>1. m \in Owed(v, r) /\ caught'[v][r] = caught[v][r] - 1
        BY <1>4, <1>9, <1>10
    <2>2. Cardinality(Owed(v, r)) # 0
        BY <1>7, <2>1, FS_EmptySet
    <2>. QED BY <1>1, <1>5, <1>7, <1>8, <2>1, <2>2 DEF Beyond
<1>11. CASE ~((v = u /\ r = p) \/ (v = w /\ r = q))
    <2>1. caught'[v][r] = caught[v][r] \/ caught'[v][r] = caught[v][r] + 1
        BY <1>9, <1>11
    <2>2. PICK l \in Nat, d \in Nat, o \in Nat, n \in Nat :
            /\ l = leftovers[v][r] /\ d = Cardinality(Owed(v, r))
            /\ o = objective[v][r] /\ n = caught[v][r]
        BY <1>7, <1>8
    <2>3. PICK d1 \in Nat : d1 = Cardinality(Owed(v, r)') /\ d1 <= d
        <3>1. IsFiniteSet(Owed(v, r)') /\ Cardinality(Owed(v, r)') <= Cardinality(Owed(v, r))
            BY <1>6, <1>7, FS_Subset
        <3>. QED BY <2>2, <3>1, FS_CardinalityType
    <2>4. Beyond(l + d, o, n) => Beyond(l + d1, o, n) /\ Beyond(l + d1, o, n + 1)
        BY <2>3 DEF Beyond
    <2>5. /\ Beyond(l + d, o, n) /\ leftovers'[v][r] = l /\ objective'[v][r] = o
          /\ caught'[v][r] = n \/ caught'[v][r] = n + 1
        BY <1>1, <1>5, <2>1, <2>2
    <2>. QED BY <2>3, <2>4, <2>5
<1>. QED BY <1>10, <1>11

\* Every step keeps every debt covered.
LEMMA NextCovered ==
    ASSUME ExchangeTypes, MatchesInv, Searches, Proper, Covered, [Next]_vars
    PROVE  Covered'
<1>1. CASE GiveMeMyPokemonsDude
    <2>1. AfterDirect
        BY <1>1 DEF GiveMeMyPokemonsDude, AfterDirect
    <2>. QED BY <2>1, PromiseIsOff DEF Covered
<1>2. CASE \E t \in Trainers : BeginSearch(t)
    BY <1>2, BegunCovered
<1>3. CASE \E t \in Trainers : AddMatch(t)
    BY <1>3, AddedCovered
<1>4. CASE \E t \in Trainers : exchange_pokemons(t)
    BY <1>4, ExchangedCovered
<1>5. CASE /\ ~GiveMeMyPokemonsDude
           /\ \A t \in Trainers : ~BeginSearch(t) /\ ~AddMatch(t) /\ ~exchange_pokemons(t)
    <2>1. UNCHANGED <<leftovers, caught, executed, matched_deadlocks>>
        BY <1>5, NothingMoves
    <2>. QED BY <2>1, NothingMovedCovered
<1>. QED BY <1>1, <1>2, <1>3, <1>4, <1>5

-----------------------------------------------------------------------------
(* main's exchanges.                                                        *)

\* What main takes and gives.
LEMMA MainExchanges ==
    ASSUME ExchangeTypes, MainKnows, GiveMeMyPokemonsDude, ~crossed
    PROVE  \E p, q \in Pokemons :
            /\ p # q /\ caught[main.i][q] > 0 /\ caught[Other][p] > 0
            /\ caught[main.i][q] > objective[main.i][q] /\ caught[Other][p] > objective[Other][p]
            /\ caught[main.i][p] < objective[main.i][p]
            /\ caught' = Swapped(main.i, q, Other, p)
            /\ main'.leftovers = Minus(main.leftovers, q)
            /\ main'.remaining = Minus(main.remaining, p)
            /\ main'.i = main.i
<1>1. /\ main.pc = "compare" /\ main \in MainState /\ main.i \in Trainers
      /\ Other \in Trainers /\ caught \in [Trainers -> Bags] /\ objective \in [Trainers -> Bags]
    BY OtherIsTrainer DEF GiveMeMyPokemonsDude, ExchangeTypes, MainTypes, DetectTypes
<1>2. PICK p \in INeed, q \in IF ItNeeds # {} THEN ItNeeds ELSE Species(main.leftovers) :
        /\ caught' = Swapped(main.i, q, Other, p)
        /\ \E w : main' = [main EXCEPT !.leftovers = Minus(@, q), !.remaining = Minus(@, p),
                                       !.with = w]
    BY DEF GiveMeMyPokemonsDude
<1>3. /\ p \in Pokemons /\ q \in Pokemons /\ main.remaining[p] > 0 /\ main.leftovers[q] > 0
      /\ caught[Other][p] > objective[Other][p]
    BY DEF INeed, ItNeeds, Species
<1>4. /\ main.leftovers[q] = Over(caught[main.i][q], objective[main.i][q])
      /\ main.remaining[p] = Over(objective[main.i][p], caught[main.i][p])
    BY <1>1, <1>3 DEF MainKnows
<1>5. /\ caught[main.i][q] \in Nat /\ objective[main.i][q] \in Nat
      /\ caught[main.i][p] \in Nat /\ objective[main.i][p] \in Nat
      /\ caught[Other][p] \in Nat /\ objective[Other][p] \in Nat
    BY <1>1, <1>3 DEF Bags
<1>6. /\ p # q /\ caught[main.i][q] > 0 /\ caught[Other][p] > 0
      /\ caught[main.i][q] > objective[main.i][q] /\ caught[main.i][p] < objective[main.i][p]
    <2>1. caught[main.i][q] > objective[main.i][q]
        BY <1>3, <1>4, <1>5 DEF Over
    <2>2. caught[main.i][p] < objective[main.i][p]
        BY <1>3, <1>4, <1>5 DEF Over
    <2>. QED BY <1>3, <1>5, <2>1, <2>2
<1>7. /\ main'.leftovers = Minus(main.leftovers, q) /\ main'.remaining = Minus(main.remaining, p)
      /\ main'.i = main.i
    BY <1>1, <1>2 DEF MainState
<1>. QED BY <1>2, <1>3, <1>6, <1>7

\* What main believes a trainer to have too much of, it has.
LEMMA NextMainKnows ==
    ASSUME ExchangeTypes, MatchesInv, MainKnows, [Next]_vars
    PROVE  MainKnows'
<1>. SUFFICES ASSUME ~crossed', main'.pc = "compare", NEW r \in Pokemons
              PROVE  /\ main'.leftovers[r] = Over(caught'[main'.i][r], objective'[main'.i][r])
                     /\ main'.remaining[r] = Over(objective'[main'.i][r], caught'[main'.i][r])
    BY DEF MainKnows
<1>0. /\ main \in MainState /\ (main.pc = "compare" => main.i \in Trainers)
      /\ caught \in [Trainers -> Bags] /\ objective \in [Trainers -> Bags] /\ SwapTypes
      /\ objective' = objective
    BY StartsStay DEF ExchangeTypes, MainTypes, DetectTypes, startVars
<1>1. ASSUME UNCHANGED caught, ~crossed, main.pc = "compare",
             main'.leftovers = main.leftovers, main'.remaining = main.remaining, main'.i = main.i
      PROVE  /\ main'.leftovers[r] = Over(caught'[main'.i][r], objective'[main'.i][r])
             /\ main'.remaining[r] = Over(objective'[main'.i][r], caught'[main'.i][r])
    BY <1>0, <1>1 DEF MainKnows
<1>2. CASE GiveMeMyPokemonsDude
    <2>1. ~crossed /\ main.pc = "compare" /\ Other \in Trainers /\ Other # main.i
        BY <1>2, OtherIsTrainer DEF GiveMeMyPokemonsDude, ResolveFrame, ExchangeTypes
    <2>2. PICK p, q \in Pokemons :
            /\ p # q /\ caught[main.i][q] > 0
            /\ caught[main.i][q] > objective[main.i][q] /\ caught[main.i][p] < objective[main.i][p]
            /\ caught' = Swapped(main.i, q, Other, p)
            /\ main'.leftovers = Minus(main.leftovers, q)
            /\ main'.remaining = Minus(main.remaining, p)
            /\ main'.i = main.i
        BY <1>2, <2>1, MainExchanges
    <2>3. caught'[main.i][r] = (IF r = q THEN caught[main.i][q] - 1
                                ELSE IF r = p THEN caught[main.i][p] + 1 ELSE caught[main.i][r])
        BY <1>0, <2>1, <2>2, SwappedCounts
    <2>4. /\ main.leftovers[r] = Over(caught[main.i][r], objective[main.i][r])
          /\ main.remaining[r] = Over(objective[main.i][r], caught[main.i][r])
        BY <2>1 DEF MainKnows
    <2>5. main.leftovers \in Bags /\ main.remaining \in Bags /\ caught[main.i] \in Bags
        BY <1>0, <2>1 DEF MainState
    <2>6. /\ main'.leftovers[r] = (IF r = q /\ main.leftovers[r] > 0 THEN main.leftovers[r] - 1
                                   ELSE main.leftovers[r])
          /\ main'.remaining[r] = (IF r = p /\ main.remaining[r] > 0 THEN main.remaining[r] - 1
                                   ELSE main.remaining[r])
        <3>. PICK l \in Bags, k \in Bags : l = main.leftovers /\ k = main.remaining
            BY <2>5
        <3>1. \A b \in Bags, x, y \in Pokemons :
                Minus(b, x)[y] = (IF y = x /\ b[y] > 0 THEN b[y] - 1 ELSE b[y])
            BY BagOps, ZenonT(30)
        <3>2. /\ Minus(l, q)[r] = (IF r = q /\ l[r] > 0 THEN l[r] - 1 ELSE l[r])
              /\ Minus(k, p)[r] = (IF r = p /\ k[r] > 0 THEN k[r] - 1 ELSE k[r])
            BY <3>1
        <3>. QED BY <2>2, <3>2
    <2>7. PICK n \in Nat, k \in Nat : n = caught[main.i][r] /\ k = objective[main.i][r]
        BY <1>0, <2>1, <2>5 DEF Bags
    <2>8. \/ r = q /\ n > k /\ caught'[main.i][r] = n - 1
          \/ r = p /\ r # q /\ n < k /\ caught'[main.i][r] = n + 1
          \/ r # p /\ r # q /\ caught'[main.i][r] = n
        BY <2>2, <2>3, <2>7
    <2>9. main'.i = main.i /\ objective'[main.i][r] = k
        BY <1>0, <2>2, <2>7
    <2>10. CASE r = q
        <3>1. /\ n > k /\ main.leftovers[r] = n - k /\ main.remaining[r] = 0
            BY <2>4, <2>7, <2>8, <2>2, <2>10 DEF Over
        <3>2. main'.leftovers[r] = n - k - 1 /\ main'.remaining[r] = 0
            BY <2>2, <2>6, <2>10, <3>1
        <3>3. Over(n - 1, k) = n - k - 1 /\ Over(k, n - 1) = 0
            BY <3>1 DEF Over
        <3>. QED BY <2>2, <2>8, <2>9, <2>10, <3>2, <3>3
    <2>11. CASE r = p
        <3>1. /\ n < k /\ main.leftovers[r] = 0 /\ main.remaining[r] = k - n
            BY <2>4, <2>7, <2>8, <2>2, <2>11 DEF Over
        <3>2. main'.leftovers[r] = 0 /\ main'.remaining[r] = k - n - 1
            BY <2>2, <2>6, <2>11, <3>1
        <3>3. Over(n + 1, k) = 0 /\ Over(k, n + 1) = k - n - 1
            BY <3>1 DEF Over
        <3>. QED BY <2>2, <2>8, <2>9, <2>11, <3>2, <3>3
    <2>12. CASE r # q /\ r # p
        BY <2>4, <2>6, <2>7, <2>8, <2>9, <2>12
    <2>. QED BY <2>10, <2>11, <2>12
<1>3. CASE TakeNext
    <2>1. PICK t : t = Min(After(main.i, main.deadlocked))
        OBVIOUS
    <2>2. /\ After(main.i, main.deadlocked) # {} /\ UNCHANGED caught
          /\ main' = [main EXCEPT !.pc = "compare", !.i = t, !.with = Nobody,
                        !.leftovers = get_dictionary_difference(caught[t], objective[t]),
                        !.remaining = get_dictionary_difference(objective[t], caught[t])]
        BY <1>0, <1>3, <2>1 DEF TakeNext, MainState
    <2>3. t \in Trainers
        <3>1. After(main.i, main.deadlocked) \in SUBSET Nat
              /\ After(main.i, main.deadlocked) \subseteq Trainers
            BY <1>0, BoundsAreNat DEF After, MainState, Trainers
        <3>. QED BY <2>1, <2>2, <3>1, MinIsElement
    <2>4. /\ main'.i = t
          /\ main'.leftovers = get_dictionary_difference(caught[t], objective[t])
          /\ main'.remaining = get_dictionary_difference(objective[t], caught[t])
        BY <1>0, <2>2 DEF MainState
    <2>5. caught[t] \in Bags /\ objective[t] \in Bags
        BY <1>0, <2>3
    <2>6. /\ main'.leftovers[r] = Over(caught[t][r], objective[t][r])
          /\ main'.remaining[r] = Over(objective[t][r], caught[t][r])
        BY <2>4, <2>5, DifferenceCounts
    <2>. QED BY <1>0, <2>2, <2>4, <2>6
<1>4. CASE MainThread /\ ~GiveMeMyPokemonsDude /\ ~TakeNext
    <2>1. NothingToTake
        BY <1>0, <1>4 DEF MainThread, CreateTrainer, ListTrainer, InitSem, AllCaught, Proceed,
               IterateMatch, AllIterated, DirectDone, Gather, MainState
    <2>2. /\ UNCHANGED <<caught, crossed>> /\ main.pc = "compare" /\ main'.leftovers = main.leftovers
          /\ main'.remaining = main.remaining /\ main'.i = main.i
        BY <1>0, <2>1 DEF NothingToTake, ResolveFrame, MainState
    <2>. QED BY <1>1, <2>2
<1>5. CASE UNCHANGED vars
    BY <1>1, <1>5 DEF vars
<1>6. CASE Plan
    BY <1>1, <1>6 DEF Plan
<1>7. ASSUME NEW t \in Trainers, Finisher(t)
      PROVE  UNCHANGED <<main, crossed, caught>>
    BY <1>7, FinisherThreads
<1>8. ASSUME NEW t \in Trainers, TrainerThread(t)
      PROVE  UNCHANGED <<main, crossed, caught>>
    <2>1. UNCHANGED <<main, crossed>>
        BY <1>8, TrainerFrame
    <2>2. ~exchange_pokemons(t)
        <3>1. SUFFICES ASSUME exchange_pokemons(t) PROVE FALSE
            OBVIOUS
        <3>2. ~crossed /\ AfterDirect
            BY <2>1 DEF AfterDirect
        <3>3. trainer[t].pc = "cycle" /\ trainer[t].match \in Planned
            BY <1>0, <3>1 DEF exchange_pokemons, SwapTypes
        <3>4. Moving(trainer[t].match)
            BY <3>3 DEF Moving, Swaps
        <3>. QED BY <3>2, <3>3, <3>4 DEF MatchesInv, Settled, Woken
    <2>3. \/ StartSwap(t) \/ GoOn(t) \/ desalojar(t) \/ Requeue(t) \/ Resume(t)
          \/ validate_state_trainer(t) \/ FinishSwap(t)
        BY <1>8, <2>2 DEF TrainerThread
    <2>4. UNCHANGED caught
        BY <2>3 DEF StartSwap, GoOn, desalojar, Requeue, Resume, validate_state_trainer, Validate,
               FinishSwap
    <2>. QED BY <2>1, <2>4
<1>9. ASSUME NEW m \in DOMAIN matched_deadlocks, WaitStatus(m)
      PROVE  UNCHANGED <<main, crossed, caught>>
    BY <1>9 DEF WaitStatus, CheckStatus, LockDeadlock, QueueMatch, WaiterFrame
<1>. QED BY <1>1, <1>2, <1>3, <1>4, <1>5, <1>6, <1>7, <1>8, <1>9 DEF Next

-----------------------------------------------------------------------------
(* The refinement.                                                          *)

ExchangeInv ==
    ExchangeTypes /\ NoLateMatch /\ MatchesInv /\ Searches /\ Proper /\ Covered /\ MainKnows

\* Before any trainer is full nobody owes anything.
LEMMA InitExchangeInv ==
    ASSUME Init
    PROVE  ExchangeInv
<1>1. ExchangeTypes /\ NoLateMatch /\ MatchesInv
    BY InitTypes
<1>2. Planned = {}
    <2>1. matched_deadlocks = <<>>
        BY DEF Init
    <2>. QED BY <2>1, EmptySeq DEF Planned
<1>3. Waiting = {}
    <2>1. to_deadlock = <<>>
        BY DEF Init
    <2>. QED BY <2>1, EmptySeq DEF Waiting
<1>4. Searches
    BY <1>2, <1>3 DEF Init, Searches, SearchOf
<1>5. Proper
    BY <1>2 DEF Proper
<1>6. Covered
    <2>1. \A t, p : Owed(t, p) = {}
        BY <1>2 DEF Owed
    <2>2. \A t \in Trainers, p \in Pokemons : leftovers[t][p] = 0
        BY DEF Init, Empty
    <2>3. \A t, p : Cardinality(Owed(t, p)) = 0
        BY <2>1, FS_EmptySet
    <2>. QED BY <2>2, <2>3 DEF Covered, Beyond
<1>7. MainKnows
    BY DEF Init, MainKnows
<1>. QED BY <1>1, <1>4, <1>5, <1>6, <1>7 DEF ExchangeInv

\* The invariant is inductive.
LEMMA NextExchangeInv ==
    ASSUME ExchangeInv, [Next]_vars
    PROVE  ExchangeInv'
BY NextExchangeTypes, NextNoLateMatch, NextMatchesInv, NextSearches, NextProper, NextCovered,
   NextMainKnows DEF ExchangeInv

\* Every step is one of PokemonExchange, or leaves what it speaks of as it was.
LEMMA NextIsExchange ==
    ASSUME ExchangeInv, [Next]_vars
    PROVE  [Exchange!Next]_(Exchange!vars)
<1>. USE DEF ExchangeInv
<1>0. /\ caught \in [Trainers -> Bags] /\ caught' \in [Trainers -> Bags]
      /\ Relied \in BOOLEAN /\ Relied' \in BOOLEAN
    BY NextExchangeTypes DEF ExchangeTypes, MainTypes, Relied
<1>1. Relied' => Relied
    BY PromiseIsOff
<1>2. CASE UNCHANGED caught
    <2>1. CASE Relied /\ ~Relied'
        BY <1>2, <2>1 DEF Exchange!Next, Exchange!BecomeUnsound
    <2>2. CASE Relied' = Relied
        BY <1>2, <2>2 DEF Exchange!vars
    <2>. QED BY <1>0, <1>1, <2>1, <2>2
<1>3. CASE ~Relied
    BY <1>0, <1>1, <1>3 DEF Exchange!Next, Exchange!Unsound, Bags
<1>4. ASSUME Relied, NEW t \in Trainers, NEW u \in Trainers, NEW p \in Pokemons, NEW q \in Pokemons,
             t # u, p # q, caught[t][p] > 0, caught[u][q] > 0, caught' = Swapped(t, p, u, q)
      PROVE  Exchange!Next
    <2>1. Exchange!Exchange(t, u, p, q)
        BY <1>0, <1>4, SwappedIsExchange
    <2>. QED BY <1>0, <1>4, <2>1 DEF Exchange!Next, Exchange!Sound
<1>5. CASE Relied /\ GiveMeMyPokemonsDude
    <2>1. /\ ~crossed /\ Other \in Trainers /\ Other # main.i /\ main.i \in Trainers
        BY <1>5, OtherIsTrainer DEF GiveMeMyPokemonsDude, Relied, ExchangeTypes, MainTypes
    <2>2. PICK p, q \in Pokemons :
            /\ p # q /\ caught[main.i][q] > 0 /\ caught[Other][p] > 0
            /\ caught' = Swapped(main.i, q, Other, p)
        BY <1>5, <2>1, MainExchanges
    <2>. QED BY <1>4, <1>5, <2>1, <2>2
<1>6. ASSUME Relied, NEW t \in Trainers, exchange_pokemons(t) PROVE Exchange!Next
    <2>1. PICK m : m = trainer[t].match
        OBVIOUS
    <2>2. PICK u, w \in Trainers, p, q \in Pokemons :
            /\ u # w /\ p # q /\ caught[u][p] > 0 /\ caught[w][q] > 0
            /\ caught' = Swapped(u, p, w, q)
        BY <1>6, <2>1, ExchangeIsOwed, SMT
    <2>. QED BY <1>4, <1>6, <2>2
<1>7. \/ UNCHANGED caught \/ GiveMeMyPokemonsDude
      \/ \E t \in Trainers : exchange_pokemons(t)
    BY NextCaught DEF vars
<1>. QED BY <1>2, <1>3, <1>5, <1>6, <1>7

\* What the exchanges of a Team do to what its trainers have is what PokemonExchange promises:
\* as long as no two searches promised the same pokemon and no match was planned for a trainer
\* preempted in another, every step that moves pokemons (exchange_pokemons, team.c:476, and
\* main's give_me_my_pokemons_dude, resolver.c:86) swaps one pokemon of two trainers that have
\* them, so that nobody gives what it has not and no pokemon appears or disappears.
THEOREM RefinesExchange == Spec => ImplementsExchange
<1>1. Init => ExchangeInv
    BY InitExchangeInv
<1>2. ExchangeInv /\ [Next]_vars => ExchangeInv'
    BY NextExchangeInv
<1>3. Init => Exchange!Init
    BY InitExchangeInv DEF Init, Exchange!Init, ExchangeInv, ExchangeTypes, Bags, Relied
<1>4. ExchangeInv /\ [Next]_vars => [Exchange!Next]_(Exchange!vars)
    BY NextIsExchange
<1>. QED BY <1>1, <1>2, <1>3, <1>4, PTL DEF Spec, ImplementsExchange, Exchange!Spec

-----------------------------------------------------------------------------
(* What an exchange does not change: how many a trainer has, and how many of a *)
(* species there are.                                                        *)

\* Every trainer has as many as it wants, and the team of every species.
Kept ==
    Relied =>
        /\ \A t \in Trainers : Total(caught[t]) = Total(objective[t])
        /\ \A p \in Pokemons : TeamTotal(caught, p) = TeamTotal(objective, p)

\* A trainer that has nothing too much of anything has what it wants.
LEMMA NothingLeftOver ==
    ASSUME NEW b \in Bags, NEW c \in Bags, Total(b) = Total(c),
           \A p \in Pokemons : b[p] <= c[p]
    PROVE  b = c
<1>1. \A p \in Pokemons : b[p] \in Nat /\ c[p] \in Nat /\ b[p] <= c[p]
    BY DEF Bags
<1>2. \A p \in Pokemons : b[p] = c[p]
    BY <1>1, SumBounded, FiniteTeams DEF Total
<1>. QED BY <1>2 DEF Bags

\* So does one that lacks nothing.
LEMMA NothingLacks ==
    ASSUME NEW b \in Bags, NEW c \in Bags, Total(b) = Total(c),
           \A p \in Pokemons : c[p] <= b[p]
    PROVE  b = c
BY NothingLeftOver

\* And one whose dictionaries have no difference.
LEMMA NoDifference ==
    ASSUME NEW b \in Bags, NEW c \in Bags, Total(b) = Total(c),
           get_dictionary_difference(b, c) = Empty
    PROVE  b = c
<1>1. ASSUME NEW p \in Pokemons PROVE b[p] <= c[p]
    <2>1. Over(b[p], c[p]) = 0
        BY DifferenceCounts DEF Empty
    <2>2. b[p] \in Nat /\ c[p] \in Nat
        BY DEF Bags
    <2>. QED BY <2>1, <2>2 DEF Over
<1>. QED BY <1>1, NothingLeftOver

\* What two trainers swap is counted in the same sums before and after.
LEMMA SwappedTotals ==
    ASSUME caught \in [Trainers -> Bags], NEW t \in Trainers, NEW u \in Trainers, t # u,
           NEW p \in Pokemons, NEW q \in Pokemons, p # q, NEW have, have = Swapped(t, p, u, q),
           caught[t][p] > 0, caught[u][q] > 0
    PROVE  /\ \A v \in Trainers : Total(have[v]) = Total(caught[v])
           /\ \A r \in Pokemons : TeamTotal(have, r) = TeamTotal(caught, r)
<1>1. /\ have \in [Trainers -> Bags]
      /\ \A v \in Trainers \ {t, u} : have[v] = caught[v]
      /\ \A r \in Pokemons :
            /\ have[t][r] = (IF r = p THEN caught[t][p] - 1
                             ELSE IF r = q THEN caught[t][q] + 1 ELSE caught[t][r])
            /\ have[u][r] = (IF r = q THEN caught[u][q] - 1
                             ELSE IF r = p THEN caught[u][p] + 1 ELSE caught[u][r])
    BY SwappedCounts
<1>2. \A v \in Trainers, r \in Pokemons : have[v][r] \in Nat /\ caught[v][r] \in Nat
    BY <1>1 DEF Bags
<1>3. ASSUME NEW v \in Trainers, NEW x \in Pokemons, NEW y \in Pokemons, x # y,
             have[v][x] + 1 = caught[v][x], have[v][y] = caught[v][y] + 1,
             \A r \in Pokemons \ {x, y} : have[v][r] = caught[v][r]
      PROVE  Total(have[v]) = Total(caught[v])
    <2>1. PICK f, e : f = caught[v] /\ e = have[v]
        OBVIOUS
    <2>2. \A r \in Pokemons : f[r] \in Nat /\ e[r] \in Nat
        BY <1>2, <2>1
    <2>3. e[x] + 1 = f[x] /\ e[y] = f[y] + 1 /\ \A r \in Pokemons \ {x, y} : e[r] = f[r]
        BY <1>3, <2>1
    <2>4. SumFunctionOnSet(e, Pokemons) = SumFunctionOnSet(f, Pokemons)
        BY <1>3, <2>2, <2>3, FiniteTeams, SumOfMoved
    <2>. QED BY <2>1, <2>4 DEF Total
<1>4. /\ have[t][p] + 1 = caught[t][p] /\ have[t][q] = caught[t][q] + 1
      /\ have[u][q] + 1 = caught[u][q] /\ have[u][p] = caught[u][p] + 1
      /\ \A r \in Pokemons \ {p, q} : have[t][r] = caught[t][r] /\ have[u][r] = caught[u][r]
    BY <1>1, <1>2
<1>5. Total(have[t]) = Total(caught[t])
    BY <1>3, <1>4
<1>6. Total(have[u]) = Total(caught[u])
    BY <1>3, <1>4
<1>7. IsFiniteSet(Trainers)
    BY BoundsAreNat, FS_Interval DEF Trainers
<1>8. ASSUME NEW r \in Pokemons PROVE TeamTotal(have, r) = TeamTotal(caught, r)
    <2>1. PICK f : f = [v \in Trainers |-> caught[v][r]]
        OBVIOUS
    <2>2. PICK e : e = [v \in Trainers |-> have[v][r]]
        OBVIOUS
    <2>3. \A v \in Trainers : f[v] = caught[v][r] /\ e[v] = have[v][r]
        BY <2>1, <2>2
    <2>4. \A v \in Trainers : f[v] \in Nat /\ e[v] \in Nat
        BY <1>2, <2>3
    <2>5. \A v \in Trainers \ {t, u} : e[v] = f[v]
        BY <1>1, <2>3
    <2>6. CASE r = p
        <3>1. e[t] + 1 = f[t] /\ e[u] = f[u] + 1
            BY <1>4, <2>3, <2>6
        <3>2. SumFunctionOnSet(e, Trainers) = SumFunctionOnSet(f, Trainers)
            BY <1>7, <2>4, <2>5, <3>1, SumOfMoved
        <3>. QED BY <2>1, <2>2, <3>2 DEF TeamTotal
    <2>7. CASE r = q
        <3>1. e[u] + 1 = f[u] /\ e[t] = f[t] + 1 /\ \A v \in Trainers \ {u, t} : e[v] = f[v]
            BY <1>4, <2>3, <2>5, <2>7
        <3>2. SumFunctionOnSet(e, Trainers) = SumFunctionOnSet(f, Trainers)
            BY <1>7, <2>4, <3>1, SumOfMoved
        <3>. QED BY <2>1, <2>2, <3>2 DEF TeamTotal
    <2>8. CASE r # p /\ r # q
        <3>1. \A v \in Trainers : f[v] \in Nat /\ f[v] = e[v]
            BY <1>4, <2>3, <2>4, <2>5, <2>8
        <3>2. SumFunctionOnSet(f, Trainers) = SumFunctionOnSet(e, Trainers)
            BY <1>7, <3>1, SumAgrees
        <3>. QED BY <2>1, <2>2, <3>2 DEF TeamTotal
    <2>. QED BY <2>6, <2>7, <2>8
<1>9. \A v \in Trainers : Total(have[v]) = Total(caught[v])
    BY <1>1, <1>5, <1>6
<1>. QED BY <1>8, <1>9

\* What moves pokemons, as long as the promise holds: two trainers swap what they have too
\* much of.
LEMMA OnlyExchanges ==
    ASSUME ExchangeInv, Relied, [Next]_vars
    PROVE  \/ UNCHANGED caught
           \/ \E t, u \in Trainers : \E p, q \in Pokemons :
                /\ t # u /\ p # q
                /\ caught[t][p] > objective[t][p] /\ caught[u][q] > objective[u][q]
                /\ caught[t][p] > 0 /\ caught[u][q] > 0
                /\ caught' = Swapped(t, p, u, q)
<1>. USE DEF ExchangeInv
<1>1. \/ UNCHANGED caught \/ GiveMeMyPokemonsDude
      \/ \E t \in Trainers : exchange_pokemons(t)
    BY NextCaught DEF vars
<1>2. CASE GiveMeMyPokemonsDude
    <2>1. /\ ~crossed /\ Other \in Trainers /\ Other # main.i /\ main.i \in Trainers
        BY <1>2, OtherIsTrainer DEF GiveMeMyPokemonsDude, Relied, ExchangeTypes, MainTypes
    <2>2. PICK p, q \in Pokemons :
            /\ p # q /\ caught[main.i][q] > 0 /\ caught[Other][p] > 0
            /\ caught[main.i][q] > objective[main.i][q] /\ caught[Other][p] > objective[Other][p]
            /\ caught' = Swapped(main.i, q, Other, p)
        BY <1>2, <2>1, MainExchanges
    <2>. QED BY <2>1, <2>2
<1>3. ASSUME NEW t \in Trainers, exchange_pokemons(t)
      PROVE  \E v, u \in Trainers : \E p, q \in Pokemons :
                /\ v # u /\ p # q
                /\ caught[v][p] > objective[v][p] /\ caught[u][q] > objective[u][q]
                /\ caught[v][p] > 0 /\ caught[u][q] > 0
                /\ caught' = Swapped(v, p, u, q)
    <2>1. PICK m : m = trainer[t].match
        OBVIOUS
    <2>2. PICK u, w \in Trainers, p, q \in Pokemons :
            /\ u # w /\ p # q
            /\ caught[u][p] > objective[u][p] /\ caught[w][q] > objective[w][q]
            /\ caught[u][p] > 0 /\ caught[w][q] > 0
            /\ caught' = Swapped(u, p, w, q)
        BY <1>3, <2>1, ExchangeIsOwed, SMT
    <2>. QED BY <2>2
<1>. QED BY <1>1, <1>2, <1>3

\* So the sums stay as they are.
LEMMA NextKept ==
    ASSUME ExchangeInv, Kept, [Next]_vars
    PROVE  Kept'
<1>. SUFFICES ASSUME Relied'
              PROVE  /\ \A t \in Trainers : Total(caught'[t]) = Total(objective'[t])
                     /\ \A p \in Pokemons : TeamTotal(caught', p) = TeamTotal(objective', p)
    BY DEF Kept, Total, TeamTotal
<1>1. Relied /\ objective' = objective /\ caught \in [Trainers -> Bags]
    BY PromiseIsOff, StartsStay DEF ExchangeInv, ExchangeTypes, startVars
<1>2. /\ \A t \in Trainers : Total(caught[t]) = Total(objective[t])
      /\ \A p \in Pokemons : TeamTotal(caught, p) = TeamTotal(objective, p)
    BY <1>1 DEF Kept
<1>3. CASE UNCHANGED caught
    BY <1>1, <1>2, <1>3
<1>4. ASSUME NEW t \in Trainers, NEW u \in Trainers, NEW p \in Pokemons, NEW q \in Pokemons,
             t # u, p # q, caught[t][p] > 0, caught[u][q] > 0, caught' = Swapped(t, p, u, q)
      PROVE  /\ \A v \in Trainers : Total(caught'[v]) = Total(caught[v])
             /\ \A r \in Pokemons : TeamTotal(caught', r) = TeamTotal(caught, r)
    BY <1>1, <1>4, SwappedTotals
<1>. QED BY <1>1, <1>2, <1>3, <1>4, OnlyExchanges

\* Who has what it wants has no part in an exchange.
LEMMA SatisfiedStays ==
    ASSUME ExchangeInv, Relied, [Next]_vars, NEW v \in Trainers, caught[v] = objective[v]
    PROVE  caught'[v] = caught[v]
<1>1. caught \in [Trainers -> Bags] /\ objective \in [Trainers -> Bags]
    BY DEF ExchangeInv, ExchangeTypes, DetectTypes
<1>2. ASSUME NEW t \in Trainers, NEW u \in Trainers, NEW p \in Pokemons, NEW q \in Pokemons,
             t # u, p # q, caught[t][p] > objective[t][p], caught[u][q] > objective[u][q],
             caught' = Swapped(t, p, u, q)
      PROVE  caught'[v] = caught[v]
    <2>1. v # t /\ v # u
        <3>1. \A r \in Pokemons : ~(caught[v][r] > objective[v][r])
            BY <1>1 DEF Bags
        <3>. QED BY <1>2, <3>1
    <2>. QED BY <1>1, <1>2, <2>1, SwappedCounts
<1>. QED BY <1>2, OnlyExchanges

-----------------------------------------------------------------------------
(* Who leaves has what it wants.                                            *)

\* The steps that make a trainer leave.
Leaves(u) ==
    \/ HasObjective(u)
    \/ Satisfied(u) /\ \E t \in Trainers : validate_state_trainer(t)
    \/ GiveMeMyPokemonsDude /\ get_dictionary_difference(caught'[u], objective[u]) = Empty

\* What a step makes of the statuses.
Restates ==
    /\ status' \in [Trainers -> Statuses]
    /\ \A u \in Trainers : status'[u] = "EXIT" => status[u] = "EXIT" \/ Leaves(u)

\* One status changes.
LEMMA OneRestated ==
    ASSUME status \in [Trainers -> Statuses], NEW t, NEW s \in Statuses,
           status' = [status EXCEPT ![t] = s], s = "EXIT" /\ t \in Trainers => Leaves(t)
    PROVE  Restates
<1>1. status' \in [Trainers -> Statuses]
    OBVIOUS
<1>2. ASSUME NEW u \in Trainers, status'[u] = "EXIT", status[u] # "EXIT" PROVE Leaves(u)
    <2>1. u = t /\ s = "EXIT"
        BY <1>2
    <2>. QED BY <2>1
<1>. QED BY <1>1, <1>2 DEF Restates

\* Nobody leaves but in these steps.
LEMMA NextStatus ==
    ASSUME status \in [Trainers -> Statuses], [Next]_vars
    PROVE  Restates
<1>. HIDE DEF Leaves
<1>1. CASE UNCHANGED status
    BY <1>1 DEF Restates
<1>2. ASSUME NEW m, status' = Promised(m) PROVE Restates
    BY <1>2 DEF Promised, Restates, Statuses
<1>3. ASSUME NEW t \in Trainers, BecomeFull(t) PROVE Restates
    <2>1. status' = [status EXCEPT ![t] = "FULL"] /\ "FULL" \in Statuses
        BY <1>3 DEF BecomeFull, Statuses
    <2>. QED BY <2>1, OneRestated
<1>4. ASSUME NEW t \in Trainers, HasObjective(t) PROVE Restates
    <2>1. status' = [status EXCEPT ![t] = "EXIT"] /\ "EXIT" \in Statuses
        BY <1>4 DEF HasObjective, Statuses
    <2>2. Leaves(t)
        BY <1>4 DEF Leaves
    <2>. QED BY <2>1, <2>2, OneRestated
<1>5. CASE Plan
    <2>1. PICK t : status' = [status EXCEPT ![t] = "EXEC"] /\ "EXEC" \in Statuses
        BY <1>5 DEF Plan, Statuses
    <2>. QED BY <2>1, OneRestated
<1>6. ASSUME NEW t \in Trainers, desalojar(t) PROVE Restates
    <2>1. status' = [status EXCEPT ![t] = "READY"] /\ "READY" \in Statuses
        BY <1>6 DEF desalojar, Statuses
    <2>. QED BY <2>1, OneRestated
<1>7. ASSUME NEW t \in Trainers, validate_state_trainer(t) PROVE Restates
    <2>1. PICK u : \E pc, next : Validate(t, pc, u, next)
        BY <1>7 DEF validate_state_trainer
    <2>2. CASE Satisfied(u)
        <3>1. status' = [status EXCEPT ![u] = "EXIT"] /\ "EXIT" \in Statuses
            BY <2>1, <2>2 DEF Validate, Statuses
        <3>2. Leaves(u)
            BY <1>7, <2>2 DEF Leaves
        <3>. QED BY <3>1, <3>2, OneRestated
    <2>3. CASE ~Satisfied(u)
        <3>1. status' = [status EXCEPT ![u] = "BLOCK"] /\ "BLOCK" \in Statuses
            BY <2>1, <2>3 DEF Validate, Statuses
        <3>. QED BY <3>1, OneRestated
    <2>. QED BY <2>2, <2>3
<1>8. CASE GiveMeMyPokemonsDude
    <2>1. PICK p \in INeed, q \in IF ItNeeds # {} THEN ItNeeds ELSE Species(main.leftovers) :
            /\ caught' = Swapped(main.i, q, Other, p)
            /\ status' = [u \in Trainers |->
                IF u \in {v \in {main.i, Other} :
                    get_dictionary_difference(Swapped(main.i, q, Other, p)[v], objective[v]) = Empty}
                THEN "EXIT"
                ELSE IF u \in {main.i, Other} THEN "BLOCK" ELSE status[u]]
        BY <1>8 DEF GiveMeMyPokemonsDude
    <2>2. status' \in [Trainers -> Statuses]
        BY <2>1 DEF Statuses
    <2>3. ASSUME NEW u \in Trainers, status'[u] = "EXIT", status[u] # "EXIT" PROVE Leaves(u)
        <3>1. get_dictionary_difference(caught'[u], objective[u]) = Empty
            BY <2>1, <2>3
        <3>. QED BY <1>8, <3>1 DEF Leaves
    <2>. QED BY <2>2, <2>3 DEF Restates
<1>9. ASSUME NEW t \in Trainers, Finisher(t) PROVE Restates
    <2>1. CASE ~BecomeFull(t) /\ ~HasObjective(t)
        <3>1. UNCHANGED status
            BY <1>9, <2>1 DEF Finisher, BeginSearch, FindCandidate, AddMatch, AddToDeadlock, WakeMain
        <3>. QED BY <1>1, <3>1
    <2>. QED BY <1>3, <1>4, <2>1
<1>10. ASSUME NEW t \in Trainers, TrainerThread(t) PROVE Restates
    <2>1. CASE ~desalojar(t) /\ ~validate_state_trainer(t)
        <3>1. UNCHANGED status
            BY <1>10, <2>1 DEF TrainerThread, StartSwap, GoOn, Requeue, Resume, exchange_pokemons,
                             FinishSwap
        <3>. QED BY <1>1, <3>1
    <2>. QED BY <1>6, <1>7, <2>1
<1>11. ASSUME NEW m \in DOMAIN matched_deadlocks, WaitStatus(m) PROVE Restates
    <2>1. UNCHANGED status \/ status' = Promised(m)
        BY <1>11 DEF WaitStatus, CheckStatus, LockDeadlock, QueueMatch
    <2>. QED BY <1>1, <1>2, <2>1
<1>12. CASE MainThread
    <2>1. UNCHANGED status \/ status' = Promised(main.i) \/ GiveMeMyPokemonsDude
        BY <1>12 DEF MainThread, CreateTrainer, ListTrainer, InitSem, AllCaught, Proceed,
               IterateMatch, AllIterated, DirectDone, Gather, TakeNext, NothingToTake, MainFrame,
               ProceedFrame, ResolveFrame
    <2>. QED BY <1>1, <1>2, <1>8, <2>1
<1>13. CASE UNCHANGED vars
    BY <1>1, <1>13 DEF vars
<1>. QED BY <1>5, <1>9, <1>10, <1>11, <1>12, <1>13 DEF Next

\* A trainer that leaves has what it wants, and nobody takes it back.
LEMMA NextExit ==
    ASSUME ExchangeInv, Kept, status \in [Trainers -> Statuses], ExitHasObjective, [Next]_vars
    PROVE  ExitHasObjective'
<1>. SUFFICES ASSUME Relied', NEW u \in Trainers, status'[u] = "EXIT"
              PROVE  caught'[u] = objective'[u]
    BY DEF ExitHasObjective
<1>1. /\ Relied /\ Relied' /\ objective' = objective
      /\ caught[u] \in Bags /\ objective[u] \in Bags /\ caught'[u] \in Bags
    BY PromiseIsOff, StartsStay, NextExchangeTypes
       DEF ExchangeInv, ExchangeTypes, DetectTypes, startVars
<1>2. caught[u] = objective[u] => caught'[u] = objective'[u]
    BY <1>1, SatisfiedStays
<1>3. CASE status[u] = "EXIT"
    BY <1>1, <1>2, <1>3 DEF ExitHasObjective
<1>4. CASE HasObjective(u)
    BY <1>2, <1>4 DEF HasObjective
<1>5. CASE Satisfied(u)
    <2>1. Total(caught[u]) = Total(objective[u])
        BY <1>1 DEF Kept
    <2>2. caught[u] = objective[u]
        BY <1>1, <1>5, <2>1, NoDifference DEF Satisfied
    <2>. QED BY <1>2, <2>2
<1>6. CASE get_dictionary_difference(caught'[u], objective[u]) = Empty
    <2>1. Total(caught'[u]) = Total(objective'[u])
        BY <1>1, NextKept DEF Kept, Total
    <2>. QED BY <1>1, <1>6, <2>1, NoDifference
<1>7. status[u] = "EXIT" \/ Leaves(u)
    BY NextStatus DEF Restates
<1>. QED BY <1>3, <1>4, <1>5, <1>6, <1>7 DEF Leaves

-----------------------------------------------------------------------------
(* main's pass over who is left: each trainer it has done with has what it    *)
(* wants.                                                                    *)

InPass == main.pc \in {"resolve", "compare", "exit"}

\* main has done with the trainer, or never had to begin.
Handled(u) ==
    \/ main.pc = "exit" \/ u \notin main.deadlocked
    \/ main.pc = "resolve" /\ u <= main.i
    \/ main.pc = "compare" /\ u < main.i

\* A trainer has nothing too much of what the one main has taken lacks.
NothingFor(u) ==
    \A p \in Pokemons : caught[main.i][p] < objective[main.i][p] => caught[u][p] <= objective[u][p]

PassKnows ==
    Relied /\ InPass =>
        /\ \A u \in Trainers : Handled(u) => caught[u] = objective[u]
        /\ main.pc = "compare" =>
            \A u \in main.deadlocked \ {main.i} : u <= main.with => NothingFor(u)

\* No match is executed once main has gone on.
LEMMA NoExchangeInPass ==
    ASSUME ExchangeInv, Relied, AfterDirect, [Next]_vars, ~GiveMeMyPokemonsDude
    PROVE  UNCHANGED caught
<1>. USE DEF ExchangeInv
<1>1. ASSUME NEW t \in Trainers, exchange_pokemons(t) PROVE FALSE
    BY <1>1, ExchangeIsOwed
<1>. QED BY <1>1, NextCaught DEF vars

\* When main has compared a trainer with all the others it lacks nothing: the team has as many
\* of each species as it wants, so somebody would have too many.
LEMMA ComparedIsSatisfied ==
    ASSUME ExchangeInv, Kept, PassKnows, Relied, main.pc = "compare",
           \A u \in main.deadlocked \ {main.i} : u <= main.with
    PROVE  caught[main.i] = objective[main.i]
<1>1. /\ caught \in [Trainers -> Bags] /\ objective \in [Trainers -> Bags] /\ main.i \in Trainers
    BY DEF ExchangeInv, ExchangeTypes, DetectTypes, MainTypes
<1>2. PICK t \in Trainers : t = main.i
    BY <1>1
<1>3. ASSUME NEW p \in Pokemons, caught[t][p] < objective[t][p] PROVE FALSE
    <2>1. \A u \in Trainers : caught[u][p] \in Nat /\ objective[u][p] \in Nat
        BY <1>1 DEF Bags
    <2>2. \A u \in Trainers : caught[u][p] <= objective[u][p]
        <3>. TAKE u \in Trainers
        <3>1. CASE u \in main.deadlocked \ {t}
            BY <1>2, <1>3, <3>1 DEF PassKnows, InPass, NothingFor
        <3>2. CASE u \notin main.deadlocked
            <4>1. caught[u] = objective[u]
                BY <3>2 DEF PassKnows, InPass, Handled
            <4>. QED BY <2>1, <4>1
        <3>3. CASE u = t
            BY <1>3, <2>1, <3>3
        <3>. QED BY <3>1, <3>2, <3>3
    <2>3. PICK f : f = [u \in Trainers |-> caught[u][p]]
        OBVIOUS
    <2>4. PICK e : e = [u \in Trainers |-> objective[u][p]]
        OBVIOUS
    <2>5. \A u \in Trainers : f[u] = caught[u][p] /\ e[u] = objective[u][p]
        BY <2>3, <2>4
    <2>6. \A u \in Trainers : f[u] \in Nat /\ e[u] \in Nat /\ f[u] <= e[u]
        BY <2>1, <2>2, <2>5
    <2>7. SumFunctionOnSet(f, Trainers) = SumFunctionOnSet(e, Trainers)
        BY <2>3, <2>4 DEF Kept, TeamTotal
    <2>8. IsFiniteSet(Trainers)
        BY BoundsAreNat, FS_Interval DEF Trainers
    <2>9. \A u \in Trainers : f[u] = e[u]
        BY <2>6, <2>7, <2>8, SumBounded
    <2>. QED BY <1>3, <2>1, <2>5, <2>9
<1>4. \A p \in Pokemons : objective[t][p] <= caught[t][p]
    <2>1. \A p \in Pokemons : caught[t][p] \in Nat /\ objective[t][p] \in Nat
        BY <1>1 DEF Bags
    <2>. QED BY <1>3, <2>1
<1>5. Total(caught[t]) = Total(objective[t]) /\ caught[t] \in Bags /\ objective[t] \in Bags
    BY <1>1 DEF Kept
<1>. QED BY <1>2, <1>4, <1>5, NothingLacks

\* main begins its pass with who has not left.
LEMMA GatherPass ==
    ASSUME ExchangeInv, ExitHasObjective, PassKnows, Relied, Gather
    PROVE  PassKnows'
<1>1. main \in MainState /\ caught' = caught /\ objective' = objective
    BY DEF ExchangeInv, ExchangeTypes, MainTypes, Gather, ResolveFrame, startVars
<1>2. PICK d : d = {t \in Trainers : status[t] # "EXIT"}
    OBVIOUS
<1>3. \A u \in Trainers : u \notin d => caught[u] = objective[u]
    BY <1>2 DEF ExitHasObjective
<1>4. \/ d = {} /\ main'.pc = "exit"
      \/ main'.pc = "resolve" /\ main'.i = 0 /\ main'.deadlocked = d
    BY <1>1, <1>2 DEF Gather, MainState
<1>5. \A u \in Trainers : ~(u <= 0)
    BY BoundsAreNat DEF Trainers
<1>6. \A u \in Trainers : Handled(u)' => u \notin d
    BY <1>4, <1>5 DEF Handled
<1>. QED BY <1>1, <1>3, <1>4, <1>6 DEF PassKnows

\* It takes the next of them, or has come to the end.
LEMMA TakeNextPass ==
    ASSUME ExchangeInv, ExitHasObjective, PassKnows, Relied, TakeNext
    PROVE  PassKnows'
<1>1. /\ main \in MainState /\ caught' = caught /\ objective' = objective
      /\ main.deadlocked \subseteq Trainers /\ Trainers \subseteq Nat \ {0} /\ main.pc = "resolve"
    BY BoundsAreNat
       DEF ExchangeInv, ExchangeTypes, MainTypes, MainState, TakeNext, ResolveFrame, startVars, Trainers
<1>2. PICK next : next = After(main.i, main.deadlocked)
    OBVIOUS
<1>3. PICK t : t = Min(next)
    OBVIOUS
<1>4. main'.deadlocked = main.deadlocked
      /\ \/ next = {} /\ main'.pc = "exit"
         \/ next # {} /\ status[t] = "EXIT" /\ main'.pc = "resolve" /\ main'.i = t
         \/ next # {} /\ main'.pc = "compare" /\ main'.i = t /\ main'.with = 0
    BY <1>1, <1>2, <1>3 DEF TakeNext, MainState, Nobody
<1>5. \A u \in Trainers : u \notin main.deadlocked \/ u <= main.i => caught[u] = objective[u]
    BY <1>1 DEF PassKnows, InPass, Handled
<1>6. next \in SUBSET Nat /\ next \subseteq Trainers /\ next = {u \in main.deadlocked : u > main.i}
    BY <1>1, <1>2 DEF After
<1>7. next # {} => t \in next /\ \A u \in next : t <= u
    <2>1. ASSUME next # {} PROVE \E n \in next : \A m \in next : n <= m
        BY <1>6, <2>1, LeastNumber
    <2>. QED BY <1>3, <2>1, Zenon DEF Min
<1>8. main.i \in Nat
    BY <1>1 DEF MainState
<1>9. ASSUME next # {}, NEW u \in Trainers, u < t PROVE caught[u] = objective[u]
    <2>1. u \in Nat /\ t \in Nat /\ u \notin next
        <3>1. t \in next /\ \A v \in next : t <= v
            BY <1>7, <1>9
        <3>. QED BY <1>1, <1>6, <1>9, <3>1
    <2>2. u \notin main.deadlocked \/ u <= main.i
        BY <1>6, <1>8, <2>1
    <2>. QED BY <1>5, <2>2
<1>10. CASE next = {} /\ main'.pc = "exit"
    <2>1. \A u \in Trainers : u \notin main.deadlocked \/ u <= main.i
        <3>. TAKE u \in Trainers
        <3>1. u \in Nat /\ u \notin next
            BY <1>1, <1>10
        <3>. QED BY <1>6, <1>8, <3>1
    <2>. QED BY <1>1, <1>5, <1>10, <2>1 DEF PassKnows
<1>11. CASE next # {} /\ status[t] = "EXIT" /\ main'.pc = "resolve" /\ main'.i = t
    <2>1. t \in Trainers /\ t \in Nat /\ caught[t] = objective[t]
        BY <1>6, <1>7, <1>11 DEF ExitHasObjective
    <2>2. ASSUME NEW u \in Trainers, Handled(u)' PROVE caught[u] = objective[u]
        <3>1. u \notin main.deadlocked \/ u < t \/ u = t
            <4>1. u \in Nat
                BY <1>1
            <4>. QED BY <1>4, <1>11, <2>1, <2>2, <4>1 DEF Handled
        <3>. QED BY <1>5, <1>9, <1>11, <2>1, <3>1
    <2>. QED BY <1>1, <1>11, <2>2 DEF PassKnows
<1>12. CASE next # {} /\ main'.pc = "compare" /\ main'.i = t /\ main'.with = 0
    <2>1. ASSUME NEW u \in Trainers, Handled(u)' PROVE caught[u] = objective[u]
        <3>1. u \notin main.deadlocked \/ u < t
            BY <1>4, <1>12, <2>1 DEF Handled
        <3>. QED BY <1>5, <1>9, <1>12, <3>1
    <2>2. \A u \in main'.deadlocked : ~(u <= main'.with)
        <3>. TAKE u \in main'.deadlocked
        <3>1. u \in Nat /\ u # 0
            BY <1>1, <1>4
        <3>. QED BY <1>12, <3>1
    <2>. QED BY <1>1, <1>12, <2>1, <2>2 DEF PassKnows
<1>. QED BY <1>4, <1>10, <1>11, <1>12

\* Whom it compares with next.
LEMMA OtherIsNext ==
    ASSUME MainTypes, Others # {}
    PROVE  /\ Other \in Others /\ Other \in main.deadlocked \ {main.i} /\ Other > main.with
           /\ \A u \in main.deadlocked \ {main.i} : u <= Other => u <= main.with \/ u = Other
<1>1. /\ Trainers \subseteq Nat /\ main.deadlocked \subseteq Trainers /\ main.with \in Nat
    BY BoundsAreNat DEF Trainers, MainTypes, MainState
<1>2. Others = {u \in main.deadlocked \ {main.i} : u > main.with}
    BY DEF Others, After
<1>3. Other \in Others /\ \A u \in Others : Other <= u
    <2>1. Others \in SUBSET Nat
        BY <1>1, <1>2
    <2>2. \E n \in Others : \A m \in Others : n <= m
        BY <2>1, LeastNumber
    <2>. QED BY <2>2, Zenon DEF Other, Min
<1>4. ASSUME NEW u \in main.deadlocked \ {main.i}, u <= Other, ~(u <= main.with) PROVE u = Other
    <2>1. u \in Nat /\ Other \in Nat
        BY <1>1, <1>2, <1>3
    <2>2. u \in Others
        BY <1>1, <1>2, <1>4, <2>1
    <2>3. Other <= u
        BY <1>3, <2>2
    <2>. QED BY <1>4, <2>1, <2>3
<1>. QED BY <1>2, <1>3, <1>4

\* It goes on to the next when there is nothing to take, and is done after the last.
LEMMA NothingPass ==
    ASSUME ExchangeInv, Kept, ExitHasObjective, PassKnows, Relied, NothingToTake
    PROVE  PassKnows'
<1>1. /\ main \in MainState /\ caught' = caught /\ objective' = objective
      /\ main.deadlocked \subseteq Trainers /\ Trainers \subseteq Nat \ {0} /\ main.pc = "compare"
      /\ main.i \in Trainers /\ main.with \in Nat /\ MainTypes /\ ~crossed
      /\ caught \in [Trainers -> Bags] /\ objective \in [Trainers -> Bags]
    BY BoundsAreNat DEF ExchangeInv, ExchangeTypes, DetectTypes, MainTypes, MainState, NothingToTake,
           ResolveFrame, startVars, Trainers, Relied
<1>2. \A u \in Trainers : u \notin main.deadlocked \/ u < main.i => caught[u] = objective[u]
    BY <1>1 DEF PassKnows, InPass, Handled
<1>3. \A u \in main.deadlocked \ {main.i} : u <= main.with => NothingFor(u)
    BY <1>1 DEF PassKnows, InPass
<1>4. CASE Others = {} /\ main' = [main EXCEPT !.pc = "resolve"]
    <2>1. main'.pc = "resolve" /\ main'.i = main.i /\ main'.deadlocked = main.deadlocked
        BY <1>1, <1>4 DEF MainState
    <2>2. \A u \in main.deadlocked \ {main.i} : u <= main.with
        <3>. TAKE u \in main.deadlocked \ {main.i}
        <3>1. u \in Nat /\ ~(u > main.with)
            BY <1>1, <1>4 DEF Others, After
        <3>. QED BY <1>1, <3>1
    <2>3. caught[main.i] = objective[main.i]
        BY <1>1, <2>2, ComparedIsSatisfied
    <2>4. ASSUME NEW u \in Trainers, Handled(u)' PROVE caught[u] = objective[u]
        <3>1. u \notin main.deadlocked \/ u < main.i \/ u = main.i
            <4>1. u \in Nat /\ main.i \in Nat
                BY <1>1
            <4>. QED BY <2>1, <2>4, <4>1 DEF Handled
        <3>. QED BY <1>2, <2>3, <3>1
    <2>. QED BY <1>1, <2>1, <2>4 DEF PassKnows
<1>5. CASE Others # {} /\ (status[Other] = "EXIT" \/ INeed = {}) /\ main' = [main EXCEPT !.with = Other]
    <2>1. /\ main'.pc = "compare" /\ main'.i = main.i /\ main'.deadlocked = main.deadlocked
          /\ main'.with = Other
        BY <1>1, <1>5 DEF MainState
    <2>2. Other \in Trainers
        BY <1>1, <1>5, OtherIsTrainer
    <2>3. NothingFor(Other)
        <3>1. CASE status[Other] = "EXIT"
            <4>1. caught[Other] = objective[Other]
                BY <2>2, <3>1 DEF ExitHasObjective
            <4>2. \A p \in Pokemons : caught[Other][p] \in Nat
                BY <1>1, <2>2 DEF Bags
            <4>. QED BY <4>1, <4>2 DEF NothingFor
        <3>2. CASE INeed = {}
            <4>. SUFFICES ASSUME NEW p \in Pokemons, caught[main.i][p] < objective[main.i][p]
                          PROVE  caught[Other][p] <= objective[Other][p]
                BY DEF NothingFor
            <4>1. /\ caught[main.i][p] \in Nat /\ objective[main.i][p] \in Nat
                  /\ caught[Other][p] \in Nat /\ objective[Other][p] \in Nat
                BY <1>1, <2>2 DEF Bags
            <4>2. main.remaining[p] = Over(objective[main.i][p], caught[main.i][p])
                BY <1>1 DEF ExchangeInv, MainKnows
            <4>3. main.remaining[p] > 0
                BY <4>1, <4>2 DEF Over
            <4>4. ~(caught[Other][p] > objective[Other][p])
                BY <3>2, <4>3 DEF INeed, Species
            <4>. QED BY <4>1, <4>4
        <3>. QED BY <1>5, <3>1, <3>2
    <2>4. \A u \in Trainers : NothingFor(u)' <=> NothingFor(u)
        BY <1>1, <2>1 DEF NothingFor
    <2>5. ASSUME NEW u \in main'.deadlocked \ {main'.i}, u <= main'.with PROVE NothingFor(u)'
        <3>1. u <= main.with \/ u = Other
            BY <1>1, <1>5, <2>1, <2>5, OtherIsNext
        <3>. QED BY <1>1, <1>3, <2>1, <2>3, <2>4, <2>5, <3>1
    <2>6. ASSUME NEW u \in Trainers, Handled(u)' PROVE caught[u] = objective[u]
        BY <1>2, <2>1, <2>6 DEF Handled
    <2>. QED BY <1>1, <2>1, <2>5, <2>6 DEF PassKnows
<1>. QED BY <1>4, <1>5 DEF NothingToTake

\* Its exchanges take nothing back from who has what it wants, and give the one it has taken
\* nothing to lack.
LEMMA DudePass ==
    ASSUME ExchangeInv, Kept, PassKnows, Relied, Relied', [Next]_vars, GiveMeMyPokemonsDude
    PROVE  PassKnows'
<1>1. /\ main \in MainState /\ objective' = objective
      /\ main.deadlocked \subseteq Trainers /\ Trainers \subseteq Nat \ {0} /\ main.pc = "compare"
      /\ main.i \in Trainers /\ main.with \in Nat /\ MainTypes /\ ~crossed
      /\ caught \in [Trainers -> Bags] /\ objective \in [Trainers -> Bags]
    BY BoundsAreNat DEF ExchangeInv, ExchangeTypes, DetectTypes, MainTypes, MainState,
           GiveMeMyPokemonsDude, ResolveFrame, startVars, Trainers, Relied
<1>2. Other \in Trainers /\ Other # main.i /\ Others # {}
    BY <1>1, OtherIsTrainer DEF GiveMeMyPokemonsDude
<1>3. PICK p, q \in Pokemons :
        /\ p # q /\ caught[main.i][q] > 0 /\ caught[Other][p] > 0
        /\ caught[main.i][q] > objective[main.i][q] /\ caught[Other][p] > objective[Other][p]
        /\ caught[main.i][p] < objective[main.i][p]
        /\ caught' = Swapped(main.i, q, Other, p)
    BY <1>1, MainExchanges DEF ExchangeInv
<1>4. /\ main'.pc = "compare" /\ main'.i = main.i /\ main'.deadlocked = main.deadlocked
      /\ \/ main'.with = main.with
         \/ /\ main'.with = Other
            /\ get_dictionary_difference(caught'[main.i], objective[main.i]) = Empty
    <2>1. PICK r \in INeed, s \in IF ItNeeds # {} THEN ItNeeds ELSE Species(main.leftovers) :
            /\ caught' = Swapped(main.i, s, Other, r)
            /\ main' = [main EXCEPT !.leftovers = Minus(@, s), !.remaining = Minus(@, r),
                !.with = IF main.i \in {u \in {main.i, Other} :
                            get_dictionary_difference(Swapped(main.i, s, Other, r)[u], objective[u])
                                = Empty} THEN Other ELSE @]
        BY DEF GiveMeMyPokemonsDude
    <2>. QED BY <1>1, <2>1 DEF MainState
<1>5. /\ caught' \in [Trainers -> Bags]
      /\ \A v \in Trainers \ {main.i, Other} : caught'[v] = caught[v]
      /\ \A r \in Pokemons :
            caught'[main.i][r] = (IF r = q THEN caught[main.i][q] - 1
                                  ELSE IF r = p THEN caught[main.i][p] + 1 ELSE caught[main.i][r])
    <2>1. PICK t \in Trainers, u \in Trainers : t = main.i /\ u = Other
        BY <1>1, <1>2
    <2>2. PICK have : have = Swapped(t, q, u, p)
        OBVIOUS
    <2>3. t # u /\ p # q /\ have = caught' /\ caught[t][q] > 0
        BY <1>2, <1>3, <2>1, <2>2
    <2>4. /\ have \in [Trainers -> Bags]
          /\ \A v \in Trainers \ {t, u} : have[v] = caught[v]
          /\ \A r \in Pokemons :
                have[t][r] = (IF r = q THEN (IF caught[t][q] > 0 THEN caught[t][q] - 1 ELSE 0)
                              ELSE IF r = p THEN caught[t][p] + 1 ELSE caught[t][r])
        <3>1. q # p /\ t # u /\ caught \in [Trainers -> Bags]
            BY <1>1, <2>3
        <3>2. have \in [Trainers -> Bags]
            BY <2>2, <3>1, SwappedCounts
        <3>3. \A v \in Trainers \ {t, u} : have[v] = caught[v]
            BY <2>2, <3>1, SwappedCounts
        <3>4. \A r \in Pokemons :
                have[t][r] = (IF r = q THEN (IF caught[t][q] > 0 THEN caught[t][q] - 1 ELSE 0)
                              ELSE IF r = p THEN caught[t][p] + 1 ELSE caught[t][r])
            BY <2>2, <3>1, SwappedCounts
        <3>. QED BY <3>2, <3>3, <3>4
    <2>5. \A r \in Pokemons :
            have[t][r] = (IF r = q THEN caught[t][q] - 1
                          ELSE IF r = p THEN caught[t][p] + 1 ELSE caught[t][r])
        BY <2>3, <2>4
    <2>. QED BY <2>1, <2>3, <2>4, <2>5
<1>6. ASSUME NEW u \in Trainers, Handled(u)' PROVE caught'[u] = objective'[u]
    <2>1. Handled(u)
        BY <1>1, <1>4, <1>6 DEF Handled
    <2>2. caught[u] = objective[u]
        BY <1>1, <2>1 DEF PassKnows, InPass
    <2>. QED BY <1>1, <2>2, SatisfiedStays
<1>7. CASE main'.with = main.with
    <2>1. ASSUME NEW u \in main'.deadlocked \ {main'.i}, u <= main'.with PROVE NothingFor(u)'
        <3>1. u \in Trainers \ {main.i, Other} /\ NothingFor(u)
            <4>1. u # Other
                <5>1. Other > main.with /\ Other \in Nat
                    BY <1>1, <1>2, OtherIsNext
                <5>. QED BY <1>1, <1>7, <2>1, <5>1
            <4>. QED BY <1>1, <1>4, <1>7, <2>1, <4>1 DEF PassKnows, InPass
        <3>. SUFFICES ASSUME NEW r \in Pokemons, caught'[main'.i][r] < objective'[main'.i][r]
                      PROVE  caught'[u][r] <= objective'[u][r]
            BY DEF NothingFor
        <3>2. caught'[main.i][r] < objective[main.i][r]
            BY <1>1, <1>4
        <3>3. /\ caught[main.i][q] \in Nat /\ objective[main.i][q] \in Nat
              /\ caught[main.i][r] \in Nat /\ objective[main.i][r] \in Nat
            <4>1. caught[main.i] \in Bags /\ objective[main.i] \in Bags
                BY <1>1
            <4>. QED BY <4>1 DEF Bags
        <3>4. r # q
            <4>1. \A n, k \in Nat : n > k => ~(n - 1 < k)
                OBVIOUS
            <4>. QED BY <1>3, <1>5, <3>2, <3>3, <4>1
        <3>5. caught[main.i][r] < objective[main.i][r]
            BY <1>3, <1>5, <3>2, <3>3, <3>4
        <3>. QED BY <1>1, <1>5, <3>1, <3>5 DEF NothingFor
    <2>. QED BY <1>4, <1>6, <2>1 DEF PassKnows
<1>8. CASE get_dictionary_difference(caught'[main.i], objective[main.i]) = Empty
    <2>1. Total(caught'[main.i]) = Total(objective'[main.i])
        BY <1>1, NextKept DEF Kept, Total
    <2>2. caught'[main.i] = objective[main.i]
        BY <1>1, <1>5, <1>8, <2>1, NoDifference
    <2>3. \A u : NothingFor(u)'
        <3>1. \A r \in Pokemons : ~(caught'[main'.i][r] < objective'[main'.i][r])
            <4>. TAKE r \in Pokemons
            <4>1. PICK n \in Nat : n = objective[main.i][r]
                BY <1>1 DEF Bags
            <4>2. caught'[main'.i][r] = n /\ objective'[main'.i][r] = n
                BY <1>1, <1>4, <2>2, <4>1
            <4>. QED BY <4>2
        <3>. QED BY <3>1 DEF NothingFor
    <2>. QED BY <1>4, <1>6, <2>3 DEF PassKnows
<1>. QED BY <1>4, <1>7, <1>8

\* Every step keeps what main has come to know.
LEMMA NextPassKnows ==
    ASSUME ExchangeInv, Kept, ExitHasObjective, PassKnows, [Next]_vars
    PROVE  PassKnows'
<1>1. objective' = objective /\ main \in MainState /\ (Relied' => Relied)
    BY PromiseIsOff, StartsStay DEF ExchangeInv, ExchangeTypes, MainTypes, startVars
<1>. SUFFICES ASSUME Relied, Relied', InPass' PROVE PassKnows'
    BY <1>1 DEF PassKnows
<1>2. CASE Gather
    BY <1>2, GatherPass
<1>3. CASE TakeNext
    BY <1>3, TakeNextPass
<1>4. CASE NothingToTake
    BY <1>4, NothingPass
<1>5. CASE GiveMeMyPokemonsDude
    BY <1>5, DudePass
<1>6. CASE UNCHANGED main /\ ~GiveMeMyPokemonsDude
    <2>1. InPass /\ AfterDirect
        BY <1>6 DEF InPass, AfterDirect
    <2>2. UNCHANGED caught
        BY <1>6, <2>1, NoExchangeInPass
    <2>. QED BY <1>1, <1>6, <2>1, <2>2 DEF PassKnows, Handled, NothingFor, InPass
<1>7. CASE MainThread /\ ~Gather /\ ~TakeNext /\ ~NothingToTake /\ ~GiveMeMyPokemonsDude
    BY <1>1, <1>7 DEF MainThread, CreateTrainer, ListTrainer, InitSem, AllCaught, Proceed,
           IterateMatch, AllIterated, DirectDone, InPass, MainState
<1>8. MainThread \/ UNCHANGED main
    <2>1. ASSUME NEW t \in Trainers, Finisher(t) PROVE UNCHANGED main
        BY <2>1, FinisherThreads DEF ExchangeInv
    <2>2. ASSUME NEW t \in Trainers, TrainerThread(t) PROVE UNCHANGED main
        BY <2>2, TrainerFrame
    <2>3. ASSUME NEW m \in DOMAIN matched_deadlocks, WaitStatus(m) PROVE UNCHANGED main
        BY <2>3 DEF WaitStatus, CheckStatus, LockDeadlock, QueueMatch, WaiterFrame
    <2>. QED BY <2>1, <2>2, <2>3 DEF Next, vars, Plan
<1>. QED BY <1>2, <1>3, <1>4, <1>5, <1>6, <1>7, <1>8

-----------------------------------------------------------------------------
(* Everybody has what it wants.                                             *)

SatisfactionInv ==
    /\ ExchangeInv /\ Kept
    /\ status \in [Trainers -> Statuses] /\ ExitHasObjective /\ PassKnows

\* Nobody has left yet.
LEMMA InitSatisfaction ==
    ASSUME Init
    PROVE  SatisfactionInv
<1>1. ExchangeInv
    BY InitExchangeInv
<1>2. Kept
    <2>1. PICK s \in Starts : objective = s.objective /\ caught = s.caught
        BY DEF Init
    <2>. QED BY <2>1, StartsAreFull DEF Kept
<1>3. status \in [Trainers -> Statuses]
    BY DEF Init, Statuses
<1>4. ExitHasObjective
    BY DEF Init, ExitHasObjective
<1>5. PassKnows
    BY DEF Init, PassKnows, InPass
<1>. QED BY <1>1, <1>2, <1>3, <1>4, <1>5 DEF SatisfactionInv

\* The invariant is inductive.
LEMMA NextSatisfaction ==
    ASSUME SatisfactionInv, [Next]_vars
    PROVE  SatisfactionInv'
<1>1. ExchangeInv'
    BY NextExchangeInv DEF SatisfactionInv
<1>2. Kept'
    BY NextKept DEF SatisfactionInv
<1>3. status' \in [Trainers -> Statuses]
    BY NextStatus DEF SatisfactionInv, Restates
<1>4. ExitHasObjective'
    BY NextExit DEF SatisfactionInv
<1>5. PassKnows'
    BY NextPassKnows DEF SatisfactionInv
<1>. QED BY <1>1, <1>2, <1>3, <1>4, <1>5 DEF SatisfactionInv

\* A trainer that has left has exactly its objective.  validate_state_trainer (team.c:498) and
\* resolve_deadlock look at one of the two differences only: that is enough because every
\* exchange leaves a trainer with as many pokemons as it wants, and none takes from who has left.
THEOREM LeaversSatisfied == Spec => []ExitHasObjective
<1>1. Init => SatisfactionInv
    BY InitSatisfaction
<1>2. SatisfactionInv /\ [Next]_vars => SatisfactionInv'
    BY NextSatisfaction
<1>3. SatisfactionInv => ExitHasObjective
    BY DEF SatisfactionInv
<1>. QED BY <1>1, <1>2, <1>3, PTL DEF Spec

\* When the process exits every trainer has its objective: handle_deadlock (resolver.c:58) goes
\* once over who is left after the direct exchanges, and does not look back.  A trainer compared
\* with all the others has what it wants, because the team caught what it needs and nothing else:
\* if it lacked something, another would have too much of it.
THEOREM AllSatisfied == Spec => []EverybodySatisfied
<1>1. Init => SatisfactionInv
    BY InitSatisfaction
<1>2. SatisfactionInv /\ [Next]_vars => SatisfactionInv'
    BY NextSatisfaction
<1>3. SatisfactionInv => EverybodySatisfied
    <2>. SUFFICES ASSUME SatisfactionInv, Relied, main.pc = "exit" PROVE caught = objective
        BY DEF EverybodySatisfied
    <2>1. \A u \in Trainers : caught[u] = objective[u]
        BY DEF SatisfactionInv, PassKnows, InPass, Handled
    <2>2. caught \in [Trainers -> Bags] /\ objective \in [Trainers -> Bags]
        BY DEF SatisfactionInv, ExchangeInv, ExchangeTypes, DetectTypes
    <2>. QED BY <2>1, <2>2
<1>. QED BY <1>1, <1>2, <1>3, PTL DEF Spec

-----------------------------------------------------------------------------
(* How many matches there may be: each takes a pokemon off what its finder     *)
(* still looks for.                                                          *)

\* The most that a trainer of some configuration wants.
Most == Max({Total(s.objective[t]) : s \in Starts, t \in Trainers})

\* How many matches a search may still find; f is the finisher's record.
MayFind(f, wanted) ==
    CASE f.pc \in {"none", "full"} -> Total(wanted)
      [] f.pc = "search" -> Total(f.aux)
      [] f.pc = "match" -> Total(f.aux) + 1
      [] OTHER -> 0

Wanted == [t \in Trainers |-> Total(objective[t])]
ToFind == [t \in Trainers |-> MayFind(finisher[t], objective[t])]

MatchesFit ==
    /\ Most \in Nat /\ \A t \in Trainers : Total(objective[t]) <= Most
    /\ Len(matched_deadlocks) + SumFunctionOnSet(ToFind, Trainers)
        <= SumFunctionOnSet(Wanted, Trainers)

\* The trainers are finitely many.
LEMMA TrainersFinite == IsFiniteSet(Trainers) /\ Cardinality(Trainers) = NumTrainers
BY BoundsAreNat, FS_Interval DEF Trainers

\* What is counted is a number.
LEMMA TotalIsNat ==
    ASSUME NEW b \in Bags
    PROVE  Total(b) \in Nat
BY SumOnSet, FiniteTeams DEF Total, Bags

\* Nobody wants more than the most.
LEMMA MostIsMost ==
    ASSUME NEW s \in Starts, NEW t \in Trainers
    PROVE  Most \in Nat /\ Total(s.objective[t]) <= Most
<1>. DEFINE T == {Total(r.objective[u]) : r \in Starts, u \in Trainers}
            each == [r \in Starts |-> SumFunctionOnSet([u \in Trainers |-> Total(r.objective[u])],
                                                       Trainers)]
<1>1. \A r \in Starts, u \in Trainers : Total(r.objective[u]) \in Nat
    BY StartsAreFull, TotalIsNat
<1>2. \A r \in Starts : each[r] \in Nat /\ \A u \in Trainers : Total(r.objective[u]) <= each[r]
    <2>. TAKE r \in Starts
    <2>1. PICK f : f = [u \in Trainers |-> Total(r.objective[u])]
        OBVIOUS
    <2>2. \A u \in Trainers : f[u] \in Nat
        BY <1>1, <2>1
    <2>3. SumFunctionOnSet(f, Trainers) \in Nat
        BY <2>2, TrainersFinite, SumOnSet
    <2>4. \A u \in Trainers : f[u] <= SumFunctionOnSet(f, Trainers)
        <3>. TAKE u \in Trainers
        <3>1. SumFunctionOnSet(f, Trainers) = f[u] + SumFunctionOnSet(f, Trainers \ {u})
            BY <2>2, TrainersFinite, SumOnSet
        <3>2. IsFiniteSet(Trainers \ {u}) /\ \A v \in Trainers \ {u} : f[v] \in Nat
            BY <2>2, TrainersFinite, FS_Subset
        <3>3. SumFunctionOnSet(f, Trainers \ {u}) \in Nat
            BY <3>2, SumOnSet
        <3>. QED BY <2>2, <2>3, <3>1, <3>3
    <2>. QED BY <2>1, <2>3, <2>4
<1>. HIDE DEF each
<1>3. SumFunctionOnSet(each, Starts) \in Nat
    BY <1>2, FiniteTeams, SumOnSet
<1>4. \A r \in Starts : each[r] <= SumFunctionOnSet(each, Starts)
    <2>. TAKE r \in Starts
    <2>1. SumFunctionOnSet(each, Starts) = each[r] + SumFunctionOnSet(each, Starts \ {r})
        BY <1>2, FiniteTeams, SumOnSet
    <2>2. IsFiniteSet(Starts \ {r}) /\ \A x \in Starts \ {r} : each[x] \in Nat
        BY <1>2, FiniteTeams, FS_Subset
    <2>3. SumFunctionOnSet(each, Starts \ {r}) \in Nat
        BY <2>2, SumOnSet
    <2>. QED BY <1>2, <1>3, <2>1, <2>3
<1>5. T \in SUBSET Nat /\ Total(s.objective[t]) \in T
    BY <1>1
<1>6. \A n \in T : n <= SumFunctionOnSet(each, Starts)
    <2>. TAKE n \in T
    <2>1. PICK r \in Starts, u \in Trainers : n = Total(r.objective[u])
        OBVIOUS
    <2>2. n \in Nat /\ each[r] \in Nat /\ n <= each[r] /\ each[r] <= SumFunctionOnSet(each, Starts)
        BY <1>1, <1>2, <1>4, <2>1
    <2>. QED BY <1>3, <2>2
<1>7. Most = Max(T)
    BY DEF Most
<1>. HIDE DEF T
<1>8. IsFiniteSet(T)
    BY <1>3, <1>5, <1>6, FS_BoundedSetOfNaturals
<1>9. PICK n \in T : \A m \in T : m <= n
    BY <1>5, <1>8, GreatestNumber
<1>10. \A m \in T : n >= m
    BY <1>5, <1>9
<1>11. Max(T) \in T /\ \A m \in T : Max(T) >= m
    BY <1>9, <1>10, Zenon DEF Max
<1>. QED BY <1>5, <1>7, <1>11

\* One pokemon less is one less to look for.
LEMMA OneLess ==
    ASSUME NEW b \in Bags, NEW p \in Species(b)
    PROVE  Total(Minus(b, p)) + 1 = Total(b)
<1>1. p \in Pokemons /\ b[p] > 0 /\ b[p] \in Nat
    BY DEF Species, Bags
<1>2. PICK c : c = Minus(b, p)
    OBVIOUS
<1>3. /\ \A q \in Pokemons : b[q] \in Nat /\ c[q] \in Nat /\ (q # p => c[q] = b[q])
      /\ c[p] = b[p] - 1
    BY <1>1, <1>2, BagOps DEF Bags
<1>4. SumFunctionOnSet(c, Pokemons) + b[p] = SumFunctionOnSet(b, Pokemons) + c[p]
    BY <1>1, <1>3, FiniteTeams, SumWithChange
<1>5. SumFunctionOnSet(c, Pokemons) \in Nat /\ SumFunctionOnSet(b, Pokemons) \in Nat
    BY <1>3, FiniteTeams, SumOnSet
<1>6. PICK i \in Nat, j \in Nat, k \in Nat :
        i = SumFunctionOnSet(c, Pokemons) /\ j = SumFunctionOnSet(b, Pokemons) /\ k = b[p]
    BY <1>1, <1>5
<1>7. i + k = j + (k - 1)
    BY <1>3, <1>4, <1>6
<1>8. i + 1 = j
    BY <1>7
<1>. QED BY <1>2, <1>6, <1>8 DEF Total

\* A search may find a number of matches.
LEMMA MayFindIsNat ==
    ASSUME NEW f \in FinisherState, NEW b \in Bags
    PROVE  MayFind(f, b) \in Nat
<1>1. f.aux \in Bags
    BY DEF FinisherState
<1>2. Total(f.aux) \in Nat /\ Total(b) \in Nat
    BY <1>1, TotalIsNat
<1>. QED BY <1>2 DEF MayFind

\* A finisher's record changes to g as n matches are added, and so many less may be found.
Spends(t, g, n) ==
    /\ Finds(t, g) /\ Len(matched_deadlocks') = Len(matched_deadlocks) + n
    /\ MayFind(g, objective[t]) + n <= MayFind(finisher[t], objective[t])

\* Each step of a search adds no more matches than it takes off what may be found.
LEMMA SearchStep ==
    ASSUME ExchangeTypes, NEW t \in Trainers, Finisher(t)
    PROVE  \E n \in {0, 1} : \E g : Spends(t, g, n)
<1>. DEFINE Goal == \E n \in {0, 1} : \E g : Spends(t, g, n)
<1>0. PICK f : f = finisher[t]
    OBVIOUS
<1>1. /\ f \in FinisherState /\ f.aux \in Bags /\ objective[t] \in Bags /\ caught[t] \in Bags
      /\ remaining \in [Trainers -> Bags] /\ Len(matched_deadlocks) \in Nat
      /\ MayFind(f, objective[t]) \in Nat
    <2>1. f \in FinisherState /\ objective[t] \in Bags
        BY <1>0 DEF ExchangeTypes, DetectTypes
    <2>. QED BY <2>1, MayFindIsNat, LenProperties DEF ExchangeTypes, DetectTypes, SwapTypes, FinisherState
<1>2. ~AddMatch(t) => UNCHANGED matched_deadlocks
    BY FinisherThreads DEF Threads
<1>3. ASSUME NEW g, Finds(t, g), ~AddMatch(t), MayFind(g, objective[t]) \in Nat,
             MayFind(g, objective[t]) <= MayFind(f, objective[t])
      PROVE  Goal
    <2>1. Spends(t, g, 0)
        BY <1>0, <1>1, <1>2, <1>3 DEF Spends
    <2>. QED BY <2>1
<1>. SUFFICES Goal
    OBVIOUS
<1>. HIDE DEF Goal
<1>4. CASE BecomeFull(t) \/ HasObjective(t) \/ WakeMain(t) \/ AddToDeadlock(t)
    <2>1. PICK pc : /\ Finds(t, [f EXCEPT !.pc = pc])
                    /\ (pc = "full" => f.pc = "none") /\ pc \notin {"none", "search", "match"}
        <3>1. CASE BecomeFull(t)
            <4>1. /\ Finds(t, [f EXCEPT !.pc = "full"]) /\ f.pc = "none"
                  /\ "full" \notin {"none", "search", "match"}
                BY <1>0, <3>1, Zenon DEF BecomeFull, Finds
            <4>. QED BY <4>1, Zenon
        <3>2. CASE HasObjective(t) \/ AddToDeadlock(t)
            <4>1. /\ Finds(t, [f EXCEPT !.pc = "all full?"]) /\ "all full?" # "full"
                  /\ "all full?" \notin {"none", "search", "match"}
                BY <1>0, <3>2, Zenon DEF HasObjective, AddToDeadlock, Finds
            <4>. QED BY <4>1, Zenon
        <3>3. CASE WakeMain(t)
            <4>1. /\ Finds(t, [f EXCEPT !.pc = "done"]) /\ "done" # "full"
                  /\ "done" \notin {"none", "search", "match"}
                BY <1>0, <3>3, Zenon DEF WakeMain, Finds
            <4>. QED BY <4>1, Zenon
        <3>. QED BY <1>4, <3>1, <3>2, <3>3
    <2>2. PICK g : g = [f EXCEPT !.pc = pc]
        OBVIOUS
    <2>3. g.pc = pc
        BY <1>1, <2>2 DEF FinisherState
    <2>4. /\ MayFind(g, objective[t]) \in Nat
          /\ MayFind(g, objective[t]) <= MayFind(f, objective[t])
        <3>1. CASE pc = "full"
            <4>1. MayFind(g, objective[t]) = Total(objective[t])
                BY <2>3, <3>1 DEF MayFind
            <4>2. MayFind(f, objective[t]) = Total(objective[t])
                BY <2>1, <3>1 DEF MayFind
            <4>3. PICK n \in Nat : n = Total(objective[t])
                BY <1>1, TotalIsNat
            <4>. QED BY <4>1, <4>2, <4>3
        <3>2. CASE pc # "full"
            <4>1. MayFind(g, objective[t]) = 0
                BY <2>1, <2>3, <3>2 DEF MayFind
            <4>2. PICK n \in Nat : n = MayFind(f, objective[t])
                BY <1>1
            <4>. QED BY <4>1, <4>2
        <3>. QED BY <3>1, <3>2
    <2>5. ~AddMatch(t)
        BY <1>4 DEF BecomeFull, HasObjective, WakeMain, AddToDeadlock, AddMatch
    <2>. QED BY <1>3, <2>1, <2>2, <2>4, <2>5
<1>5. CASE BeginSearch(t)
    <2>1. PICK r : r = get_dictionary_difference(objective[t], caught[t])
        OBVIOUS
    <2>2. r \in Bags /\ \A p \in Pokemons : r[p] <= objective[t][p]
        BY <1>1, <2>1, DifferenceIsBag
    <2>3. PICK g : g = [f EXCEPT !.pc = "search", !.aux = r]
        OBVIOUS
    <2>4. Finds(t, g) /\ f.pc = "full" /\ ~AddMatch(t)
        BY <1>0, <1>1, <1>5, <2>1, <2>3 DEF BeginSearch, Finds, AddMatch
    <2>5. g.pc = "search" /\ g.aux = r
        BY <1>1, <2>3 DEF FinisherState
    <2>6. Total(r) <= Total(objective[t])
        BY <1>1, <2>2, SumBounded, FiniteTeams DEF Total, Bags
    <2>7. MayFind(g, objective[t]) = Total(r) /\ MayFind(f, objective[t]) = Total(objective[t])
        BY <2>4, <2>5 DEF MayFind
    <2>8. Total(r) \in Nat
        BY <2>2, TotalIsNat
    <2>. QED BY <1>3, <2>4, <2>6, <2>7, <2>8
<1>6. CASE FindCandidate(t)
    <2>1. PICK p \in Species(f.aux) :
            \/ Finds(t, [f EXCEPT !.aux = Minus(f.aux, p)])
            \/ \E q : Finds(t, [pc |-> "match", aux |-> Minus(f.aux, p), other |-> First(p),
                                needs |-> p, gives |-> q])
        BY <1>0, <1>6 DEF FindCandidate, Finds
    <2>2. PICK aux : aux = Minus(f.aux, p)
        OBVIOUS
    <2>3. PICK i \in Nat : i = Total(aux) /\ i + 1 = Total(f.aux)
        <3>1. p \in Pokemons
            BY DEF Species
        <3>2. aux \in Bags
            BY <1>1, <2>2, <3>1, BagOps
        <3>. QED BY <1>1, <2>2, <3>2, OneLess, TotalIsNat
    <2>4. f.pc = "search" /\ ~AddMatch(t)
        BY <1>0, <1>6 DEF FindCandidate, AddMatch
    <2>5. MayFind(f, objective[t]) = i + 1
        BY <2>3, <2>4 DEF MayFind
    <2>6. CASE Finds(t, [f EXCEPT !.aux = aux])
        <3>1. PICK g : g = [f EXCEPT !.aux = aux]
            OBVIOUS
        <3>2. g.pc = "search" /\ g.aux = aux
            BY <1>1, <2>4, <3>1 DEF FinisherState
        <3>3. MayFind(g, objective[t]) = i
            BY <2>3, <3>2 DEF MayFind
        <3>4. MayFind(g, objective[t]) \in Nat /\ MayFind(g, objective[t]) <= MayFind(f, objective[t])
            BY <2>5, <3>3
        <3>. QED BY <1>3, <2>4, <2>6, <3>1, <3>4
    <2>7. ASSUME NEW q, Finds(t, [pc |-> "match", aux |-> aux, other |-> First(p),
                                  needs |-> p, gives |-> q])
          PROVE  Goal
        <3>1. PICK g : g = [pc |-> "match", aux |-> aux, other |-> First(p),
                            needs |-> p, gives |-> q]
            OBVIOUS
        <3>2. g.pc = "match" /\ g.aux = aux
            BY <3>1
        <3>3. MayFind(g, objective[t]) = i + 1
            BY <2>3, <3>2 DEF MayFind
        <3>4. MayFind(g, objective[t]) \in Nat /\ MayFind(g, objective[t]) <= MayFind(f, objective[t])
            BY <2>5, <3>3
        <3>. QED BY <1>3, <2>4, <2>7, <3>1, <3>4
    <2>. QED BY <2>1, <2>2, <2>6, <2>7
<1>7. CASE AddMatch(t)
    <2>1. PICK g : g = [f EXCEPT !.pc = "search"]
        OBVIOUS
    <2>2. Finds(t, g) /\ f.pc = "match"
        BY <1>0, <1>7, <2>1 DEF AddMatch, Finds
    <2>3. g.pc = "search" /\ g.aux = f.aux
        BY <1>1, <2>1 DEF FinisherState
    <2>4. /\ MayFind(g, objective[t]) = Total(f.aux)
          /\ MayFind(f, objective[t]) = Total(f.aux) + 1
        BY <2>2, <2>3 DEF MayFind
    <2>5. Len(matched_deadlocks') = Len(matched_deadlocks) + 1
        <3>1. PICK r \in MatchRecord : matched_deadlocks' = Append(matched_deadlocks, r)
            BY <1>7, FinisherThreads DEF Adds
        <3>. QED BY <3>1, AppendProperties DEF ExchangeTypes, SwapTypes
    <2>6. MayFind(g, objective[t]) + 1 <= MayFind(f, objective[t])
        <3>1. Total(f.aux) \in Nat
            BY <1>1, TotalIsNat
        <3>. QED BY <2>4, <3>1
    <2>7. Spends(t, g, 1)
        BY <1>0, <2>2, <2>5, <2>6 DEF Spends
    <2>. QED BY <2>7 DEF Goal
<1>. QED BY <1>4, <1>5, <1>6, <1>7 DEF Finisher

\* The matches found and those that may be found stay no more than what the team wants.
LEMMA NextMatchesFit ==
    ASSUME ExchangeTypes, MatchesFit, [Next]_vars
    PROVE  MatchesFit'
<1>1. objective' = objective /\ DetectTypes /\ DetectTypes' /\ Len(matched_deadlocks) \in Nat
    BY StartsStay, NextExchangeTypes, LenProperties DEF startVars, ExchangeTypes, SwapTypes
<1>2. Most \in Nat /\ \A t \in Trainers : Total(objective'[t]) <= Most
    BY <1>1 DEF MatchesFit
<1>3. Wanted' = Wanted
    BY <1>1 DEF Wanted
<1>4. CASE UNCHANGED <<finisher, matched_deadlocks>>
    <2>1. ToFind' = ToFind
        BY <1>1, <1>4 DEF ToFind, MayFind, Total
    <2>. QED BY <1>2, <1>3, <1>4, <2>1 DEF MatchesFit
<1>5. ASSUME NEW t \in Trainers, Finisher(t) PROVE MatchesFit'
    <2>0. PICK n \in {0, 1} : \E g : Spends(t, g, n)
        BY <1>5, SearchStep
    <2>1. PICK g :
            /\ Finds(t, g) /\ Len(matched_deadlocks') = Len(matched_deadlocks) + n
            /\ MayFind(g, objective[t]) + n <= MayFind(finisher[t], objective[t])
        BY <2>0 DEF Spends
    <2>2. PICK k, e : k = ToFind /\ e = ToFind'
        OBVIOUS
    <2>3. \A u \in Trainers : k[u] \in Nat
        BY <1>1, <2>2, MayFindIsNat DEF ToFind, DetectTypes
    <2>4. /\ finisher \in [Trainers -> FinisherState] /\ finisher' = [finisher EXCEPT ![t] = g]
          /\ e = [u \in Trainers |-> MayFind(finisher'[u], objective'[u])]
        BY <1>1, <2>1, <2>2 DEF DetectTypes, Finds, ToFind
    <2>5. \A u \in Trainers : MayFind(finisher'[u], objective'[u]) \in Nat
        BY <1>1, MayFindIsNat DEF DetectTypes
    <2>6. e[t] = MayFind(g, objective[t]) /\ \A u \in Trainers : e[u] \in Nat /\ (u # t => e[u] = k[u])
        BY <1>1, <2>2, <2>4, <2>5 DEF ToFind
    <2>7. k[t] = MayFind(finisher[t], objective[t])
        BY <2>2 DEF ToFind
    <2>8. SumFunctionOnSet(e, Trainers) + k[t] = SumFunctionOnSet(k, Trainers) + e[t]
        BY <2>3, <2>6, TrainersFinite, SumWithChange
    <2>9. /\ SumFunctionOnSet(e, Trainers) \in Nat /\ SumFunctionOnSet(k, Trainers) \in Nat
          /\ SumFunctionOnSet(Wanted, Trainers) \in Nat
        <3>1. \A u \in Trainers : Wanted[u] \in Nat
            BY <1>1, TotalIsNat DEF Wanted, DetectTypes
        <3>. QED BY <2>3, <2>6, <3>1, TrainersFinite, SumOnSet
    <2>10. PICK a \in Nat, b \in Nat, c \in Nat, l \in Nat, i \in Nat, j \in Nat :
            /\ a = SumFunctionOnSet(e, Trainers) /\ b = SumFunctionOnSet(k, Trainers)
            /\ c = SumFunctionOnSet(Wanted, Trainers) /\ l = Len(matched_deadlocks)
            /\ i = k[t] /\ j = e[t]
        BY <1>1, <2>3, <2>6, <2>9
    <2>11. l + b <= c
        BY <2>2, <2>10 DEF MatchesFit
    <2>12. a + i = b + j /\ j + n <= i
        BY <2>1, <2>6, <2>7, <2>8, <2>10
    <2>13. (l + n) + a <= c
        BY <2>11, <2>12
    <2>. QED BY <1>2, <1>3, <2>1, <2>2, <2>10, <2>13 DEF MatchesFit
<1>6. UNCHANGED <<finisher, matched_deadlocks>> \/ \E t \in Trainers : Finisher(t)
    <2>1. MainThread => UNCHANGED <<finisher, matched_deadlocks>>
        BY DEF MainThread, CreateTrainer, ListTrainer, InitSem, AllCaught, Proceed, IterateMatch,
               AllIterated, DirectDone, Gather, TakeNext, NothingToTake, GiveMeMyPokemonsDude,
               MainFrame, ProceedFrame, ResolveFrame, detectVars
    <2>2. Plan => UNCHANGED <<finisher, matched_deadlocks>>
        BY DEF Plan, detectVars
    <2>3. \A t \in Trainers : TrainerThread(t) => UNCHANGED <<finisher, matched_deadlocks>>
        BY TrainerFrame DEF detectVars
    <2>4. \A m : WaitStatus(m) => UNCHANGED <<finisher, matched_deadlocks>>
        BY DEF WaitStatus, CheckStatus, LockDeadlock, QueueMatch, WaiterFrame, detectVars
    <2>. QED BY <2>1, <2>2, <2>3, <2>4 DEF Next, vars, detectVars, matchVars
<1>. QED BY <1>4, <1>5, <1>6

\* So they are no more than the model's bound.
LEMMA MatchesWithin ==
    ASSUME ExchangeTypes, MatchesFit
    PROVE  MaxMatches \in Nat /\ Len(matched_deadlocks) <= MaxMatches
<1>1. \A t \in Trainers : Wanted[t] \in Nat /\ Wanted[t] <= Most
    BY TotalIsNat DEF Wanted, ExchangeTypes, DetectTypes, MatchesFit
<1>2. Most \in Nat /\ NumTrainers \in Nat
    BY BoundsAreNat DEF MatchesFit
<1>3. SumFunctionOnSet(Wanted, Trainers) <= Most * NumTrainers
    BY <1>1, <1>2, TrainersFinite, SumAtMost
<1>4. SumFunctionOnSet(Wanted, Trainers) \in Nat /\ SumFunctionOnSet(ToFind, Trainers) \in Nat
    <2>1. \A t \in Trainers : ToFind[t] \in Nat
        BY MayFindIsNat DEF ToFind, ExchangeTypes, DetectTypes
    <2>. QED BY <1>1, <2>1, TrainersFinite, SumOnSet
<1>5. Len(matched_deadlocks) \in Nat
    BY LenProperties DEF ExchangeTypes, SwapTypes
<1>6. MaxMatches = Most * NumTrainers
    BY DEF MaxMatches, Most
<1>7. Most * NumTrainers \in Nat
    BY <1>2
<1>8. PICK l \in Nat, b \in Nat, c \in Nat, m \in Nat :
        /\ l = Len(matched_deadlocks) /\ b = SumFunctionOnSet(ToFind, Trainers)
        /\ c = SumFunctionOnSet(Wanted, Trainers) /\ m = Most * NumTrainers
    BY <1>4, <1>5, <1>7
<1>9. l + b <= c /\ c <= m
    BY <1>3, <1>8 DEF MatchesFit
<1>10. l <= m
    BY <1>9
<1>. QED BY <1>6, <1>8, <1>10

-----------------------------------------------------------------------------
(* The ranges of the counters and semaphores.                               *)

\* Whose handle_catch has not come to all_trainers_full.
Unfinished == {t \in Trainers : finisher[t].pc # "done"}

\* Every trainer posts the semaphore once at most.
PostsFit ==
    /\ sem_all_pokemons_caught \in Nat
    /\ sem_all_pokemons_caught + Cardinality(Unfinished) <= NumTrainers

ListFits ==
    /\ listed \in 0..NumTrainers
    /\ main.pc \in {"create", "list"} => main.i \in Trainers

SemFits == sem_deadlock \in [Trainers -> 0..1]

MatchKnown == \A t \in Trainers : trainer[t].match \in {0} \cup Planned

\* What main lists.
LEMMA NextListFits ==
    ASSUME ExchangeTypes, ListFits, [Next]_vars
    PROVE  ListFits'
<1>1. main \in MainState
    BY DEF ExchangeTypes, MainTypes
<1>2. CASE UNCHANGED <<listed, main>>
    BY <1>2 DEF ListFits
<1>3. CASE ListTrainer
    <2>1. main.i \in Trainers /\ main.pc = "list" /\ listed' = main.i
        BY <1>3 DEF ListTrainer, ListFits
    <2>2. PICK n \in Nat : n = NumTrainers /\ main.i \in 1..n
        BY <2>1, BoundsAreNat DEF Trainers
    <2>3. listed' \in 0..NumTrainers
        BY <2>1, <2>2
    <2>4. CASE main.i = NumTrainers
        <3>1. main'.pc = "sem_init"
            BY <1>1, <1>3, <2>4 DEF ListTrainer, MainState
        <3>. QED BY <2>3, <3>1 DEF ListFits
    <2>5. CASE main.i # NumTrainers
        <3>1. main'.i = main.i + 1
            BY <1>1, <1>3, <2>5 DEF ListTrainer, MainState
        <3>2. main'.i \in Trainers
            BY <2>2, <2>5, <3>1 DEF Trainers
        <3>. QED BY <2>3, <3>2 DEF ListFits
    <2>. QED BY <2>4, <2>5
<1>4. CASE CreateTrainer
    <2>1. listed' = listed /\ main'.i = main.i /\ main.pc = "create"
        BY <1>1, <1>4 DEF CreateTrainer, wakeVars, MainState
    <2>. QED BY <2>1 DEF ListFits
<1>5. CASE MainThread /\ ~CreateTrainer /\ ~ListTrainer
    <2>1. listed' = listed /\ main'.pc \notin {"create", "list"}
        BY <1>1, <1>5 DEF MainThread, InitSem, AllCaught, Proceed, IterateMatch, AllIterated,
               DirectDone, Gather, TakeNext, NothingToTake, GiveMeMyPokemonsDude, MainState,
               ProceedFrame, ResolveFrame, wakeVars
    <2>. QED BY <2>1 DEF ListFits
<1>6. MainThread \/ UNCHANGED <<listed, main>>
    <2>1. \A t \in Trainers : Finisher(t) => UNCHANGED <<listed, main>>
        BY DEF Finisher, BecomeFull, HasObjective, BeginSearch, FindCandidate, AddMatch,
               AddToDeadlock, WakeMain, FinisherFrame
    <2>2. \A t \in Trainers : TrainerThread(t) => UNCHANGED <<listed, main>>
        BY TrainerFrame DEF wakeVars
    <2>3. \A m : WaitStatus(m) => UNCHANGED <<listed, main>>
        BY DEF WaitStatus, CheckStatus, LockDeadlock, QueueMatch, WaiterFrame, wakeVars
    <2>4. Plan => UNCHANGED <<listed, main>>
        BY DEF Plan, wakeVars
    <2>. QED BY <2>1, <2>2, <2>3, <2>4 DEF Next, vars, wakeVars
<1>. QED BY <1>2, <1>3, <1>4, <1>5, <1>6

\* A trainer's sem_deadlock is locked or unlocked.
LEMMA NextSemFits ==
    ASSUME SemFits, [Next]_vars
    PROVE  SemFits'
<1>1. ASSUME NEW t, NEW n \in 0..1, sem_deadlock' = [sem_deadlock EXCEPT ![t] = n] PROVE SemFits'
    BY <1>1 DEF SemFits
<1>2. CASE UNCHANGED sem_deadlock
    BY <1>2 DEF SemFits
<1>3. 0 \in 0..1 /\ 1 \in 0..1
    OBVIOUS
<1>4. ASSUME NEW m, WaitStatus(m) PROVE SemFits'
    <2>1. UNCHANGED sem_deadlock \/ \E t : sem_deadlock' = [sem_deadlock EXCEPT ![t] = 0]
        BY <1>4 DEF WaitStatus, CheckStatus, LockDeadlock, QueueMatch
    <2>. QED BY <1>1, <1>2, <1>3, <2>1
<1>5. ASSUME NEW t \in Trainers, TrainerThread(t) PROVE SemFits'
    <2>1. UNCHANGED sem_deadlock \/ \E u : sem_deadlock' = [sem_deadlock EXCEPT ![u] = 1]
        BY <1>5 DEF TrainerThread, StartSwap, GoOn, desalojar, Requeue, Resume, exchange_pokemons,
               validate_state_trainer, Validate, FinishSwap
    <2>. QED BY <1>1, <1>2, <1>3, <2>1
<1>6. CASE GiveMeMyPokemonsDude
    <2>1. PICK S : sem_deadlock' = [u \in Trainers |-> IF u \in S THEN 1 ELSE sem_deadlock[u]]
        BY <1>6 DEF GiveMeMyPokemonsDude
    <2>. QED BY <1>3, <2>1 DEF SemFits
<1>7. CASE UNCHANGED sem_deadlock \/ GiveMeMyPokemonsDude
    BY <1>2, <1>6, <1>7
<1>8. MainThread => UNCHANGED sem_deadlock \/ GiveMeMyPokemonsDude
    BY DEF MainThread, CreateTrainer, ListTrainer, InitSem, AllCaught, Proceed, IterateMatch,
           AllIterated, DirectDone, Gather, TakeNext, NothingToTake, MainFrame, ProceedFrame,
           waitVars
<1>9. Plan => UNCHANGED sem_deadlock
    BY DEF Plan, waitVars
<1>10. \A t \in Trainers : Finisher(t) => UNCHANGED sem_deadlock
    BY DEF Finisher, BecomeFull, HasObjective, BeginSearch, FindCandidate, AddMatch,
           AddToDeadlock, WakeMain, FinisherFrame
<1>. QED BY <1>4, <1>5, <1>7, <1>8, <1>9, <1>10 DEF Next, vars, waitVars

\* The semaphore main waits on is posted by who becomes finished.
LEMMA NextPostsFit ==
    ASSUME ExchangeTypes, PostsFit, [Next]_vars
    PROVE  PostsFit'
<1>0. /\ finisher \in [Trainers -> FinisherState] /\ NumTrainers \in Nat
      /\ IsFiniteSet(Unfinished) /\ IsFiniteSet(Trainers) /\ Cardinality(Unfinished) \in Nat
    <2>1. IsFiniteSet(Unfinished)
        BY TrainersFinite, FS_Subset DEF Unfinished
    <2>. QED BY <2>1, TrainersFinite, BoundsAreNat, FS_CardinalityType DEF ExchangeTypes, DetectTypes
<1>1. CASE UNCHANGED <<sem_all_pokemons_caught, finisher>>
    BY <1>1 DEF PostsFit, Unfinished
<1>2. CASE UNCHANGED finisher /\ sem_all_pokemons_caught' = 0
    <2>1. Unfinished' = Unfinished
        BY <1>2 DEF Unfinished
    <2>. QED BY <1>0, <1>2, <2>1 DEF PostsFit
<1>3. CASE AllCaught
    <2>1. /\ UNCHANGED finisher /\ sem_all_pokemons_caught > 0
          /\ sem_all_pokemons_caught' = sem_all_pokemons_caught - 1
        BY <1>3 DEF AllCaught, MainFrame, detectVars
    <2>2. Unfinished' = Unfinished
        BY <2>1 DEF Unfinished
    <2>. QED BY <1>0, <2>1, <2>2 DEF PostsFit
<1>4. ASSUME NEW t \in Trainers, WakeMain(t) PROVE PostsFit'
    <2>1. PICK n \in {0, 1} : sem_all_pokemons_caught' = sem_all_pokemons_caught + n
        BY <1>4 DEF WakeMain
    <2>2. Unfinished' = Unfinished \ {t}
        <3>1. finisher' = [finisher EXCEPT ![t].pc = "done"]
            BY <1>4 DEF WakeMain
        <3>2. \A u \in Trainers : finisher'[u].pc = IF u = t THEN "done" ELSE finisher[u].pc
            BY <1>0, <3>1 DEF FinisherState
        <3>. QED BY <3>2 DEF Unfinished
    <2>3. t \in Unfinished
        BY <1>4, Zenon DEF WakeMain, Unfinished
    <2>4. Cardinality(Unfinished \ {t}) = Cardinality(Unfinished) - 1
        BY <1>0, <2>3, FS_RemoveElement
    <2>5. PICK i \in Nat, c \in Nat, k \in Nat :
            i = sem_all_pokemons_caught /\ c = Cardinality(Unfinished) /\ k = NumTrainers /\ i + c <= k
        BY <1>0 DEF PostsFit
    <2>6. (i + n) \in Nat /\ (i + n) + (c - 1) <= k
        BY <2>5
    <2>. QED BY <2>1, <2>2, <2>4, <2>5, <2>6 DEF PostsFit
<1>5. ASSUME NEW t \in Trainers, Finisher(t), ~WakeMain(t) PROVE PostsFit'
    <2>1. /\ UNCHANGED sem_all_pokemons_caught /\ finisher[t].pc # "done"
          /\ \E g : finisher' = [finisher EXCEPT ![t] = g]
        BY <1>5, Zenon DEF Finisher, BecomeFull, HasObjective, BeginSearch, FindCandidate, AddMatch,
               AddToDeadlock
    <2>2. PICK g : finisher' = [finisher EXCEPT ![t] = g]
        BY <2>1
    <2>3. Unfinished' \subseteq Unfinished
        BY <1>0, <2>1, <2>2 DEF Unfinished
    <2>4. Cardinality(Unfinished') \in Nat /\ Cardinality(Unfinished') <= Cardinality(Unfinished)
        <3>1. PICK S : S = Unfinished'
            OBVIOUS
        <3>. QED BY <1>0, <2>3, <3>1, FS_Subset, FS_CardinalityType
    <2>. QED BY <1>0, <2>1, <2>4 DEF PostsFit
<1>6. MainThread => \/ UNCHANGED <<sem_all_pokemons_caught, finisher>> \/ AllCaught
                    \/ UNCHANGED finisher /\ sem_all_pokemons_caught' = 0
    BY DEF MainThread, CreateTrainer, ListTrainer, InitSem, Proceed, IterateMatch,
           AllIterated, DirectDone, Gather, TakeNext, NothingToTake, GiveMeMyPokemonsDude,
           MainFrame, ProceedFrame, ResolveFrame, wakeVars, detectVars
<1>7. Plan => UNCHANGED <<sem_all_pokemons_caught, finisher>>
    BY DEF Plan, wakeVars, detectVars
<1>8. \A t \in Trainers : TrainerThread(t) => UNCHANGED <<sem_all_pokemons_caught, finisher>>
    BY TrainerFrame DEF wakeVars, detectVars
<1>9. \A m : WaitStatus(m) => UNCHANGED <<sem_all_pokemons_caught, finisher>>
    BY DEF WaitStatus, CheckStatus, LockDeadlock, QueueMatch, WaiterFrame, wakeVars, detectVars
<1>. QED BY <1>1, <1>2, <1>3, <1>4, <1>5, <1>6, <1>7, <1>8, <1>9 DEF Next, vars, wakeVars, detectVars

\* A trainer is in a match of the list, or in none yet.
LEMMA NextMatchKnown ==
    ASSUME ExchangeTypes, MatchKnown, [Next]_vars
    PROVE  MatchKnown'
<1>0. Planned \subseteq Planned'
    <2>1. CASE UNCHANGED matched_deadlocks
        BY <2>1 DEF Planned
    <2>2. ASSUME NEW t \in Trainers, AddMatch(t) PROVE Planned \subseteq Planned'
        <3>1. PICK r \in MatchRecord : matched_deadlocks' = Append(matched_deadlocks, r)
            BY <2>2, FinisherThreads DEF Adds, Finisher
        <3>2. matched_deadlocks \in Seq(MatchRecord) /\ Len(matched_deadlocks) \in Nat
            BY LenProperties DEF ExchangeTypes, SwapTypes
        <3>3. Len(matched_deadlocks') = Len(matched_deadlocks) + 1
            BY <3>1, <3>2, AppendProperties
        <3>. QED BY <3>2, <3>3 DEF Planned
    <2>. QED BY <2>1, <2>2, MatchesKept
<1>1. ASSUME \A t \in Trainers : trainer'[t].match \in {0} \cup Planned PROVE MatchKnown'
    BY <1>0, <1>1 DEF MatchKnown
<1>2. CASE UNCHANGED trainer
    BY <1>1, <1>2 DEF MatchKnown
<1>3. ASSUME NEW t \in Trainers, NEW m \in {0} \cup Planned, trainer'[t].match = m,
             \A u \in Trainers \ {t} : trainer'[u] = trainer[u]
      PROVE  MatchKnown'
    <2>1. \A u \in Trainers : trainer'[u].match \in {0} \cup Planned
        BY <1>3 DEF MatchKnown
    <2>. QED BY <1>1, <2>1
<1>4. ASSUME NEW t \in Trainers, TrainerThread(t) PROVE MatchKnown'
    <2>1. PICK pc, sem, m : Turns(t, pc, sem, m) /\ m \in {trainer[t].match, trainer[t].params}
                            /\ (m # trainer[t].match => StartSwap(t))
        <3>1. SwapTypes
            BY DEF ExchangeTypes
        <3>2. CASE validate_state_trainer(t)
            <4>1. PICK pc, u, next : next \in {"validate2", "count"} /\ Validate(t, pc, u, next)
                BY <3>2 DEF validate_state_trainer
            <4>2. Turns(t, next, trainer[t].sem, trainer[t].match)
                BY <3>1, <4>1, TrainerTurns
            <4>. QED BY <4>2
        <3>. QED BY <1>4, <3>1, <3>2, TrainerTurns DEF TrainerThread
    <2>2. m \in {0} \cup Planned
        <3>1. StartSwap(t) => trainer[t].params \in Planned
            BY DEF StartSwap, ExchangeTypes, SwapTypes
        <3>. QED BY <2>1, <3>1 DEF MatchKnown
    <2>. QED BY <1>3, <2>1, <2>2 DEF Turns
<1>5. CASE Plan
    <2>1. PICK t \in Trainers : /\ trainer'[t].match = trainer[t].match
                                /\ \A u \in Trainers \ {t} : trainer'[u] = trainer[u]
        BY <1>5, PlanThreads
    <2>. QED BY <1>3, <2>1 DEF MatchKnown
<1>6. ASSUME NEW t \in Trainers, Finisher(t) PROVE MatchKnown'
    <2>1. CASE AddMatch(t)
        <3>1. UNCHANGED trainer
            BY <1>6, <2>1, FinisherThreads DEF Adds
        <3>. QED BY <1>2, <3>1
    <2>2. CASE ~AddMatch(t)
        <3>1. TrainersStay
            BY <1>6, <2>2, FinisherThreads
        <3>2. \A u \in Trainers : trainer'[u].match = trainer[u].match
            BY <3>1 DEF TrainersStay
        <3>3. \A u \in Trainers : trainer'[u].match \in {0} \cup Planned
            BY <3>2 DEF MatchKnown
        <3>. QED BY <1>1, <3>3
    <2>. QED BY <2>1, <2>2
<1>7. MainThread => UNCHANGED trainer
    BY MainThreads
<1>8. \A m : WaitStatus(m) => UNCHANGED trainer
    BY DEF WaitStatus, CheckStatus, LockDeadlock, QueueMatch, WaiterFrame
<1>. QED BY <1>2, <1>4, <1>5, <1>6, <1>7, <1>8 DEF Next, vars

-----------------------------------------------------------------------------
(* Every variable is in its range.                                          *)

RangesInv ==
    /\ ExchangeInv /\ status \in [Trainers -> Statuses]
    /\ MatchesFit /\ PostsFit /\ ListFits /\ SemFits /\ MatchKnown

\* Nothing was posted or found yet.
LEMMA InitRanges ==
    ASSUME Init
    PROVE  RangesInv
<1>1. ExchangeInv /\ ExchangeTypes
    BY InitExchangeInv DEF ExchangeInv
<1>2. status \in [Trainers -> Statuses]
    BY DEF Init, Statuses
<1>3. MatchesFit
    <2>1. PICK s \in Starts : objective = s.objective
        BY DEF Init
    <2>2. Most \in Nat /\ \A t \in Trainers : Total(objective[t]) <= Most
        <3>1. 1 \in Trainers
            BY BoundsAreNat DEF Trainers
        <3>. QED BY <2>1, <3>1, MostIsMost
    <2>3. ToFind = Wanted
        BY DEF Init, ToFind, Wanted, MayFind
    <2>4. Len(matched_deadlocks) = 0
        BY EmptySeq DEF Init
    <2>5. SumFunctionOnSet(Wanted, Trainers) \in Nat
        <3>1. \A t \in Trainers : Wanted[t] \in Nat
            BY <1>1, TotalIsNat DEF Wanted, ExchangeTypes, DetectTypes
        <3>. QED BY <3>1, TrainersFinite, SumOnSet
    <2>. QED BY <2>2, <2>3, <2>4, <2>5 DEF MatchesFit
<1>4. PostsFit
    <2>1. Cardinality(Unfinished) <= NumTrainers /\ Cardinality(Unfinished) \in Nat
        <3>1. Unfinished \in SUBSET Trainers
            BY DEF Unfinished
        <3>. QED BY <3>1, TrainersFinite, FS_Subset, FS_CardinalityType
    <2>2. sem_all_pokemons_caught = 0
        BY DEF Init
    <2>. QED BY <2>1, <2>2 DEF PostsFit
<1>5. ListFits /\ SemFits /\ MatchKnown
    BY BoundsAreNat DEF Init, ListFits, SemFits, MatchKnown, Trainers
<1>. QED BY <1>1, <1>2, <1>3, <1>4, <1>5 DEF RangesInv

\* Every step keeps the ranges.
LEMMA NextRanges ==
    ASSUME RangesInv, [Next]_vars
    PROVE  RangesInv'
<1>1. ExchangeTypes
    BY DEF RangesInv, ExchangeInv
<1>2. ExchangeInv'
    BY NextExchangeInv DEF RangesInv
<1>3. status' \in [Trainers -> Statuses]
    BY NextStatus DEF RangesInv, Restates
<1>4. MatchesFit'
    BY <1>1, NextMatchesFit DEF RangesInv
<1>5. PostsFit' /\ ListFits' /\ SemFits' /\ MatchKnown'
    BY <1>1, NextPostsFit, NextListFits, NextSemFits, NextMatchKnown DEF RangesInv
<1>. QED BY <1>2, <1>3, <1>4, <1>5 DEF RangesInv

\* Every variable of the exchanges stays in the range its type and the model's bounds give it:
\* the searches find no more matches (find_candidate_to_swap, trainer.c:152) than the team wants
\* pokemons, and each trainer posts the semaphore main waits on (trainer.c:88) once at most.
THEOREM ExchangeTyped == Spec => []TypeOK
<1>1. Init => RangesInv
    BY InitRanges
<1>2. RangesInv /\ [Next]_vars => RangesInv'
    BY NextRanges
<1>3. RangesInv => TypeOK
    <2>. SUFFICES ASSUME RangesInv PROVE TypeOK
        OBVIOUS
    <2>. USE DEF RangesInv, ExchangeInv, ExchangeTypes
    <2>1. MaxMatches \in Nat /\ Len(matched_deadlocks) <= MaxMatches
        BY MatchesWithin
    <2>2. Planned \subseteq Matches /\ Len(matched_deadlocks) \in Nat
        <3>1. Len(matched_deadlocks) \in Nat
            BY LenProperties DEF SwapTypes
        <3>. QED BY <2>1, <3>1 DEF Planned, Matches
    <2>3. sem_all_pokemons_caught \in 0..NumTrainers
        <3>1. Cardinality(Unfinished) \in Nat
            <4>1. Unfinished \in SUBSET Trainers
                BY DEF Unfinished
            <4>. QED BY <4>1, TrainersFinite, FS_Subset, FS_CardinalityType
        <3>2. PICK i \in Nat, c \in Nat, n \in Nat :
                /\ i = sem_all_pokemons_caught /\ c = Cardinality(Unfinished) /\ n = NumTrainers
                /\ i + c <= n
            BY <3>1, BoundsAreNat DEF PostsFit
        <3>3. i \in 0..n
            BY <3>2
        <3>. QED BY <3>2, <3>3
    <2>4. queue_deadlock \in Seq(Matches)
        BY <2>2, WiderSeq DEF SwapTypes
    <2>5. \A t \in Trainers : trainer[t].match \in {0} \cup Matches /\ trainer[t].sem \in 0..1
        BY <2>2 DEF MatchKnown, SwapTypes, TrainerState
    <2>6. waiter \in Seq({"none", "check1", "lock1", "check2", "lock2", "queue", "done"})
        BY DEF SwapTypes, WaiterState
    <2>. QED BY <2>1, <2>3, <2>4, <2>5, <2>6
            DEF TypeOK, DetectTypes, SwapTypes, MatchRecord, ListFits, SemFits
<1>. QED BY <1>1, <1>2, <1>3, PTL DEF Spec
=============================================================================
