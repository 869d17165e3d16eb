------------------------ MODULE TeamCatching_proofs ------------------------
(***************************************************************************)
(* What the runs check of a Team process, for any number of trainers,       *)
(* species, pokemons and messages: one trainer executes at a time, the      *)
(* matcher never waits for more trainers than it can find, no counter wraps *)
(* around, and being_caught_pokemons counts the catches under way.          *)
(***************************************************************************)
EXTENDS TeamCatching, NumberTheorems, TLAPS, SequenceTheorems, FiniteSetTheorems

-----------------------------------------------------------------------------
(* Types, but for the bounds that need the pokemons to be counted.          *)

PlannedMatch == [trainer : Trainers, pokemon : Pokemons]

MessageTypes ==
    /\ message \in [MessageThreads -> MessageState]
    /\ received \in Seq(Pokemons)
    /\ sem_appeared_pokemon \in Nat /\ appeared \in Nat

MatchTypes ==
    /\ being_caught \in [Pokemons -> Nat]
    /\ matches \in Seq(PlannedMatch)
    /\ matcher \in [pc : {"wait", "choose", "add"}, wanted : SUBSET Pokemons,
                    has : SUBSET Pokemons, match : Match]
    /\ matcher.pc = "add" => matcher.match.trainer \in Trainers
    /\ sem_trainer_available \in Nat
    /\ mutex_planning \in BOOLEAN

CatchTypes ==
    /\ trainer \in [Trainers -> TrainerState]
    /\ catch \in [Catches -> CatchState]
    /\ catches \in Nat
    /\ caught_messages \in SUBSET AnyMessage

\* A catch that was not begun has neither threads nor a trainer, one that was has a trainer.
CatchesBegun ==
    \A c \in Catches :
        IF c > catches
        THEN catch[c].id = "none" /\ catch[c].pc = "none" /\ catch[c].trainer = Nobody
        ELSE catch[c].trainer \in Trainers

TeamTypes == MessageTypes /\ MatchTypes /\ CatchTypes /\ CatchesBegun

-----------------------------------------------------------------------------
(* Sequences with an element removed.                                       *)

\* A sequence without its i-th element has all the others and nothing else.
LEMMA RemoveAtProperties ==
    ASSUME NEW S, NEW s \in Seq(S), NEW i \in DOMAIN s
    PROVE  /\ RemoveAt(s, i) \in Seq(S) /\ Len(RemoveAt(s, i)) = Len(s) - 1
           /\ \A j \in DOMAIN RemoveAt(s, i) : \E k \in DOMAIN s : RemoveAt(s, i)[j] = s[k]
           /\ \A k \in DOMAIN s \ {i} : \E j \in DOMAIN RemoveAt(s, i) : RemoveAt(s, i)[j] = s[k]
           /\ \A j \in 1..(Len(s) - 1) : RemoveAt(s, i)[j] = IF j <= i - 1 THEN s[j] ELSE s[j + 1]
<1>. DEFINE a == SubSeq(s, 1, i - 1)
            b == SubSeq(s, i + 1, Len(s))
            r == a \o b
<1>1. Len(s) \in Nat /\ DOMAIN s = 1..Len(s) /\ i \in 1..Len(s)
    BY LenProperties
<1>2. /\ a \in Seq(S) /\ Len(a) = i - 1
      /\ \A j \in 1..(i - 1) : a[j] = s[j]
    <2>1. \A j \in 1..(i - 1) : s[j] \in S
        BY <1>1, ElementOfSeq
    <2>. QED BY <1>1, <2>1, SubSeqProperties
<1>3. /\ b \in Seq(S) /\ Len(b) = Len(s) - i
      /\ \A j \in 1..(Len(s) - i) : b[j] = s[j + i]
    <2>1. \A j \in (i + 1)..Len(s) : s[j] \in S
        BY <1>1, ElementOfSeq
    <2>. QED BY <1>1, <2>1, SubSeqProperties
<1>. HIDE DEF a, b
<1>4. /\ r \in Seq(S) /\ Len(r) = Len(s) - 1 /\ DOMAIN r = 1..(Len(s) - 1)
      /\ \A j \in 1..(Len(s) - 1) : r[j] = IF j <= i - 1 THEN s[j] ELSE s[j + 1]
    <2>1. /\ r \in Seq(S) /\ Len(r) = Len(a) + Len(b)
          /\ \A j \in 1..(Len(a) + Len(b)) : r[j] = IF j <= Len(a) THEN a[j] ELSE b[j - Len(a)]
        BY <1>2, <1>3, ConcatProperties
    <2>. HIDE DEF r
    <2>2. Len(a) + Len(b) = Len(s) - 1 /\ DOMAIN r = 1..(Len(s) - 1)
        BY <1>1, <1>2, <1>3, <2>1, LenProperties
    <2>3. \A j \in 1..(Len(s) - 1) : r[j] = IF j <= i - 1 THEN s[j] ELSE s[j + 1]
        <3>. TAKE j \in 1..(Len(s) - 1)
        <3>1. CASE j <= i - 1
            BY <1>1, <1>2, <2>1, <2>2, <3>1
        <3>2. CASE j > i - 1
            <4>1. j - (i - 1) \in 1..(Len(s) - i) /\ j - (i - 1) + i = j + 1
                BY <1>1, <3>2
            <4>2. r[j] = b[j - (i - 1)]
                BY <1>1, <1>2, <2>1, <2>2, <3>2
            <4>3. b[j - (i - 1)] = s[j + 1]
                BY <1>3, <4>1
            <4>. QED BY <1>1, <3>2, <4>2, <4>3
        <3>. QED BY <1>1, <3>1, <3>2
    <2>. QED BY <2>1, <2>2, <2>3
<1>5. RemoveAt(s, i) = r
    BY DEF RemoveAt, a, b
<1>. HIDE DEF r
<1>6. \A k \in DOMAIN s \ {i} : \E j \in DOMAIN r : r[j] = s[k]
    <2>. TAKE k \in DOMAIN s \ {i}
    <2>1. CASE k < i
        BY <1>1, <1>4, <2>1
    <2>2. CASE k > i
        <3>1. k - 1 \in DOMAIN r /\ r[k - 1] = s[k]
            BY <1>1, <1>4, <2>2
        <3>. QED BY <3>1
    <2>. QED BY <1>1, <2>1, <2>2
<1>7. \A j \in DOMAIN r : \E k \in DOMAIN s : r[j] = s[k]
    <2>. TAKE j \in DOMAIN r
    <2>1. (r[j] = s[j] /\ j \in DOMAIN s) \/ (r[j] = s[j + 1] /\ j + 1 \in DOMAIN s)
        BY <1>1, <1>4
    <2>. QED BY <2>1
<1>. QED BY <1>4, <1>5, <1>6, <1>7

-----------------------------------------------------------------------------
(* Every step keeps the types.                                              *)

\* Both counts of the messages' threads are of elements of finite sets.
LEMMA CountsAreNat ==
    ASSUME MessageTypes, NEW n \in MessageThreads
    PROVE  /\ \A p : Cardinality({i \in DOMAIN received : received[i] = p}) \in Nat
           /\ ToCatch(n) \in 0..message[n].size
<1>1. message[n].size \in Nat /\ Len(received) \in Nat /\ DOMAIN received = 1..Len(received)
    BY BoundsAreNat, LenProperties DEF MessageTypes, MessageState
<1>2. \A T : T \subseteq DOMAIN received => Cardinality(T) \in Nat
    <2>1. IsFiniteSet(1..Len(received))
        BY <1>1, FS_Interval
    <2>2. ASSUME NEW T, T \subseteq 1..Len(received) PROVE Cardinality(T) \in Nat
        BY <2>1, <2>2, FS_Subset, FS_CardinalityType
    <2>. QED BY <1>1, <2>2
<1>3. \A T : T \subseteq 0..(message[n].size - 1) => Cardinality(T) \in 0..message[n].size
    <2>1. 0 \in Int /\ message[n].size - 1 \in Int
        BY <1>1
    <2>2. /\ IsFiniteSet(0..(message[n].size - 1))
          /\ Cardinality(0..(message[n].size - 1)) =
                IF 0 > message[n].size - 1 THEN 0 ELSE message[n].size - 1 - 0 + 1
        BY <2>1, FS_Interval, Zenon
    <2>3. Cardinality(0..(message[n].size - 1)) = message[n].size
        BY <1>1, <2>2
    <2>4. ASSUME NEW T, T \subseteq 0..(message[n].size - 1)
          PROVE  Cardinality(T) \in 0..message[n].size
        <3>1. Cardinality(T) \in Nat /\ Cardinality(T) <= Cardinality(0..(message[n].size - 1))
            BY <2>2, <2>4, FS_Subset, FS_CardinalityType
        <3>. QED BY <1>1, <2>3, <3>1
    <2>. QED BY <2>4
<1>4. ToCatch(n) \in 0..message[n].size
    BY <1>1, <1>3 DEF ToCatch
<1>. QED BY <1>2, <1>4

\* Even where there is no match its pokemon field has a value of its type.
LEMMA SomePokemon == NoMatch.pokemon \in Pokemons
<1>1. \E p \in Pokemons : TRUE
    <2>1. PICK t \in Trainers : Total(Caught[t]) # Total(Objective[t])
        BY ObjectivesAreSet DEF FullAtFirst
    <2>2. Caught[t] \in [Pokemons -> Nat] /\ Objective[t] \in [Pokemons -> Nat]
        BY ObjectivesAreSet
    <2>3. Pokemons = {} => Caught[t] = Objective[t]
        BY <2>2
    <2>. QED BY <2>1, <2>3
<1>2. (CHOOSE p \in Pokemons : TRUE) \in Pokemons
    BY <1>1
<1>. QED BY <1>2 DEF NoMatch

\* A thread's record keeps its type under each of the updates.
LEMMA ThreadUpdates ==
    ASSUME NEW m \in MessageState
    PROVE  /\ \A pc \in {"count", "backup"} : [m EXCEPT !.pc = pc] \in MessageState
           /\ \A localized \in BOOLEAN, p \in Pokemons, size \in 0..MaxPokemons :
                [m EXCEPT !.pc = "remaining", !.localized = localized,
                          !.pokemon = p, !.size = size] \in MessageState
           /\ \A q \in Nat, has \in BOOLEAN :
                [m EXCEPT !.pc = "decide", !.q = q, !.has = has] \in MessageState
           /\ \A size \in 0..m.size, pc \in {"add", "backup"} :
                [m EXCEPT !.pc = pc, !.size = size, !.rest = m.size - size] \in MessageState
           /\ NoThread("done") \in MessageState
<1>1. NoThread("done") \in MessageState
    BY SomePokemon, BoundsAreNat DEF NoThread, MessageState
<1>2. ASSUME NEW size \in 0..m.size PROVE size \in 0..MaxPokemons /\ m.size - size \in 0..MaxPokemons
    BY BoundsAreNat DEF MessageState
<1>. QED BY <1>1, <1>2 DEF MessageState

\* The threads of handle_appeared and handle_localized keep their types.
LEMMA NextMessage ==
    ASSUME TeamTypes, [Next]_vars
    PROVE  message' \in [MessageThreads -> MessageState] /\ appeared' \in Nat
<1>. USE DEF TeamTypes, MessageTypes
<1>1. ASSUME NEW n \in MessageThreads, NEW m \in MessageState,
             message' = [message EXCEPT ![n] = m]
      PROVE  message' \in [MessageThreads -> MessageState]
    BY <1>1
<1>2. ASSUME NEW n \in MessageThreads, NEW p \in Pokemons, NEW localized \in BOOLEAN,
             NEW size \in Nat, ReceiveMessage(n, p, localized, size)
      PROVE  message' \in [MessageThreads -> MessageState] /\ appeared' \in Nat
    <2>1. size \in 0..MaxPokemons /\ appeared' \in Nat
        BY <1>2, BoundsAreNat DEF ReceiveMessage
    <2>2. [message[n] EXCEPT !.pc = "remaining", !.localized = localized,
                             !.pokemon = p, !.size = size] \in MessageState
        BY <2>1, ThreadUpdates
    <2>. QED BY <1>1, <1>2, <2>1, <2>2 DEF ReceiveMessage
<1>3. ASSUME NEW n \in MessageThreads, MessageStep(n)
      PROVE  message' \in [MessageThreads -> MessageState] /\ appeared' \in Nat
    <2>0. message[n] \in MessageState
        OBVIOUS
    <2>1. CASE ReadRemaining(n)
        <3>1. [message[n] EXCEPT !.pc = "count"] \in MessageState /\ NoThread("done") \in MessageState
            BY <2>0, ThreadUpdates
        <3>. QED BY <1>1, <2>1, <3>1 DEF ReadRemaining
    <2>2. CASE CountReceived(n)
        <3>. DEFINE q == Cardinality({i \in DOMAIN received : received[i] = message[n].pokemon})
                    has == being_caught[message[n].pokemon] > 0
        <3>1. q \in Nat /\ has \in BOOLEAN
            <4>1. message[n].pokemon \in Pokemons
                BY <2>0 DEF MessageState
            <4>2. being_caught[message[n].pokemon] \in Nat
                BY <4>1 DEF MatchTypes
            <4>3. q \in Nat
                BY CountsAreNat
            <4>. QED BY <4>2, <4>3
        <3>2. message' = [message EXCEPT ![n] = [message[n] EXCEPT !.pc = "decide", !.q = q, !.has = has]]
            BY <2>2 DEF CountReceived
        <3>. HIDE DEF q, has
        <3>3. [message[n] EXCEPT !.pc = "decide", !.q = q, !.has = has] \in MessageState
            BY <2>0, <3>1, ThreadUpdates
        <3>. QED BY <1>1, <2>2, <3>2, <3>3 DEF CountReceived
    <2>3. CASE DecideAppeared(n)
        <3>1. NoThread("done") \in MessageState /\ [message[n] EXCEPT !.pc = "backup"] \in MessageState
            BY <2>0, ThreadUpdates
        <3>. QED BY <1>1, <2>3, <3>1 DEF DecideAppeared
    <2>4. CASE DecideLocalized(n)
        <3>. DEFINE pc == IF ToCatch(n) > 0 THEN "add" ELSE "backup"
        <3>1. [message[n] EXCEPT !.pc = pc, !.size = ToCatch(n),
                                 !.rest = message[n].size - ToCatch(n)] \in MessageState
            BY <2>0, CountsAreNat, ThreadUpdates
        <3>2. message' = [message EXCEPT ![n] =
                            [message[n] EXCEPT !.pc = pc, !.size = ToCatch(n),
                                               !.rest = message[n].size - ToCatch(n)]]
            BY <2>4 DEF DecideLocalized
        <3>. QED BY <1>1, <2>4, <3>1, <3>2 DEF DecideLocalized
    <2>5. CASE DecideOnNothing(n)
        BY <2>5 DEF DecideOnNothing, Die, messageVars
    <2>6. CASE AddLocalized(n)
        <3>1. NoThread("done") \in MessageState /\ [message[n] EXCEPT !.pc = "backup"] \in MessageState
            BY <2>0, ThreadUpdates
        <3>. QED BY <1>1, <2>6, <3>1 DEF AddLocalized
    <2>7. CASE AddToBackup(n)
        <3>1. NoThread("done") \in MessageState
            BY <2>0, ThreadUpdates
        <3>. QED BY <1>1, <2>7, <3>1 DEF AddToBackup
    <2>. QED BY <1>3, <2>1, <2>2, <2>3, <2>4, <2>5, <2>6, <2>7 DEF MessageStep
<1>4. CASE ~ \E n \in MessageThreads :
                \/ MessageStep(n)
                \/ \E p \in Pokemons : \/ ReceiveMessage(n, p, FALSE, 1)
                                       \/ \E size \in 1..MaxPokemons : ReceiveMessage(n, p, TRUE, size)
    <2>1. UNCHANGED messageVars
        BY <1>4 DEF Next, vars, MatcherStep, LookForMatch, ChooseMatch, ChooseNothing, AddMatch, Plan,
            TrainerStep, Start, StepAndGoOn, StepAndPreempt,
            BecomeReady, CheckExec, Requeue, Resume, SendCatch, WaitCatch, CatchByDefault, DealWithDefault,
            ReceiveMessageId, CatchStep, Answered, Answer, HandleCaught, CountCaught, NoneInBackup,
            TakeFromBackup, MisreadBackup, Refill, NoLongerBeingCaught, BecomeFull, WakeMain,
            BecomeNew, BecomeAvailable, MatcherFrame, TrainerFrame, CatchFrame, Die
    <2>. QED BY <2>1 DEF messageVars
<1>5. ASSUME NEW n \in MessageThreads, NEW p \in Pokemons, ReceiveMessage(n, p, FALSE, 1)
      PROVE  message' \in [MessageThreads -> MessageState] /\ appeared' \in Nat
    BY <1>2, <1>5
<1>6. ASSUME NEW n \in MessageThreads, NEW p \in Pokemons, NEW size \in 1..MaxPokemons,
             ReceiveMessage(n, p, TRUE, size)
      PROVE  message' \in [MessageThreads -> MessageState] /\ appeared' \in Nat
    <2>1. size \in Nat
        BY BoundsAreNat
    <2>. QED BY <1>2, <1>6, <2>1
<1>. QED BY <1>3, <1>4, <1>5, <1>6

\* The list of pokemons to catch keeps its type.
LEMMA NextReceived ==
    ASSUME TeamTypes, [Next]_vars
    PROVE  received' \in Seq(Pokemons) /\ sem_appeared_pokemon' \in Nat
<1>. USE BoundsAreNat DEF TeamTypes, MessageTypes
<1>1. ASSUME NEW n \in MessageThreads, DecideAppeared(n)
      PROVE  received' \in Seq(Pokemons) /\ sem_appeared_pokemon' \in Nat
    <2>1. message[n].pokemon \in Pokemons
        BY DEF MessageState
    <2>2. Append(received, message[n].pokemon) \in Seq(Pokemons)
        BY <2>1, AppendProperties
    <2>3. \/ received' = Append(received, message[n].pokemon)
             /\ sem_appeared_pokemon' = sem_appeared_pokemon + 1
          \/ UNCHANGED <<received, sem_appeared_pokemon>>
        BY <1>1 DEF DecideAppeared
    <2>. QED BY <2>2, <2>3
<1>2. ASSUME NEW n \in MessageThreads, AddLocalized(n)
      PROVE  received' \in Seq(Pokemons) /\ sem_appeared_pokemon' \in Nat
    <2>1. message[n].pokemon \in Pokemons /\ message[n].size \in Nat
        BY DEF MessageState
    <2>2. [i \in 1..message[n].size |-> message[n].pokemon] \in Seq(Pokemons)
        BY <2>1
    <2>3. received \o [i \in 1..message[n].size |-> message[n].pokemon] \in Seq(Pokemons)
        BY <2>2, ConcatProperties
    <2>. QED BY <1>2, <2>1, <2>3 DEF AddLocalized
<1>3. ASSUME NEW c \in Catches, Refill(c)
      PROVE  received' \in Seq(Pokemons) /\ sem_appeared_pokemon' \in Nat
    <2>1. catch[c].backup \in Pokemons
        BY DEF CatchTypes, CatchState
    <2>2. /\ received' = Append(received, catch[c].backup)
          /\ sem_appeared_pokemon' = sem_appeared_pokemon + 1
        BY <1>3 DEF Refill
    <2>. QED BY <2>1, <2>2, AppendProperties
<1>4. CASE LookForMatch
    BY <1>4 DEF LookForMatch, SemWait
<1>5. CASE ChooseMatch
    <2>1. PICK i \in DOMAIN received : received' = RemoveAt(received, i)
        BY <1>5 DEF ChooseMatch, Candidates
    <2>. QED BY <1>5, <2>1, RemoveAtProperties DEF ChooseMatch
<1>6. CASE ~ \/ \E n \in MessageThreads : DecideAppeared(n) \/ AddLocalized(n)
             \/ \E c \in Catches : Refill(c)
             \/ LookForMatch \/ ChooseMatch
    <2>1. UNCHANGED <<received, sem_appeared_pokemon>>
        BY <1>6 DEF Next, vars, MessageStep, ReceiveMessage, ReadRemaining, CountReceived,
            DecideLocalized, DecideOnNothing, AddToBackup, MatcherStep, ChooseNothing, AddMatch, Plan,
            TrainerStep, Start, StepAndGoOn, StepAndPreempt,
            BecomeReady, CheckExec, Requeue, Resume, SendCatch, WaitCatch, CatchByDefault, DealWithDefault,
            ReceiveMessageId, CatchStep, Answered, Answer, HandleCaught, CountCaught, NoneInBackup,
            TakeFromBackup, MisreadBackup, NoLongerBeingCaught, BecomeFull, WakeMain,
            BecomeNew, BecomeAvailable, TrainerFrame, Die, listVars
    <2>. QED BY <2>1
<1>. QED BY <1>1, <1>2, <1>3, <1>4, <1>5, <1>6

\* The matcher and its list of matches keep their types.
LEMMA NextMatchTypes ==
    ASSUME TeamTypes, [Next]_vars
    PROVE  MatchTypes'
<1>. USE DEF TeamTypes
<1>1. CASE LookForMatch
    <2>. DEFINE wanted == {p \in Pokemons : remaining[p] > 0}
                has == {p \in Pokemons : being_caught[p] > 0}
    <2>1. wanted \in SUBSET Pokemons /\ has \in SUBSET Pokemons
        OBVIOUS
    <2>2. /\ matcher' = [matcher EXCEPT !.pc = "choose", !.wanted = wanted, !.has = has]
          /\ sem_trainer_available' = sem_trainer_available - 1 /\ sem_trainer_available > 0
          /\ UNCHANGED <<being_caught, matches, mutex_planning>>
        BY <1>1 DEF LookForMatch, SemWait, MatcherFrame
    <2>. HIDE DEF wanted, has
    <2>3. /\ matcher' \in [pc : {"wait", "choose", "add"}, wanted : SUBSET Pokemons,
                            has : SUBSET Pokemons, match : Match]
          /\ matcher'.pc = "choose"
        BY <2>1, <2>2 DEF MatchTypes
    <2>. QED BY <2>2, <2>3 DEF MatchTypes
<1>2. CASE ChooseMatch
    <2>1. PICK i \in Candidates, t \in {u \in Trainers : not_exec(u)} :
            /\ matcher' = [matcher EXCEPT !.pc = "add",
                                !.match = [trainer |-> t, pokemon |-> received[i]]]
            /\ being_caught' = [being_caught EXCEPT ![received[i]] = @ + 1]
        BY <1>2 DEF ChooseMatch
    <2>2. received[i] \in Pokemons
        BY <2>1, ElementOfSeq, LenProperties DEF Candidates, MessageTypes
    <2>3. UNCHANGED <<matches, mutex_planning, sem_trainer_available>>
        BY <1>2 DEF ChooseMatch, MatcherFrame
    <2>. DEFINE match == [trainer |-> t, pokemon |-> received[i]]
    <2>4. match \in Match /\ match.trainer \in Trainers
        BY <2>2 DEF Match
    <2>5. matcher' = [matcher EXCEPT !.pc = "add", !.match = match]
        BY <2>1
    <2>. HIDE DEF match
    <2>6. /\ matcher' \in [pc : {"wait", "choose", "add"}, wanted : SUBSET Pokemons,
                            has : SUBSET Pokemons, match : Match]
          /\ matcher'.match = match
        BY <2>4, <2>5 DEF MatchTypes
    <2>7. being_caught' \in [Pokemons -> Nat]
        BY <2>1, <2>2 DEF MatchTypes
    <2>. QED BY <2>3, <2>4, <2>6, <2>7 DEF MatchTypes
<1>3. CASE AddMatch
    <2>1. matcher.match \in PlannedMatch
        BY <1>3 DEF AddMatch, MatchTypes, Match, PlannedMatch
    <2>2. Append(matches, matcher.match) \in Seq(PlannedMatch)
        BY <2>1, AppendProperties DEF MatchTypes
    <2>3. /\ matches' = Append(matches, matcher.match)
          /\ matcher' = [matcher EXCEPT !.pc = "wait", !.wanted = {}, !.has = {}, !.match = NoMatch]
          /\ UNCHANGED <<being_caught, mutex_planning, sem_trainer_available>>
        BY <1>3 DEF AddMatch, MatcherFrame
    <2>4. NoMatch \in Match
        BY SomePokemon DEF NoMatch, Match
    <2>. QED BY <2>2, <2>3, <2>4 DEF MatchTypes
<1>4. CASE Plan
    <2>1. PICK i \in DOMAIN matches : matches' = RemoveAt(matches, i)
        BY <1>4 DEF Plan, NextToExec
    <2>2. RemoveAt(matches, i) \in Seq(PlannedMatch)
        BY RemoveAtProperties DEF MatchTypes
    <2>3. mutex_planning' = TRUE /\ UNCHANGED <<being_caught, matcher, sem_trainer_available>>
        BY <1>4 DEF Plan, TrainerFrame, counterVars
    <2>. QED BY <2>1, <2>2, <2>3 DEF MatchTypes
<1>5. ASSUME NEW t \in Trainers, Requeue(t) PROVE MatchTypes'
    <2>1. Requeued(t) \in Seq(PlannedMatch)
        <3>1. [trainer |-> t, pokemon |-> trainer[t].pokemon_to_catch] \in PlannedMatch
            BY DEF PlannedMatch, CatchTypes, TrainerState
        <3>. QED BY <3>1, EmptySeq DEF Requeued
    <2>2. matches \o Requeued(t) \in Seq(PlannedMatch)
        BY <2>1, ConcatProperties DEF MatchTypes
    <2>3. /\ matches' = matches \o Requeued(t)
          /\ UNCHANGED <<being_caught, matcher, sem_trainer_available, mutex_planning>>
        BY <1>5 DEF Requeue, TrainerFrame, counterVars
    <2>. QED BY <2>2, <2>3 DEF MatchTypes
<1>6. ASSUME NEW t \in Trainers, StepAndPreempt(t) \/ SendCatch(t) \/ CatchByDefault(t)
      PROVE  MatchTypes'
    <2>1. /\ mutex_planning' = FALSE
          /\ UNCHANGED <<being_caught, matcher, matches, sem_trainer_available>>
        BY <1>6 DEF StepAndPreempt, SendCatch, CatchByDefault, TrainerFrame, counterVars
    <2>. QED BY <2>1 DEF MatchTypes
<1>7. ASSUME NEW c \in Catches, NoLongerBeingCaught(c) PROVE MatchTypes'
    <2>1. /\ being_caught' = [being_caught EXCEPT ![Pokemon(c)] = OneLess(@)]
          /\ UNCHANGED <<matcher, matches, sem_trainer_available, mutex_planning>>
        BY <1>7 DEF NoLongerBeingCaught, CatchFrame, planVars
    <2>2. \A n \in Nat : OneLess(n) \in Nat
        BY DEF OneLess, Substract
    <2>3. being_caught' \in [Pokemons -> Nat]
        BY <2>1, <2>2 DEF MatchTypes
    <2>. QED BY <2>1, <2>3 DEF MatchTypes
<1>8. ASSUME NEW c \in Catches, BecomeAvailable(c) PROVE MatchTypes'
    <2>1. /\ sem_trainer_available' = sem_trainer_available + 1
          /\ UNCHANGED <<being_caught, matcher, matches, mutex_planning>>
        BY <1>8 DEF BecomeAvailable, CatchFrame, planVars, counterVars
    <2>. QED BY <2>1 DEF MatchTypes
<1>9. CASE ~ \/ LookForMatch \/ ChooseMatch \/ AddMatch \/ Plan
             \/ \E t \in Trainers : \/ StepAndPreempt(t) \/ Requeue(t) \/ SendCatch(t)
                                     \/ CatchByDefault(t)
             \/ \E c \in Catches : NoLongerBeingCaught(c) \/ BecomeAvailable(c)
    <2>1. UNCHANGED <<being_caught, matcher, matches, sem_trainer_available, mutex_planning>>
        BY <1>9, ZenonT(40) DEF Next, vars, MessageStep, ReceiveMessage, ReadRemaining, CountReceived,
            DecideAppeared, DecideLocalized, DecideOnNothing, AddLocalized, AddToBackup,
            MatcherStep, ChooseNothing, TrainerStep, Start, StepAndGoOn, BecomeReady, CheckExec,
            Resume, WaitCatch, DealWithDefault,
            ReceiveMessageId, CatchStep, Answered, Answer, HandleCaught, CountCaught, NoneInBackup,
            TakeFromBackup, MisreadBackup, Refill, BecomeFull, WakeMain, BecomeNew,
            MessageFrame, TrainerFrame, CatchFrame, Die, counterVars, planVars
    <2>. QED BY <2>1 DEF MatchTypes
<1>. QED BY <1>1, <1>2, <1>3, <1>4, <1>5, <1>6, <1>7, <1>8, <1>9

\* The steps of a trainer's thread change its record, to one of its type.
Turned(t, pc, sem, status, pcb) ==
    /\ trainer'[t].pc = pc /\ trainer'[t].sem = sem
    /\ trainer'[t].status = status /\ trainer'[t].pcb = pcb
    /\ \A u \in Trainers \ {t} : trainer'[u] = trainer[u]

\* Every step leaves these fields of a trainer's record as its code says, those of no other changed.
LEMMA TrainerSteps ==
    ASSUME TeamTypes, NEW t \in Trainers
    PROVE  LET r == trainer[t]
           IN  /\ AddMatch /\ t = matcher.match.trainer => Turned(t, r.pc, r.sem, "READY", r.pcb)
               /\ \A i \in DOMAIN matches :
                    t = matches[i].trainer
                        /\ trainer' = [trainer EXCEPT ![t] =
                                [@ EXCEPT !.pokemon_to_catch = matches[i].pokemon,
                                          !.status = "EXEC", !.sem = 1]]
                    => Turned(t, r.pc, 1, "EXEC", r.pcb)
               /\ Start(t) => Turned(t, "move", 0, r.status, "EXEC")
               /\ StepAndGoOn(t) => Turned(t, r.pc, r.sem, r.status, r.pcb)
               /\ StepAndPreempt(t) => Turned(t, "preempt", r.sem, r.status, r.pcb)
               /\ BecomeReady(t) => Turned(t, "ready", r.sem, "READY", r.pcb)
               /\ CheckExec(t) => \E pc \in {"requeue", "stranded"} :
                                        Turned(t, pc, r.sem, r.status, r.pcb)
               /\ Requeue(t) => Turned(t, "preempted", r.sem, r.status, r.pcb)
               /\ Resume(t) => Turned(t, "move", 0, r.status, r.pcb)
               /\ SendCatch(t) => Turned(t, "catch", r.sem, r.status, r.pcb)
               /\ WaitCatch(t) => Turned(t, "caught", r.sem, "CATCHING", r.pcb)
               /\ CatchByDefault(t) => Turned(t, "default", r.sem, r.status, r.pcb)
               /\ DealWithDefault(t) => Turned(t, "loop", r.sem, "CATCHING", r.pcb)
<1>0. trainer \in [Trainers -> TrainerState] /\ trainer[t] \in TrainerState
    BY DEF TeamTypes, CatchTypes
<1>1. AddMatch /\ t = matcher.match.trainer =>
            Turned(t, trainer[t].pc, trainer[t].sem, "READY", trainer[t].pcb)
    BY <1>0 DEF AddMatch, Turned, TrainerState
<1>2. ASSUME NEW p, trainer' = [trainer EXCEPT ![t] =
                [@ EXCEPT !.pokemon_to_catch = p, !.status = "EXEC", !.sem = 1]]
      PROVE  Turned(t, trainer[t].pc, 1, "EXEC", trainer[t].pcb)
    BY <1>0, <1>2 DEF Turned, TrainerState
<1>3. Start(t) => Turned(t, "move", 0, trainer[t].status, "EXEC")
    BY <1>0 DEF Start, Turned, TrainerState
<1>4. StepAndGoOn(t) => Turned(t, trainer[t].pc, trainer[t].sem, trainer[t].status, trainer[t].pcb)
    BY <1>0 DEF StepAndGoOn, Turned, TrainerState
<1>5. StepAndPreempt(t) => Turned(t, "preempt", trainer[t].sem, trainer[t].status, trainer[t].pcb)
    BY <1>0 DEF StepAndPreempt, Turned, TrainerState
<1>6. Resume(t) => Turned(t, "move", 0, trainer[t].status, trainer[t].pcb)
    BY <1>0 DEF Resume, Turned, TrainerState
<1>7. SendCatch(t) => Turned(t, "catch", trainer[t].sem, trainer[t].status, trainer[t].pcb)
    BY <1>0 DEF SendCatch, Turned, TrainerState
<1>8. CatchByDefault(t) => Turned(t, "default", trainer[t].sem, trainer[t].status, trainer[t].pcb)
    BY <1>0 DEF CatchByDefault, Turned, TrainerState
<1>9. BecomeReady(t) => Turned(t, "ready", trainer[t].sem, "READY", trainer[t].pcb)
    BY <1>0 DEF BecomeReady, Turned, TrainerState
<1>10. ASSUME CheckExec(t)
       PROVE  \E pc \in {"requeue", "stranded"} :
                Turned(t, pc, trainer[t].sem, trainer[t].status, trainer[t].pcb)
    <2>1. \E pc \in {"requeue", "stranded"} : trainer' = [trainer EXCEPT ![t].pc = pc]
        BY <1>10 DEF CheckExec
    <2>. QED BY <1>0, <2>1 DEF Turned, TrainerState
<1>11. Requeue(t) => Turned(t, "preempted", trainer[t].sem, trainer[t].status, trainer[t].pcb)
    BY <1>0 DEF Requeue, Turned, TrainerState
<1>12. WaitCatch(t) => Turned(t, "caught", trainer[t].sem, "CATCHING", trainer[t].pcb)
    BY <1>0 DEF WaitCatch, Turned, TrainerState
<1>13. DealWithDefault(t) => Turned(t, "loop", trainer[t].sem, "CATCHING", trainer[t].pcb)
    BY <1>0 DEF DealWithDefault, Turned, TrainerState
<1>. QED BY <1>1, <1>2, <1>3, <1>4, <1>5, <1>6, <1>7, <1>8, <1>9, <1>10, <1>11, <1>12, <1>13

\* What the threads that deal with a catch change of a trainer is not what it executes.
SameBut(t, status, pcb) ==
    \A u \in Trainers :
        /\ trainer'[u].pc = trainer[u].pc \/ (trainer[u].pc = "caught" /\ trainer'[u].pc = "loop")
        /\ trainer'[u].sem = trainer[u].sem
        /\ trainer'[u].status = IF u = t THEN status ELSE trainer[u].status
        /\ trainer'[u].pcb = IF u = t THEN pcb ELSE trainer[u].pcb

\* What the outcome of a catch changes of its trainer's thread and pcb: little.
LEMMA OutcomeSteps ==
    ASSUME TeamTypes, NEW c \in Catches
    PROVE  LET t == catch[c].trainer
               r == trainer[t]
           IN  /\ ReceiveMessageId(c) \/ Answered(c) \/ CountCaught(c)
                    \/ (\E m \in caught_messages : HandleCaught(m)) => SameBut(t, r.status, r.pcb)
               /\ BecomeFull(c) => \E status \in {"FULL", "EXIT"} : SameBut(t, status, r.pcb)
               /\ BecomeNew(c) => SameBut(t, r.status, "NEW")
               /\ BecomeAvailable(c) => SameBut(t, "BLOCK", r.pcb)
<1>0. trainer \in [Trainers -> TrainerState]
    BY DEF TeamTypes, CatchTypes
<1>. DEFINE t == catch[c].trainer
<1>1. ReceiveMessageId(c) => SameBut(t, trainer[t].status, trainer[t].pcb)
    BY <1>0 DEF ReceiveMessageId, SameBut, TrainerState
<1>2. Answered(c) => SameBut(t, trainer[t].status, trainer[t].pcb)
    BY <1>0 DEF Answered, SameBut, TrainerState
<1>3. CountCaught(c) => SameBut(t, trainer[t].status, trainer[t].pcb)
    <2>1. ASSUME NEW p, trainer' = [trainer EXCEPT ![t].caught[p] = @ + 1]
          PROVE  SameBut(t, trainer[t].status, trainer[t].pcb)
        BY <1>0, <2>1 DEF SameBut, TrainerState
    <2>. QED BY <2>1 DEF CountCaught
<1>4. ASSUME NEW m \in caught_messages, HandleCaught(m)
      PROVE  SameBut(t, trainer[t].status, trainer[t].pcb)
    <2>1. \/ trainer' = trainer
          \/ \E u \in Trainers :
                trainer' = [trainer EXCEPT ![u] = [@ EXCEPT !.result_catch = m.result, !.sem_caught = 1]]
        BY <1>4 DEF HandleCaught, Named
    <2>2. ASSUME NEW u \in Trainers,
                 trainer' = [trainer EXCEPT ![u] = [@ EXCEPT !.result_catch = m.result, !.sem_caught = 1]]
          PROVE  SameBut(t, trainer[t].status, trainer[t].pcb)
        BY <1>0, <2>2 DEF SameBut, TrainerState
    <2>3. trainer' = trainer => SameBut(t, trainer[t].status, trainer[t].pcb)
        BY DEF SameBut
    <2>. QED BY <2>1, <2>2, <2>3
<1>5. BecomeFull(c) => \E status \in {"FULL", "EXIT"} : SameBut(t, status, trainer[t].pcb)
    <2>1. ASSUME NEW status, trainer' = [trainer EXCEPT ![t].status = status]
          PROVE  SameBut(t, status, trainer[t].pcb)
        BY <1>0, <2>1 DEF SameBut, TrainerState
    <2>2. FullStatus(t, trainer[t].caught) \in {"FULL", "EXIT"}
        BY DEF FullStatus
    <2>. QED BY <2>1, <2>2 DEF BecomeFull
<1>6. BecomeNew(c) => SameBut(t, trainer[t].status, "NEW")
    BY <1>0 DEF BecomeNew, SameBut, TrainerState
<1>7. BecomeAvailable(c) => SameBut(t, "BLOCK", trainer[t].pcb)
    BY <1>0 DEF BecomeAvailable, SameBut, TrainerState
<1>. QED BY <1>1, <1>2, <1>3, <1>4, <1>5, <1>6, <1>7

\* A trainer's record keeps its type under each of the updates.
LEMMA TrainerUpdates ==
    ASSUME NEW r \in TrainerState
    PROVE  /\ \A p \in Pokemons :
                [r EXCEPT !.pokemon_to_catch = p, !.status = "EXEC", !.sem = 1] \in TrainerState
           /\ \A quantum \in 0..QUANTUM, left \in 0..MaxDistance :
                [r EXCEPT !.left = left, !.quantum = quantum] \in TrainerState
           /\ \A result \in {0, 1} :
                [r EXCEPT !.result_catch = result, !.sem_caught = 1] \in TrainerState
           /\ \A c \in Nat : [r EXCEPT !.id_message = c] \in TrainerState
           /\ [r EXCEPT !.pc = "loop", !.sem_caught = 0] \in TrainerState
           /\ \A p \in Pokemons : [r EXCEPT !.caught[p] = @ + 1] \in TrainerState
           /\ \A status \in {"READY", "FULL", "EXIT"} : [r EXCEPT !.status = status] \in TrainerState
           /\ [r EXCEPT !.pcb = "NEW"] \in TrainerState
           /\ [r EXCEPT !.status = "BLOCK", !.quantum = 0] \in TrainerState
<1>1. \A p \in Pokemons : [r EXCEPT !.caught[p] = @ + 1] \in TrainerState
    <2>. TAKE p \in Pokemons
    <2>. DEFINE caught == [r.caught EXCEPT ![p] = @ + 1]
    <2>0. r.caught \in [Pokemons -> Nat]
        BY DEF TrainerState
    <2>1. caught \in [Pokemons -> Nat]
        BY <2>0
    <2>2. [r EXCEPT !.caught[p] = @ + 1] = [r EXCEPT !.caught = caught]
        OBVIOUS
    <2>. HIDE DEF caught
    <2>3. [r EXCEPT !.caught = caught] \in TrainerState
        BY <2>1 DEF TrainerState
    <2>. QED BY <2>2, <2>3
<1>2. [r EXCEPT !.status = "BLOCK", !.quantum = 0] \in TrainerState
    <2>1. 0 \in 0..QUANTUM
        BY BoundsAreNat
    <2>. QED BY <2>1 DEF TrainerState
<1>3. \A quantum \in 0..QUANTUM, left \in 0..MaxDistance :
        [r EXCEPT !.left = left, !.quantum = quantum] \in TrainerState
    BY DEF TrainerState
<1>4. \A result \in {0, 1} : [r EXCEPT !.result_catch = result, !.sem_caught = 1] \in TrainerState
    BY DEF TrainerState
<1>5. \A c \in Nat : [r EXCEPT !.id_message = c] \in TrainerState
    BY DEF TrainerState
<1>6. /\ [r EXCEPT !.pc = "loop", !.sem_caught = 0] \in TrainerState
      /\ [r EXCEPT !.pcb = "NEW"] \in TrainerState
    BY DEF TrainerState
<1>7. /\ \A status \in {"READY", "FULL", "EXIT"} : [r EXCEPT !.status = status] \in TrainerState
      /\ \A p \in Pokemons :
            [r EXCEPT !.pokemon_to_catch = p, !.status = "EXEC", !.sem = 1] \in TrainerState
    BY DEF TrainerState
<1>. QED BY <1>1, <1>2, <1>3, <1>4, <1>5, <1>6, <1>7

\* The trainers keep their types.
LEMMA NextTrainer ==
    ASSUME TeamTypes, [Next]_vars
    PROVE  trainer' \in [Trainers -> TrainerState]
<1>. USE DEF TeamTypes
<1>0. trainer \in [Trainers -> TrainerState]
    BY DEF CatchTypes
<1>1. ASSUME NEW t \in Trainers, NEW r \in TrainerState, trainer' = [trainer EXCEPT ![t] = r]
      PROVE  trainer' \in [Trainers -> TrainerState]
    BY <1>0, <1>1
<1>2. CASE AddMatch
    <2>. DEFINE t == matcher.match.trainer
    <2>1. t \in Trainers => [trainer[t] EXCEPT !.status = "READY"] \in TrainerState
        BY <1>0, TrainerUpdates
    <2>2. trainer' = [trainer EXCEPT ![t] = [trainer[t] EXCEPT !.status = "READY"]]
        BY <1>2 DEF AddMatch
    <2>3. t \in Trainers
        BY <1>2 DEF AddMatch, MatchTypes
    <2>. QED BY <1>1, <2>1, <2>2, <2>3
<1>3. CASE Plan
    <2>1. PICK i \in DOMAIN matches :
            trainer' = [trainer EXCEPT ![matches[i].trainer] =
                            [trainer[matches[i].trainer] EXCEPT
                                !.pokemon_to_catch = matches[i].pokemon,
                                !.status = "EXEC", !.sem = 1]]
        BY <1>3 DEF Plan, NextToExec
    <2>2. matches[i] \in PlannedMatch
        BY ElementOfSeq, LenProperties DEF MatchTypes
    <2>3. matches[i].trainer \in Trainers /\ matches[i].pokemon \in Pokemons
        BY <2>2 DEF PlannedMatch
    <2>4. [trainer[matches[i].trainer] EXCEPT !.pokemon_to_catch = matches[i].pokemon,
                                              !.status = "EXEC", !.sem = 1] \in TrainerState
        BY <1>0, <2>3, TrainerUpdates
    <2>. QED BY <1>1, <2>1, <2>3, <2>4
<1>4. ASSUME NEW t \in Trainers, TrainerStep(t)
      PROVE  trainer' \in [Trainers -> TrainerState]
    <2>0. trainer[t] \in TrainerState
        BY <1>0
    <2>1. ASSUME NEW distance \in 0..MaxDistance
          PROVE  [trainer[t] EXCEPT !.pc = "move", !.sem = 0, !.pcb = "EXEC",
                                    !.left = distance] \in TrainerState
        BY <2>0 DEF TrainerState
    <2>2. CASE Start(t)
        <3>1. PICK distance \in 0..MaxDistance :
                trainer' = [trainer EXCEPT ![t] =
                    [trainer[t] EXCEPT !.pc = "move", !.sem = 0, !.pcb = "EXEC", !.left = distance]]
            BY <2>2 DEF Start
        <3>. QED BY <1>1, <2>1, <3>1
    <2>3. CASE StepAndGoOn(t)
        <3>. DEFINE quantum == trainer[t].quantum + (IF algorithm = "RR" THEN 1 ELSE 0)
        <3>1. trainer[t].left - 1 \in 0..MaxDistance /\ quantum \in 0..QUANTUM
            BY <2>0, <2>3, BoundsAreNat DEF StepAndGoOn, GoesOn, TrainerState
        <3>2. [trainer[t] EXCEPT !.left = trainer[t].left - 1, !.quantum = quantum] \in TrainerState
            BY <2>0, <3>1, TrainerUpdates
        <3>3. trainer' = [trainer EXCEPT ![t] =
                            [trainer[t] EXCEPT !.left = trainer[t].left - 1, !.quantum = quantum]]
            BY <2>3 DEF StepAndGoOn
        <3>. QED BY <1>1, <3>2, <3>3
    <2>4. CASE StepAndPreempt(t)
        <3>1. trainer[t].left - 1 \in 0..MaxDistance /\ 0 \in 0..QUANTUM
            BY <2>0, <2>4, BoundsAreNat, SMTT(30) DEF StepAndPreempt, TrainerState
        <3>. DEFINE r == [trainer[t] EXCEPT !.pc = "preempt", !.left = trainer[t].left - 1,
                                           !.quantum = 0]
        <3>2. r \in TrainerState
            BY <2>0, <3>1 DEF TrainerState
        <3>3. trainer' = [trainer EXCEPT ![t] = r]
            BY <2>4 DEF StepAndPreempt
        <3>. HIDE DEF r
        <3>. QED BY <1>1, <3>2, <3>3
    <2>5. CASE Resume(t)
        <3>1. [trainer[t] EXCEPT !.pc = "move", !.sem = 0] \in TrainerState
            BY <2>0 DEF TrainerState
        <3>. QED BY <1>1, <2>5, <3>1 DEF Resume
    <2>6. CASE SendCatch(t)
        <3>1. [trainer[t] EXCEPT !.pc = "catch"] \in TrainerState
            BY <2>0 DEF TrainerState
        <3>. QED BY <1>1, <2>6, <3>1 DEF SendCatch
    <2>7. CASE CatchByDefault(t)
        <3>1. [trainer[t] EXCEPT !.pc = "default", !.result_catch = 1] \in TrainerState
            BY <2>0 DEF TrainerState
        <3>. QED BY <1>1, <2>7, <3>1 DEF CatchByDefault
    <2>8. CASE BecomeReady(t)
        <3>1. [trainer[t] EXCEPT !.pc = "ready", !.status = "READY"] \in TrainerState
            BY <2>0 DEF TrainerState
        <3>. QED BY <1>1, <2>8, <3>1 DEF BecomeReady
    <2>9. CASE CheckExec(t)
        <3>1. \A pc \in {"requeue", "stranded"} : [trainer[t] EXCEPT !.pc = pc] \in TrainerState
            BY <2>0 DEF TrainerState
        <3>. QED BY <1>1, <2>9, <3>1 DEF CheckExec
    <2>10. CASE Requeue(t)
        <3>1. [trainer[t] EXCEPT !.pc = "preempted"] \in TrainerState
            BY <2>0 DEF TrainerState
        <3>. QED BY <1>1, <2>10, <3>1 DEF Requeue
    <2>11. CASE WaitCatch(t)
        <3>1. [trainer[t] EXCEPT !.pc = "caught", !.status = "CATCHING"] \in TrainerState
            BY <2>0 DEF TrainerState
        <3>. QED BY <1>1, <2>11, <3>1 DEF WaitCatch
    <2>12. CASE DealWithDefault(t)
        <3>1. [trainer[t] EXCEPT !.pc = "loop", !.status = "CATCHING"] \in TrainerState
            BY <2>0 DEF TrainerState
        <3>. QED BY <1>1, <2>12, <3>1 DEF DealWithDefault
    <2>. QED BY <1>4, <2>2, <2>3, <2>4, <2>5, <2>6, <2>7, <2>8, <2>9, <2>10, <2>11, <2>12 DEF TrainerStep
<1>5. ASSUME NEW m \in caught_messages, HandleCaught(m)
      PROVE  trainer' \in [Trainers -> TrainerState]
    <2>1. \/ trainer' = trainer
          \/ \E u \in Trainers :
                trainer' = [trainer EXCEPT ![u] =
                                [trainer[u] EXCEPT !.result_catch = m.result, !.sem_caught = 1]]
        BY <1>5 DEF HandleCaught, Named
    <2>2. m.result \in {0, 1}
        BY DEF CatchTypes, AnyMessage
    <2>3. ASSUME NEW u \in Trainers
          PROVE  [trainer[u] EXCEPT !.result_catch = m.result, !.sem_caught = 1] \in TrainerState
        BY <1>0, <2>2, TrainerUpdates
    <2>. QED BY <1>0, <1>1, <2>1, <2>3
<1>6. ASSUME NEW c \in Catches, ReceiveMessageId(c) \/ CatchStep(c)
      PROVE  trainer' \in [Trainers -> TrainerState]
    <2>. DEFINE t == catch[c].trainer
    <2>1. ASSUME NEW r, t \in Trainers => r \in TrainerState, trainer' = [trainer EXCEPT ![t] = r]
          PROVE  trainer' \in [Trainers -> TrainerState]
        BY <1>0, <2>1
    <2>2. CASE ReceiveMessageId(c)
        <3>1. t \in Trainers => [trainer[t] EXCEPT !.id_message = c] \in TrainerState
            <4>1. c \in Nat
                BY BoundsAreNat DEF Catches
            <4>. QED BY <1>0, <4>1, TrainerUpdates
        <3>. QED BY <2>1, <2>2, <3>1 DEF ReceiveMessageId
    <2>3. CASE Answered(c)
        <3>1. t \in Trainers => [trainer[t] EXCEPT !.pc = "loop", !.sem_caught = 0] \in TrainerState
            BY <1>0, TrainerUpdates
        <3>. QED BY <2>1, <2>3, <3>1 DEF Answered
    <2>4. CASE CountCaught(c)
        <3>1. t \in Trainers => Pokemon(c) \in Pokemons
            BY <1>0 DEF TrainerState, Pokemon
        <3>2. t \in Trainers => [trainer[t] EXCEPT !.caught[Pokemon(c)] = @ + 1] \in TrainerState
            BY <1>0, <3>1, TrainerUpdates
        <3>3. trainer' = [trainer EXCEPT ![t] = [trainer[t] EXCEPT !.caught[Pokemon(c)] = @ + 1]]
            BY <2>4 DEF CountCaught
        <3>. QED BY <2>1, <3>2, <3>3
    <2>5. CASE BecomeFull(c)
        <3>1. t \in Trainers => \A status \in {"FULL", "EXIT"} :
                    [trainer[t] EXCEPT !.status = status] \in TrainerState
            BY <1>0, TrainerUpdates
        <3>2. FullStatus(t, trainer[t].caught) \in {"FULL", "EXIT"}
            BY DEF FullStatus
        <3>. QED BY <2>1, <2>5, <3>1, <3>2 DEF BecomeFull
    <2>6. CASE BecomeNew(c)
        <3>1. t \in Trainers => [trainer[t] EXCEPT !.pcb = "NEW"] \in TrainerState
            BY <1>0, TrainerUpdates
        <3>. QED BY <2>1, <2>6, <3>1 DEF BecomeNew
    <2>7. CASE BecomeAvailable(c)
        <3>1. t \in Trainers => [trainer[t] EXCEPT !.status = "BLOCK", !.quantum = 0] \in TrainerState
            BY <1>0, TrainerUpdates
        <3>. QED BY <2>1, <2>7, <3>1 DEF BecomeAvailable
    <2>8. CASE ~ \/ ReceiveMessageId(c) \/ Answered(c) \/ CountCaught(c) \/ BecomeFull(c)
                 \/ BecomeNew(c) \/ BecomeAvailable(c)
        BY <1>0, <1>6, <2>8 DEF CatchStep, NoneInBackup, TakeFromBackup, MisreadBackup, Refill,
            NoLongerBeingCaught, WakeMain, Die
    <2>. QED BY <2>2, <2>3, <2>4, <2>5, <2>6, <2>7, <2>8
<1>7. CASE ~ \/ AddMatch \/ Plan \/ \E t \in Trainers : TrainerStep(t)
             \/ \E m \in caught_messages : HandleCaught(m)
             \/ \E c \in Catches : ReceiveMessageId(c) \/ CatchStep(c)
    <2>1. UNCHANGED trainer
        BY <1>7 DEF Next, vars, MessageStep, ReceiveMessage, ReadRemaining, CountReceived,
            DecideAppeared, DecideLocalized, DecideOnNothing, AddLocalized, AddToBackup,
            MatcherStep, LookForMatch, ChooseMatch, ChooseNothing, Answer, MessageFrame, Die
    <2>. QED BY <1>0, <2>1
<1>. QED BY <1>2, <1>3, <1>4, <1>5, <1>6, <1>7

\* A catch's record keeps its type under each of the updates.
LEMMA CatchUpdates ==
    ASSUME NEW r \in CatchState
    PROVE  /\ [r EXCEPT !.id = "known"] \in CatchState
           /\ \A pc \in {"result", "being caught", "full?", "all full?", "block", "done"} :
                [r EXCEPT !.pc = pc] \in CatchState
           /\ \A p \in Pokemons : [r EXCEPT !.pc = "refill", !.backup = p] \in CatchState
           /\ \A t \in Trainers : /\ [r EXCEPT !.trainer = t, !.id = "sent"] \in CatchState
                                  /\ [r EXCEPT !.trainer = t] \in CatchState
<1>1. /\ [r EXCEPT !.id = "known"] \in CatchState
      /\ \A pc \in {"result", "being caught", "full?", "all full?", "block", "done"} :
            [r EXCEPT !.pc = pc] \in CatchState
    BY DEF CatchState
<1>2. \A p \in Pokemons : [r EXCEPT !.pc = "refill", !.backup = p] \in CatchState
    BY DEF CatchState
<1>3. \A t \in Trainers : /\ [r EXCEPT !.trainer = t, !.id = "sent"] \in CatchState
                          /\ [r EXCEPT !.trainer = t] \in CatchState
    BY DEF CatchState
<1>. QED BY <1>1, <1>2, <1>3

\* A step of a catch's threads takes it to another point, and no other catch.
To(c, pc) ==
    /\ c <= catches
    /\ catches' = catches
    /\ \A d \in Catches :
        /\ catch'[d].trainer = catch[d].trainer /\ catch'[d].id = catch[d].id
        /\ catch'[d].pc = IF d = c THEN pc ELSE catch[d].pc

BeforeFull == {"none", "result", "refill", "being caught", "full?"}

\* Where each step takes the thread that deals with a catch.
LEMMA CatchSteps ==
    ASSUME TeamTypes, NEW c \in Catches
    PROVE  /\ (\/ Answered(c) \/ CountCaught(c) \/ NoneInBackup(c) \/ TakeFromBackup(c)
               \/ Refill(c) \/ NoLongerBeingCaught(c))
                => catch[c].pc \in BeforeFull /\ \E pc \in BeforeFull \ {"none"} : To(c, pc)
           /\ BecomeFull(c) => catch[c].pc = "full?" /\ To(c, "all full?")
           /\ WakeMain(c) => catch[c].pc = "all full?" /\ To(c, "done")
           /\ BecomeNew(c) => catch[c].pc = "full?" /\ To(c, "block")
           /\ BecomeAvailable(c) => catch[c].pc = "block" /\ To(c, "done")
<1>. USE DEF TeamTypes
<1>0. catch \in [Catches -> CatchState] /\ catch[c] \in CatchState /\ c \in Nat /\ catches \in Nat
    BY BoundsAreNat DEF CatchTypes, Catches
<1>1. ASSUME catch[c].id # "none" \/ catch[c].pc # "none" PROVE c <= catches
    BY <1>0, <1>1 DEF CatchesBegun
<1>2. ASSUME NEW pc, catches' = catches, catch[c].id # "none" \/ catch[c].pc # "none",
             catch' = [catch EXCEPT ![c].pc = pc]
      PROVE  To(c, pc)
    BY <1>0, <1>1, <1>2 DEF To, CatchState
<1>3. Answered(c) => catch[c].pc \in BeforeFull /\ To(c, "result")
    BY <1>2 DEF Answered, CatchFrame, BeforeFull
<1>4. CountCaught(c) \/ NoneInBackup(c) \/ Refill(c) => catch[c].pc \in BeforeFull /\ To(c, "being caught")
    BY <1>2 DEF CountCaught, NoneInBackup, Refill, CatchFrame, BeforeFull
<1>5. ASSUME TakeFromBackup(c) PROVE catch[c].pc \in BeforeFull /\ To(c, "refill")
    <2>1. /\ catch' = [catch EXCEPT ![c] = [@ EXCEPT !.pc = "refill", !.backup = Pokemon(c)]]
          /\ catch[c].pc = "result" /\ catches' = catches
        BY <1>5 DEF TakeFromBackup, CatchFrame
    <2>. QED BY <1>0, <1>1, <2>1 DEF To, CatchState, BeforeFull
<1>6. NoLongerBeingCaught(c) => catch[c].pc \in BeforeFull /\ To(c, "full?")
    BY <1>2 DEF NoLongerBeingCaught, CatchFrame, BeforeFull
<1>7. ASSUME BecomeFull(c) PROVE catch[c].pc = "full?" /\ To(c, "all full?")
    <2>1. /\ catch[c].pc = "full?" /\ catches' = catches
          /\ catch' = [catch EXCEPT ![c].pc = "all full?"]
        BY <1>7 DEF BecomeFull, CatchFrame
    <2>. QED BY <1>2, <2>1
<1>8. ASSUME WakeMain(c) PROVE catch[c].pc = "all full?" /\ To(c, "done")
    <2>1. /\ catch[c].pc = "all full?" /\ catches' = catches
          /\ catch' = [catch EXCEPT ![c].pc = "done"]
        BY <1>8 DEF WakeMain, CatchFrame
    <2>. QED BY <1>2, <2>1
<1>9. ASSUME BecomeNew(c) PROVE catch[c].pc = "full?" /\ To(c, "block")
    <2>1. /\ catch[c].pc = "full?" /\ catches' = catches
          /\ catch' = [catch EXCEPT ![c].pc = "block"]
        BY <1>9 DEF BecomeNew, CatchFrame
    <2>. QED BY <1>2, <2>1
<1>10. ASSUME BecomeAvailable(c) PROVE catch[c].pc = "block" /\ To(c, "done")
    <2>1. /\ catch[c].pc = "block" /\ catches' = catches
          /\ catch' = [catch EXCEPT ![c].pc = "done"]
        BY <1>10 DEF BecomeAvailable, CatchFrame
    <2>. QED BY <1>2, <2>1
<1>. QED BY <1>3, <1>4, <1>5, <1>6, <1>7, <1>8, <1>9, <1>10 DEF BeforeFull

\* A catch counted by default gets the thread that deals with it.
DealtByDefault(t, c) ==
    /\ trainer[t].pc = "default"
    /\ catch[c].trainer = t /\ catch[c].id = "none" /\ catch[c].pc = "none"
    /\ catch' = [catch EXCEPT ![c].pc = "result"] /\ catches' = catches

LEMMA DefaultStep ==
    ASSUME TeamTypes, NEW t \in Trainers, DealWithDefault(t)
    PROVE  \E c \in Catches : DealtByDefault(t, c) /\ To(c, "result")
<1>0. catch \in [Catches -> CatchState] /\ catches \in Nat
    BY DEF TeamTypes, CatchTypes
<1>1. PICK c \in Catches : DealtByDefault(t, c)
    BY DEF DealWithDefault, DealtByDefault, TrainerFrame
<1>2. c <= catches
    <2>1. catch[c].trainer # Nobody
        BY <1>1, ObjectivesAreSet DEF DealtByDefault, Nobody
    <2>. QED BY <1>0, <2>1, BoundsAreNat DEF TeamTypes, CatchesBegun, Catches
<1>3. To(c, "result")
    BY <1>0, <1>1, <1>2 DEF DealtByDefault, To, CatchState
<1>. QED BY <1>1, <1>3

\* A trainer's catch is the next one, of which nothing is done, and nobody else's changes.
Begun(t) ==
    /\ catches' = catches + 1
    /\ \A d \in Catches :
        IF d = catches + 1 THEN catch'[d].trainer = t /\ catch'[d].pc = "none"
        ELSE catch'[d] = catch[d]

\* A trainer that sends CATCH, or cannot, begins the next catch.
LEMMA BegunSteps ==
    ASSUME TeamTypes, NEW t \in Trainers, SendCatch(t) \/ CatchByDefault(t)
    PROVE  Begun(t)
<1>0. catch \in [Catches -> CatchState] /\ catches \in Nat
    BY DEF TeamTypes, CatchTypes
<1>1. \A d \in Catches : d = catches + 1 => catch[d].pc = "none"
    BY <1>0, BoundsAreNat DEF TeamTypes, CatchesBegun, Catches
<1>2. ASSUME NEW r, catches + 1 \in Catches => (r.trainer = t /\ r.pc = "none"),
             catches' = catches + 1, catch' = [catch EXCEPT ![catches + 1] = r]
      PROVE  Begun(t)
    BY <1>0, <1>2 DEF Begun
<1>3. CASE SendCatch(t)
    <2>1. /\ catches' = catches + 1
          /\ catch' = [catch EXCEPT ![catches + 1] =
                [catch[catches + 1] EXCEPT !.trainer = t, !.id = "sent"]]
        BY <1>3 DEF SendCatch
    <2>2. ASSUME catches + 1 \in Catches
          PROVE  LET r == [catch[catches + 1] EXCEPT !.trainer = t, !.id = "sent"]
                 IN  r.trainer = t /\ r.pc = "none"
        BY <1>0, <1>1, <2>2 DEF CatchState
    <2>. QED BY <1>2, <2>1, <2>2
<1>4. CASE CatchByDefault(t)
    <2>1. /\ catches' = catches + 1
          /\ catch' = [catch EXCEPT ![catches + 1] = [catch[catches + 1] EXCEPT !.trainer = t]]
        BY <1>4 DEF CatchByDefault
    <2>2. ASSUME catches + 1 \in Catches
          PROVE  LET r == [catch[catches + 1] EXCEPT !.trainer = t]
                 IN  r.trainer = t /\ r.pc = "none"
        BY <1>0, <1>1, <2>2 DEF CatchState
    <2>. QED BY <1>2, <2>1, <2>2
<1>. QED BY <1>3, <1>4

\* The threads of the catches keep their types.
LEMMA NextCatches ==
    ASSUME TeamTypes, [Next]_vars
    PROVE  /\ catch' \in [Catches -> CatchState] /\ catches' \in Nat
           /\ caught_messages' \in SUBSET AnyMessage
           /\ CatchesBegun'
<1>. USE DEF TeamTypes
<1>0. /\ catch \in [Catches -> CatchState] /\ catches \in Nat
      /\ trainer \in [Trainers -> TrainerState]
      /\ \A d \in Catches : d \in Nat
    BY BoundsAreNat DEF CatchTypes, Catches
<1>1. ASSUME NEW c \in Catches, NEW r \in CatchState, catch' = [catch EXCEPT ![c] = r]
      PROVE  catch' \in [Catches -> CatchState]
    BY <1>0, <1>1
<1>2. ASSUME NEW t \in Trainers, SendCatch(t) \/ CatchByDefault(t)
      PROVE  /\ catch' \in [Catches -> CatchState] /\ catches' \in Nat
             /\ caught_messages' \in SUBSET AnyMessage
             /\ CatchesBegun'
    <2>1. catches' \in Nat /\ caught_messages' = caught_messages
        BY <1>0, <1>2 DEF SendCatch, CatchByDefault, TrainerFrame, answerVars
    <2>2. \E r : /\ catches + 1 \in Catches => r \in CatchState
                 /\ catch' = [catch EXCEPT ![catches + 1] = r]
        <3>1. CASE SendCatch(t)
            <4>1. catch' = [catch EXCEPT ![catches + 1] =
                        [catch[catches + 1] EXCEPT !.trainer = t, !.id = "sent"]]
                BY <3>1 DEF SendCatch
            <4>2. catches + 1 \in Catches =>
                    [catch[catches + 1] EXCEPT !.trainer = t, !.id = "sent"] \in CatchState
                BY <1>0, CatchUpdates
            <4>. QED BY <4>1, <4>2
        <3>2. CASE CatchByDefault(t)
            <4>1. catch' = [catch EXCEPT ![catches + 1] =
                        [catch[catches + 1] EXCEPT !.trainer = t]]
                BY <3>2 DEF CatchByDefault
            <4>2. catches + 1 \in Catches =>
                    [catch[catches + 1] EXCEPT !.trainer = t] \in CatchState
                BY <1>0, CatchUpdates
            <4>. QED BY <4>1, <4>2
        <3>. QED BY <1>2, <3>1, <3>2
    <2>3. catch' \in [Catches -> CatchState]
        BY <1>0, <2>2
    <2>4. CatchesBegun'
        <3>1. Begun(t)
            BY <1>2, BegunSteps
        <3>. QED BY <1>0, <3>1 DEF CatchesBegun, Begun
    <2>. QED BY <2>1, <2>3, <2>4 DEF CatchTypes
<1>3. ASSUME NEW c \in Catches, CatchStep(c)
      PROVE  /\ catch' \in [Catches -> CatchState] /\ catches' \in Nat
             /\ caught_messages' \in SUBSET AnyMessage
             /\ CatchesBegun'
    <2>1. UNCHANGED <<catches, caught_messages>>
        BY <1>3 DEF CatchStep, Answered, CountCaught, NoneInBackup, TakeFromBackup, MisreadBackup,
            Refill, NoLongerBeingCaught, BecomeFull, WakeMain, BecomeNew, BecomeAvailable,
            CatchFrame, Die, answerVars, catchVars
    <2>2. catch' \in [Catches -> CatchState]
        <3>1. catch[c] \in CatchState
            BY <1>0
        <3>2. CASE TakeFromBackup(c)
            <4>1. catch[c].pc # "none"
                BY <3>2 DEF TakeFromBackup
            <4>2. catch[c].trainer \in Trainers
                BY <1>0, <4>1 DEF CatchesBegun
            <4>3. Pokemon(c) \in Pokemons
                BY <1>0, <4>2 DEF Pokemon, TrainerState
            <4>4. [catch[c] EXCEPT !.pc = "refill", !.backup = Pokemon(c)] \in CatchState
                BY <3>1, <4>3, CatchUpdates
            <4>. QED BY <1>1, <3>2, <4>4 DEF TakeFromBackup
        <3>3. CASE MisreadBackup(c)
            BY <1>0, <3>3 DEF MisreadBackup, Die, catchVars
        <3>4. CASE ~TakeFromBackup(c) /\ ~MisreadBackup(c)
            <4>1. \E pc \in {"result", "being caught", "full?", "all full?", "block", "done"} :
                    catch' = [catch EXCEPT ![c] = [catch[c] EXCEPT !.pc = pc]]
                BY <1>3, <3>4 DEF CatchStep, Answered, CountCaught, NoneInBackup, Refill,
                    NoLongerBeingCaught, BecomeFull, WakeMain, BecomeNew, BecomeAvailable
            <4>. QED BY <1>1, <3>1, <4>1, CatchUpdates
        <3>. QED BY <3>2, <3>3, <3>4
    <2>3. CatchesBegun'
        <3>1. CASE MisreadBackup(c)
            <4>1. UNCHANGED <<catch, catches>>
                BY <3>1 DEF MisreadBackup, Die, catchVars
            <4>. QED BY <4>1 DEF CatchesBegun
        <3>2. ASSUME NEW pc, To(c, pc) PROVE CatchesBegun'
            <4>1. \A d \in Catches : d > catches' => d # c /\ d > catches
                BY <1>0, <3>2 DEF To
            <4>. QED BY <1>0, <3>2, <4>1 DEF CatchesBegun, To
        <3>3. CASE ~MisreadBackup(c)
            <4>1. \E pc : To(c, pc)
                BY <1>3, <3>3, CatchSteps DEF CatchStep
            <4>. QED BY <3>2, <4>1
        <3>. QED BY <3>1, <3>3
    <2>. QED BY <1>0, <2>1, <2>2, <2>3 DEF CatchTypes
<1>4. ASSUME NEW c \in Catches, ReceiveMessageId(c)
      PROVE  /\ catch' \in [Catches -> CatchState] /\ catches' \in Nat
             /\ caught_messages' \in SUBSET AnyMessage
             /\ CatchesBegun'
    <2>1. /\ UNCHANGED <<catches, caught_messages>>
          /\ catch[c].id = "sent" /\ catch' = [catch EXCEPT ![c] = [catch[c] EXCEPT !.id = "known"]]
        BY <1>4 DEF ReceiveMessageId, CatchFrame, answerVars
    <2>2. catch' \in [Catches -> CatchState]
        BY <1>0, <1>1, <2>1, CatchUpdates
    <2>3. CatchesBegun'
        <3>1. \A d \in Catches : /\ catch'[d].trainer = catch[d].trainer /\ catch'[d].pc = catch[d].pc
                                 /\ d # c => catch'[d].id = catch[d].id
            BY <1>0, <2>1 DEF CatchState
        <3>2. ~(c > catches)
            BY <2>1 DEF CatchesBegun
        <3>3. \A d \in Catches : d > catches => d # c
            BY <3>2
        <3>4. catches' = catches
            BY <2>1
        <3>5. ASSUME NEW d \in Catches
              PROVE  IF d > catches
                     THEN catch'[d].id = "none" /\ catch'[d].pc = "none" /\ catch'[d].trainer = Nobody
                     ELSE catch'[d].trainer \in Trainers
            BY <3>1, <3>3 DEF CatchesBegun
        <3>. QED BY <3>4, <3>5 DEF CatchesBegun
    <2>. QED BY <1>0, <2>1, <2>2, <2>3 DEF CatchTypes
<1>6. ASSUME NEW t \in Trainers, DealWithDefault(t)
      PROVE  /\ catch' \in [Catches -> CatchState] /\ catches' \in Nat
             /\ caught_messages' \in SUBSET AnyMessage
             /\ CatchesBegun'
    <2>1. PICK c \in Catches : DealtByDefault(t, c) /\ To(c, "result")
        BY <1>6, DefaultStep
    <2>2. [catch[c] EXCEPT !.pc = "result"] \in CatchState
        BY <1>0, CatchUpdates
    <2>3. catch' = [catch EXCEPT ![c] = [catch[c] EXCEPT !.pc = "result"]]
        BY <2>1 DEF DealtByDefault
    <2>4. catch' \in [Catches -> CatchState]
        BY <1>1, <2>2, <2>3
    <2>5. CatchesBegun'
        <3>1. \A d \in Catches : d > catches' => d # c /\ d > catches
            BY <1>0, <2>1 DEF To
        <3>. QED BY <1>0, <2>1, <3>1 DEF CatchesBegun, To
    <2>6. catches' = catches /\ caught_messages' = caught_messages
        BY <1>6, <2>1 DEF DealWithDefault, DealtByDefault, TrainerFrame, answerVars
    <2>. QED BY <1>0, <2>4, <2>5, <2>6 DEF CatchTypes
<1>5. CASE ~ \/ \E t \in Trainers : SendCatch(t) \/ CatchByDefault(t) \/ DealWithDefault(t)
             \/ \E c \in Catches : CatchStep(c) \/ ReceiveMessageId(c)
    <2>1. UNCHANGED <<catch, catches>>
        BY <1>5 DEF Next, vars, MessageStep, ReceiveMessage, ReadRemaining, CountReceived,
            DecideAppeared, DecideLocalized, DecideOnNothing, AddLocalized, AddToBackup,
            MatcherStep, LookForMatch, ChooseMatch, ChooseNothing, AddMatch, Plan, TrainerStep,
            Start, StepAndGoOn, StepAndPreempt, BecomeReady, CheckExec,
            Requeue, Resume, WaitCatch, Answer, HandleCaught,
            MessageFrame, MatcherFrame, CatchFrame, Die, catchVars
    <2>2. caught_messages' \in SUBSET AnyMessage
        <3>1. ASSUME NEW c \in Catches, NEW result \in {0, 1}, Answer(c, result)
              PROVE  caught_messages' \in SUBSET AnyMessage
            BY <3>1 DEF Answer, AnyMessage, CatchTypes
        <3>2. ASSUME NEW m \in caught_messages, HandleCaught(m)
              PROVE  caught_messages' \in SUBSET AnyMessage
            BY <3>2 DEF HandleCaught, CatchTypes
        <3>3. CASE ~ \/ \E c \in Catches, result \in {0, 1} : Answer(c, result)
                     \/ \E m \in caught_messages : HandleCaught(m)
            <4>1. UNCHANGED caught_messages
                BY <1>5, <3>3 DEF Next, vars, MessageStep, ReceiveMessage, ReadRemaining,
                    CountReceived, DecideAppeared, DecideLocalized, DecideOnNothing, AddLocalized,
                    AddToBackup, MatcherStep, LookForMatch, ChooseMatch, ChooseNothing, AddMatch,
                    Plan, TrainerStep, Start, StepAndGoOn, StepAndPreempt, BecomeReady,
                    CheckExec, Requeue, Resume, WaitCatch, DealWithDefault,
                    MessageFrame, MatcherFrame, TrainerFrame, Die, answerVars
            <4>. QED BY <4>1 DEF CatchTypes
        <3>. QED BY <3>1, <3>2, <3>3
    <2>. QED BY <1>0, <2>1, <2>2 DEF CatchesBegun
<1>. QED BY <1>2, <1>3, <1>4, <1>5, <1>6

\* All of the types.
LEMMA NextTeamTypes ==
    ASSUME TeamTypes, [Next]_vars
    PROVE  TeamTypes'
BY NextMessage, NextReceived, NextMatchTypes, NextTrainer, NextCatches
DEF TeamTypes, MessageTypes, CatchTypes

\* The types hold when the Team starts.
LEMMA InitTeamTypes == Init => TeamTypes
<1>. SUFFICES ASSUME Init PROVE TeamTypes
    OBVIOUS
<1>1. MessageTypes
    <2>1. NoThread("none") \in MessageState
        BY SomePokemon, BoundsAreNat DEF NoThread, MessageState
    <2>. QED BY <2>1, EmptySeq DEF Init, MessageTypes
<1>2. MatchTypes
    <2>1. NoMatch \in Match
        BY SomePokemon DEF NoMatch, Match
    <2>2. Cardinality(Trainers) \in Nat
        BY ObjectivesAreSet, FS_CardinalityType
    <2>. QED BY <2>1, <2>2, EmptySeq DEF Init, MatchTypes
<1>3. CatchTypes
    <2>1. PICK garbage \in [Trainers -> Garbage] :
            trainer = [t \in Trainers |->
                [pc |-> "loop", pcb |-> "NEW", sem |-> 0, sem_caught |-> 0,
                 status |-> IF t \in FullAtFirst THEN FullStatus(t, Caught[t]) ELSE "NEW",
                 pokemon_to_catch |-> NoMatch.pokemon, left |-> 0, quantum |-> 0,
                 result_catch |-> 0, id_message |-> garbage[t], caught |-> Caught[t]]]
        BY DEF Init
    <2>2. \A t \in Trainers : garbage[t] \in Nat /\ Caught[t] \in [Pokemons -> Nat]
        BY BoundsAreNat, ObjectivesAreSet
    <2>3. 0 \in 0..MaxDistance /\ 0 \in 0..QUANTUM
        BY BoundsAreNat
    <2>6. \A t \in Trainers :
            (IF t \in FullAtFirst THEN FullStatus(t, Caught[t]) ELSE "NEW") \in {"NEW", "FULL", "EXIT"}
        BY DEF FullStatus
    <2>7. ASSUME NEW t \in Trainers, NEW status \in {"NEW", "FULL", "EXIT"}
          PROVE  [pc |-> "loop", pcb |-> "NEW", sem |-> 0, sem_caught |-> 0,
                  status |-> status,
                  pokemon_to_catch |-> NoMatch.pokemon, left |-> 0, quantum |-> 0,
                  result_catch |-> 0, id_message |-> garbage[t], caught |-> Caught[t]]
                    \in TrainerState
        BY <2>2, <2>3, SomePokemon DEF TrainerState
    <2>4. trainer \in [Trainers -> TrainerState]
        BY <2>1, <2>6, <2>7
    <2>5. catch \in [Catches -> CatchState]
        BY SomePokemon DEF Init, CatchState
    <2>. QED BY <2>4, <2>5 DEF Init, CatchTypes
<1>4. CatchesBegun
    BY BoundsAreNat DEF Init, CatchesBegun, Catches
<1>. QED BY <1>1, <1>2, <1>3, <1>4 DEF TeamTypes

-----------------------------------------------------------------------------
(* mutex_planning, which the planner locks and a trainer unlocks.           *)

\* Locked: exactly one trainer executes, unlocked or on its way.  Free: none does.
OnePlanned ==
    /\ \A t \in Trainers : Executes(t) => mutex_planning
    /\ \A t, u \in Trainers : Executes(t) /\ Executes(u) => t = u
    /\ mutex_planning => \E t \in Trainers : Executes(t)
    /\ \A t \in Trainers : trainer[t].pc = "move" => trainer[t].sem = 0

\* Every step leaves who executes as it was, but for the planner's and a trainer's that unlocks.
SameExecution ==
    /\ mutex_planning' = mutex_planning
    /\ \A t \in Trainers : /\ Executes(t)' <=> Executes(t)
                           /\ trainer'[t].pc = "move" => trainer'[t].sem = 0

Unlocks(t) ==
    /\ Executes(t) /\ ~mutex_planning' /\ ~Executes(t)'
    /\ \A u \in Trainers \ {t} : trainer'[u] = trainer[u]

\* Only the planner and the trainer that walks change whose turn it is.
LEMMA ExecutionSteps ==
    ASSUME TeamTypes, OnePlanned, [Next]_vars,
           ~Plan, ~ \E t \in Trainers : StepAndPreempt(t) \/ SendCatch(t) \/ CatchByDefault(t)
    PROVE  SameExecution
<1>. USE DEF TeamTypes
<1>0. trainer \in [Trainers -> TrainerState]
    BY DEF CatchTypes
<1>1. CASE AddMatch
    <2>. DEFINE t == matcher.match.trainer
    <2>1. t \in Trainers /\ UNCHANGED mutex_planning
        BY <1>1 DEF AddMatch, MatchTypes, MatcherFrame
    <2>2. Turned(t, trainer[t].pc, trainer[t].sem, "READY", trainer[t].pcb)
        BY <1>1, <2>1, TrainerSteps
    <2>. HIDE DEF t
    <2>. QED BY <2>1, <2>2 DEF SameExecution, OnePlanned, Executes, Turned
<1>2. ASSUME NEW t \in Trainers, Start(t) \/ Resume(t) PROVE SameExecution
    <2>1. trainer[t].sem = 1 /\ UNCHANGED mutex_planning
        BY <1>2 DEF Start, Resume, planVars
    <2>2. \E status, pcb : Turned(t, "move", 0, status, pcb)
        BY <1>2, TrainerSteps
    <2>. QED BY <2>1, <2>2 DEF SameExecution, OnePlanned, Executes, Turned
<1>3. ASSUME NEW t \in Trainers, StepAndGoOn(t) PROVE SameExecution
    <2>1. UNCHANGED mutex_planning
        BY <1>3 DEF StepAndGoOn, planVars
    <2>2. Turned(t, trainer[t].pc, trainer[t].sem, trainer[t].status, trainer[t].pcb)
        BY <1>3, TrainerSteps
    <2>. QED BY <2>1, <2>2 DEF SameExecution, OnePlanned, Executes, Turned
<1>9. ASSUME NEW t \in Trainers,
             BecomeReady(t) \/ CheckExec(t) \/ Requeue(t) \/ WaitCatch(t) \/ DealWithDefault(t)
      PROVE  SameExecution
    <2>1. UNCHANGED mutex_planning /\ trainer[t].pc # "move"
        BY <1>9 DEF BecomeReady, CheckExec, Requeue, WaitCatch, DealWithDefault, planVars
    <2>2. \E pc, status : pc # "move" /\ Turned(t, pc, trainer[t].sem, status, trainer[t].pcb)
        BY <1>9, TrainerSteps
    <2>. QED BY <2>1, <2>2 DEF SameExecution, OnePlanned, Executes, Turned
<1>4. ASSUME NEW t, NEW status, NEW pcb, SameBut(t, status, pcb), UNCHANGED mutex_planning
      PROVE  SameExecution
    BY <1>4 DEF SameExecution, OnePlanned, Executes, SameBut
<1>5. CASE UNCHANGED <<trainer, mutex_planning>>
    BY <1>5 DEF SameExecution, OnePlanned, Executes
<1>6. ASSUME NEW c \in Catches, ReceiveMessageId(c) \/ CatchStep(c) PROVE SameExecution
    <2>1. UNCHANGED mutex_planning
        BY <1>6 DEF ReceiveMessageId, CatchStep, Answered, CountCaught, NoneInBackup,
            TakeFromBackup, MisreadBackup, Refill, NoLongerBeingCaught, BecomeFull, WakeMain,
            BecomeNew, BecomeAvailable, CatchFrame, Die, planVars
    <2>2. CASE \/ ReceiveMessageId(c) \/ Answered(c) \/ CountCaught(c) \/ BecomeFull(c)
               \/ BecomeNew(c) \/ BecomeAvailable(c)
        BY <1>4, <2>1, <2>2, OutcomeSteps
    <2>3. CASE ~ \/ ReceiveMessageId(c) \/ Answered(c) \/ CountCaught(c) \/ BecomeFull(c)
                 \/ BecomeNew(c) \/ BecomeAvailable(c)
        <3>1. UNCHANGED trainer
            BY <1>6, <2>3 DEF CatchStep, NoneInBackup, TakeFromBackup, MisreadBackup, Refill,
                NoLongerBeingCaught, WakeMain, Die
        <3>. QED BY <1>5, <2>1, <3>1
    <2>. QED BY <2>2, <2>3
<1>7. ASSUME NEW m \in caught_messages, HandleCaught(m) PROVE SameExecution
    <2>1. UNCHANGED mutex_planning
        BY <1>7 DEF HandleCaught, CatchFrame, planVars
    <2>2. m.id \in Catches
        BY DEF CatchTypes, AnyMessage
    <2>. QED BY <1>4, <1>7, <2>1, <2>2, OutcomeSteps
<1>8. CASE ~ \/ AddMatch \/ \E t \in Trainers : TrainerStep(t)
             \/ \E m \in caught_messages : HandleCaught(m)
             \/ \E c \in Catches : ReceiveMessageId(c) \/ CatchStep(c)
    <2>1. UNCHANGED <<trainer, mutex_planning>>
        BY <1>8 DEF Next, vars, MessageStep, ReceiveMessage, ReadRemaining, CountReceived,
            DecideAppeared, DecideLocalized, DecideOnNothing, AddLocalized, AddToBackup,
            MatcherStep, LookForMatch, ChooseMatch, ChooseNothing, Answer, MessageFrame,
            MatcherFrame, CatchFrame, Die, planVars
    <2>. QED BY <1>5, <2>1
<1>. QED BY <1>1, <1>2, <1>3, <1>6, <1>7, <1>8, <1>9 DEF TrainerStep

\* These free mutex_planning, which the trainer that walks holds.
LEMMA UnlockSteps ==
    ASSUME TeamTypes, OnePlanned, NEW t \in Trainers,
           StepAndPreempt(t) \/ SendCatch(t) \/ CatchByDefault(t)
    PROVE  Unlocks(t) /\ mutex_planning
<1>1. trainer[t].pc = "move" /\ mutex_planning' = FALSE
    BY DEF StepAndPreempt, SendCatch, CatchByDefault
<1>2. trainer[t].sem = 0
    BY <1>1 DEF OnePlanned
<1>3. /\ trainer'[t].pc # "move" /\ trainer'[t].sem = trainer[t].sem
      /\ \A u \in Trainers \ {t} : trainer'[u] = trainer[u]
    BY TrainerSteps DEF Turned
<1>. QED BY <1>1, <1>2, <1>3 DEF Unlocks, Executes, Turned, OnePlanned

\* The turn is passed on, and never doubled.
LEMMA NextOnePlanned ==
    ASSUME TeamTypes, OnePlanned, [Next]_vars
    PROVE  OnePlanned'
<1>1. CASE Plan
    <2>1. PICK i \in DOMAIN matches :
            trainer' = [trainer EXCEPT ![matches[i].trainer] =
                            [@ EXCEPT !.pokemon_to_catch = matches[i].pokemon,
                                      !.status = "EXEC", !.sem = 1]]
        BY <1>1 DEF Plan, NextToExec
    <2>. DEFINE t == matches[i].trainer
    <2>2. matches[i] \in PlannedMatch
        BY ElementOfSeq, LenProperties DEF TeamTypes, MatchTypes
    <2>3. t \in Trainers
        BY <2>2 DEF PlannedMatch
    <2>4. Turned(t, trainer[t].pc, 1, "EXEC", trainer[t].pcb)
        BY <2>1, <2>3, TrainerSteps
    <2>5. mutex_planning' = TRUE /\ \A u \in Trainers : ~Executes(u)
        BY <1>1 DEF Plan, MayPlan, OnePlanned
    <2>. HIDE DEF t
    <2>. QED BY <2>3, <2>4, <2>5 DEF Turned, OnePlanned, Executes
<1>2. ASSUME NEW t \in Trainers, StepAndPreempt(t) \/ SendCatch(t) \/ CatchByDefault(t)
      PROVE  OnePlanned'
    <2>1. Unlocks(t)
        BY <1>2, UnlockSteps
    <2>2. \A u \in Trainers : ~Executes(u)'
        BY <2>1 DEF Unlocks, OnePlanned, Executes
    <2>. QED BY <2>1, <2>2 DEF OnePlanned, Unlocks, Executes
<1>3. CASE SameExecution
    BY <1>3 DEF SameExecution, OnePlanned
<1>. QED BY <1>1, <1>2, <1>3, ExecutionSteps

\* At the start nobody walks and nobody has the turn.
LEMMA InitOnePlanned == Init => OnePlanned
BY DEF Init, OnePlanned, Executes

\* However trainers are preempted, planned again or matched twice, mutex_planning works as a
\* semaphore between the planner, which locks it, and the trainers, which unlock it: one trainer
\* is unlocked or walks while it is locked, and none while it is free.
THEOREM OneTrainerExecutes == Spec => []OneExecutes
<1>1. Init => TeamTypes /\ OnePlanned
    BY InitTeamTypes, InitOnePlanned
<1>2. TeamTypes /\ OnePlanned /\ [Next]_vars => (TeamTypes /\ OnePlanned)'
    BY NextTeamTypes, NextOnePlanned
<1>3. TeamTypes /\ OnePlanned => OneExecutes
    <2>. SUFFICES ASSUME TeamTypes, OnePlanned PROVE OneExecutes
        OBVIOUS
    <2>1. CASE mutex_planning
        <3>1. PICK t \in Trainers : Executing = {t}
            BY <2>1 DEF OnePlanned, Executing
        <3>. QED BY <2>1, <3>1, FS_Singleton DEF OneExecutes
    <2>2. CASE ~mutex_planning
        <3>1. Executing = {}
            BY <2>2 DEF OnePlanned, Executing
        <3>. QED BY <2>2, <3>1, FS_EmptySet DEF OneExecutes
    <2>. QED BY <2>1, <2>2
<1>. QED BY <1>1, <1>2, <1>3, PTL DEF Spec

-----------------------------------------------------------------------------
(* Where the permits of sem_trainer_available are.                          *)

\* A catch that may still give its permit back.
Undone == {c \in Catches : c <= catches /\ catch[c].pc \notin {"all full?", "done"}}

Matched(t) ==
    \/ \E i \in DOMAIN matches : matches[i].trainer = t
    \/ matcher.pc = "add" /\ matcher.match.trainer = t
    \/ t \in BeingPutBack

\* The trainer's catch is not yet at the point where handle_catch has made its pcb NEW.
Catching(t) == \E c \in Undone : catch[c].trainer = t /\ catch[c].pc # "block"

\* The trainer has unlocked mutex_planning with a catch begun, and has yet to say so in its status.
Starting(t) == trainer[t].pc \in {"catch", "default"}
Begins(t) == Starting(t) /\ \E c \in Undone : catch[c].trainer = t /\ catch[c].pc = "none"

\* Not to be found by get_closest_trainer and yet neither matched nor executing nor catching:
\* full, or stranded by desalojar, or found full while an earlier catch of its own was undone.
IsOut(t) ==
    /\ ~Matched(t) /\ ~Executes(t)
    /\ \/ trainer[t].status \in {"READY", "EXEC", "FULL", "EXIT"} /\ ~Begins(t)
       \/ trainer[t].pcb = "EXEC" /\ ~Catching(t)

\* Those that are so but not from the start.
Out == {t \in Trainers \ FullAtFirst : IsOut(t)}

\* The matcher's, and those that went into a match: in the list, being executed, or being put back.
Permits ==
    sem_trainer_available + (IF matcher.pc = "wait" THEN 0 ELSE 1)
        + Len(matches) + (IF mutex_planning THEN 1 ELSE 0) + Cardinality(BeingPutBack)

\* Every trainer that is out has lost one for good, and every undone catch has one.
PermitsAccounted ==
    Permits + Cardinality(Undone) + Cardinality(Out) <= Cardinality(Trainers)

\* Permits as a sum of five numbers.
PermitSum(available, matching, listed, planned, back) == available + matching + listed + planned + back

LEMMA PermitMoves ==
    ASSUME NEW available \in Nat, NEW matching, matching \in {0, 1}, NEW listed \in Nat,
           NEW planned, planned \in {0, 1}, NEW back \in Nat
    PROVE  LET sum == PermitSum(available, matching, listed, planned, back)
           IN  /\ PermitSum(available + 1, matching, listed, planned, back) = sum + 1
               /\ PermitSum(available, matching, listed, planned, back - 1) = sum - 1
               /\ PermitSum(available, matching, listed + 1, planned, back - 1) = sum
BY DEF PermitSum

LEMMA PermitsAreSum ==
    Permits = PermitSum(sem_trainer_available, IF matcher.pc = "wait" THEN 0 ELSE 1, Len(matches),
                        IF mutex_planning THEN 1 ELSE 0, Cardinality(BeingPutBack))
BY DEF Permits, PermitSum

\* What PermitsAccounted counts is finite.
LEMMA FiniteCounts ==
    TeamTypes => /\ IsFiniteSet(Undone) /\ Cardinality(Undone) \in Nat
                 /\ IsFiniteSet(Out) /\ Cardinality(Out) \in Nat
                 /\ Permits \in Nat /\ Len(matches) \in Nat /\ sem_trainer_available \in Nat
                 /\ IsFiniteSet(BeingPutBack) /\ Cardinality(BeingPutBack) \in Nat
<1>. SUFFICES ASSUME TeamTypes
              PROVE  /\ IsFiniteSet(Undone) /\ Cardinality(Undone) \in Nat
                     /\ IsFiniteSet(Out) /\ Cardinality(Out) \in Nat
                     /\ Permits \in Nat /\ Len(matches) \in Nat /\ sem_trainer_available \in Nat
                     /\ IsFiniteSet(BeingPutBack) /\ Cardinality(BeingPutBack) \in Nat
    OBVIOUS
<1>1. IsFiniteSet(Catches)
    BY BoundsAreNat, FS_Interval DEF Catches
<1>2. Undone \in SUBSET Catches /\ Out \in SUBSET Trainers /\ BeingPutBack \in SUBSET Trainers
    BY DEF Undone, Out, BeingPutBack
<1>3. IsFiniteSet(Undone) /\ IsFiniteSet(Out) /\ IsFiniteSet(BeingPutBack)
    BY <1>1, <1>2, ObjectivesAreSet, FS_Subset
<1>4. Cardinality(Undone) \in Nat /\ Cardinality(Out) \in Nat /\ Cardinality(BeingPutBack) \in Nat
    BY <1>3, FS_CardinalityType
<1>5. sem_trainer_available \in Nat /\ Len(matches) \in Nat
    BY LenProperties DEF TeamTypes, MatchTypes
<1>6. Permits \in Nat
    <2>1. (IF matcher.pc = "wait" THEN 0 ELSE 1) \in {0, 1} /\ (IF mutex_planning THEN 1 ELSE 0) \in {0, 1}
        OBVIOUS
    <2>2. \A a, b \in {0, 1}, c \in Nat : sem_trainer_available + a + Len(matches) + b + c \in Nat
        BY <1>5
    <2>. QED BY <1>4, <2>1, <2>2 DEF Permits
<1>. QED BY <1>3, <1>4, <1>5, <1>6

\* The counts as numbers.
LEMMA NaturalCounts ==
    TeamTypes => Cardinality(Undone) \in Nat /\ Cardinality(Out) \in Nat /\ Permits \in Nat
BY FiniteCounts

\* How the size of a set changes with an element.
LEMMA SetSizes ==
    ASSUME NEW S, IsFiniteSet(S), NEW T, NEW x
    PROVE  /\ T \subseteq S => Cardinality(T) <= Cardinality(S)
           /\ T \subseteq S \cup {x} => Cardinality(T) <= Cardinality(S) + 1
           /\ T = S \cup {x} /\ x \notin S => Cardinality(T) = Cardinality(S) + 1
           /\ T = S \ {x} /\ x \in S => Cardinality(T) = Cardinality(S) - 1
<1>1. /\ IsFiniteSet(S \cup {x}) /\ Cardinality(S) \in Nat
      /\ Cardinality(S \cup {x}) = IF x \in S THEN Cardinality(S) ELSE Cardinality(S) + 1
    BY FS_AddElement, FS_CardinalityType
<1>2. T \subseteq S => Cardinality(T) <= Cardinality(S)
    BY FS_Subset
<1>3. T \subseteq S \cup {x} => Cardinality(T) <= Cardinality(S) + 1
    <2>1. T \subseteq S \cup {x} =>
            Cardinality(T) \in Nat /\ Cardinality(T) <= Cardinality(S \cup {x})
        BY <1>1, FS_Subset, FS_CardinalityType
    <2>. QED BY <1>1, <2>1
<1>4. T = S \ {x} /\ x \in S => Cardinality(T) = Cardinality(S) - 1
    BY FS_RemoveElement
<1>. QED BY <1>1, <1>2, <1>3, <1>4

\* How the step of a trainer's thread changes who is being put back.
LEMMA PutBackSteps ==
    ASSUME TeamTypes, NEW t \in Trainers, NEW pc, NEW sem, NEW status, NEW pcb,
           Turned(t, pc, sem, status, pcb)
    PROVE  LET points == {"preempt", "ready", "requeue"}
           IN  /\ (pc \in points <=> trainer[t].pc \in points) => BeingPutBack' = BeingPutBack
               /\ pc \in points /\ trainer[t].pc \notin points =>
                    /\ t \in BeingPutBack' /\ BeingPutBack \subseteq BeingPutBack'
                    /\ Cardinality(BeingPutBack') = Cardinality(BeingPutBack) + 1
               /\ pc \notin points /\ trainer[t].pc \in points =>
                    /\ BeingPutBack \ {t} \subseteq BeingPutBack'
                    /\ Cardinality(BeingPutBack') = Cardinality(BeingPutBack) - 1
<1>. DEFINE points == {"preempt", "ready", "requeue"}
<1>1. \A u \in Trainers : u \in BeingPutBack <=> trainer[u].pc \in points
    BY DEF BeingPutBack
<1>2. \A u \in Trainers : u \in BeingPutBack' <=> trainer'[u].pc \in points
    BY DEF BeingPutBack
<1>3. BeingPutBack \subseteq Trainers /\ BeingPutBack' \subseteq Trainers
    BY DEF BeingPutBack
<1>4. trainer'[t].pc = pc /\ \A u \in Trainers \ {t} : trainer'[u] = trainer[u]
    BY DEF Turned
<1>. HIDE DEF points
<1>5. (pc \in points <=> trainer[t].pc \in points) => BeingPutBack' = BeingPutBack
    BY <1>1, <1>2, <1>3, <1>4
<1>6. pc \in points /\ trainer[t].pc \notin points =>
            BeingPutBack' = BeingPutBack \cup {t} /\ t \notin BeingPutBack
    BY <1>1, <1>2, <1>3, <1>4
<1>7. pc \notin points /\ trainer[t].pc \in points =>
            BeingPutBack' = BeingPutBack \ {t} /\ t \in BeingPutBack
    BY <1>1, <1>2, <1>3, <1>4
<1>8. /\ BeingPutBack' = BeingPutBack \cup {t} /\ t \notin BeingPutBack =>
                Cardinality(BeingPutBack') = Cardinality(BeingPutBack) + 1
      /\ BeingPutBack' = BeingPutBack \ {t} /\ t \in BeingPutBack =>
                Cardinality(BeingPutBack') = Cardinality(BeingPutBack) - 1
    BY FiniteCounts, SetSizes
<1>. QED BY <1>5, <1>6, <1>7, <1>8 DEF points

\* Nobody's thread is at another point, but for those that got their answer.
LEMMA SamePoints ==
    ASSUME \A u \in Trainers :
                trainer'[u].pc = trainer[u].pc \/ (trainer[u].pc = "caught" /\ trainer'[u].pc = "loop")
    PROVE  BeingPutBack' = BeingPutBack /\ \A u \in Trainers : Starting(u)' <=> Starting(u)
BY DEF BeingPutBack, Starting

Kept == Permits' = Permits /\ Undone' = Undone /\ Out' \subseteq Out

\* The matcher and the planner move a permit from the semaphore into a match and into mutex_planning.
LEMMA MatchSteps ==
    ASSUME TeamTypes, OnePlanned, LookForMatch \/ ChooseMatch \/ AddMatch \/ Plan
    PROVE  Kept
<1>. USE DEF TeamTypes
<1>0. /\ Len(matches) \in Nat /\ DOMAIN matches = 1..Len(matches) /\ sem_trainer_available \in Nat
      /\ \A i \in DOMAIN matches : matches[i] \in PlannedMatch
      /\ matcher \in [pc : {"wait", "choose", "add"}, wanted : SUBSET Pokemons,
                      has : SUBSET Pokemons, match : Match]
    BY LenProperties, ElementOfSeq DEF MatchTypes
<1>1. Undone' = Undone /\ (\A t \in Trainers : Catching(t)' <=> Catching(t)) /\ UNCHANGED catch
    <2>1. UNCHANGED <<catch, catches>>
        BY DEF LookForMatch, ChooseMatch, AddMatch, Plan, MatcherFrame, catchVars
    <2>. QED BY <2>1 DEF Undone, Catching
<1>6. ASSUME \A t \in Trainers : trainer'[t].pc = trainer[t].pc
      PROVE  BeingPutBack' = BeingPutBack /\ \A t \in Trainers : Begins(t)' <=> Begins(t)
    BY <1>1, <1>6, SamePoints DEF Begins
<1>7. Cardinality(BeingPutBack) \in Nat
    BY FiniteCounts
<1>2. CASE LookForMatch
    <2>1. /\ matcher.pc = "wait" /\ sem_trainer_available' = sem_trainer_available - 1
          /\ UNCHANGED <<matches, trainer, mutex_planning>>
        BY <1>2 DEF LookForMatch, SemWait, MatcherFrame
    <2>2. matcher'.pc = "choose"
        BY <1>0, <1>2 DEF LookForMatch
    <2>6. BeingPutBack' = BeingPutBack /\ \A t \in Trainers : Begins(t)' <=> Begins(t)
        BY <1>6, <2>1
    <2>3. Permits' = Permits
        BY <1>0, <1>7, <2>1, <2>2, <2>6 DEF Permits
    <2>4. \A t \in Trainers : (Matched(t)' <=> Matched(t)) /\ (Executes(t)' <=> Executes(t))
        BY <2>1, <2>2, <2>6 DEF Matched, Executes
    <2>5. Out' \subseteq Out
        BY <1>1, <2>1, <2>4, <2>6 DEF Out, IsOut
    <2>. QED BY <1>1, <2>3, <2>5 DEF Kept
<1>3. CASE ChooseMatch
    <2>1. matcher.pc = "choose" /\ UNCHANGED <<sem_trainer_available, matches, trainer, mutex_planning>>
        BY <1>3 DEF ChooseMatch, MatcherFrame
    <2>2. matcher'.pc = "add"
        BY <1>0, <1>3 DEF ChooseMatch
    <2>6. BeingPutBack' = BeingPutBack /\ \A t \in Trainers : Begins(t)' <=> Begins(t)
        BY <1>6, <2>1
    <2>3. Permits' = Permits
        BY <1>0, <1>7, <2>1, <2>2, <2>6 DEF Permits
    <2>4. \A t \in Trainers : (Matched(t) => Matched(t)') /\ (Executes(t)' <=> Executes(t))
        BY <2>1, <2>6 DEF Matched, Executes
    <2>5. Out' \subseteq Out
        BY <1>1, <2>1, <2>4, <2>6 DEF Out, IsOut
    <2>. QED BY <1>1, <2>3, <2>5 DEF Kept
<1>4. CASE AddMatch
    <2>. DEFINE t == matcher.match.trainer
    <2>1. /\ matcher.pc = "add" /\ UNCHANGED <<sem_trainer_available, mutex_planning>>
          /\ matches' = Append(matches, matcher.match)
        BY <1>4 DEF AddMatch, MatcherFrame
    <2>2. t \in Trainers /\ matcher.match \in PlannedMatch
        BY <1>0, <2>1 DEF MatchTypes, Match, PlannedMatch
    <2>3. matcher'.pc = "wait"
        BY <1>0, <1>4 DEF AddMatch
    <2>4. /\ Len(matches') = Len(matches) + 1 /\ DOMAIN matches' = 1..(Len(matches) + 1)
          /\ \A i \in DOMAIN matches : matches'[i] = matches[i]
          /\ matches'[Len(matches) + 1] = matcher.match
        BY <1>0, <2>1, <2>2, AppendProperties, LenProperties DEF MatchTypes
    <2>6. Turned(t, trainer[t].pc, trainer[t].sem, "READY", trainer[t].pcb)
        BY <1>4, <2>2, TrainerSteps
    <2>10. BeingPutBack' = BeingPutBack /\ \A u \in Trainers : Begins(u)' <=> Begins(u)
        BY <1>6, <2>6 DEF Turned
    <2>5. Permits' = Permits
        BY <1>0, <1>7, <2>1, <2>3, <2>4, <2>10 DEF Permits
    <2>7. \A u \in Trainers : (Matched(u) => Matched(u)') /\ (Executes(u)' <=> Executes(u))
        <3>1. \A u \in Trainers : Matched(u) =>
                \/ \E i \in DOMAIN matches' : matches'[i].trainer = u
                \/ u \in BeingPutBack
            BY <1>0, <2>4 DEF Matched
        <3>. QED BY <2>2, <2>6, <2>10, <3>1 DEF Matched, Executes, Turned
    <2>8. Matched(t)
        BY <2>1 DEF Matched
    <2>. HIDE DEF t
    <2>9. Out' \subseteq Out
        BY <1>1, <2>2, <2>6, <2>7, <2>8, <2>10 DEF Out, IsOut, Turned
    <2>. QED BY <1>1, <2>5, <2>9 DEF Kept
<1>5. CASE Plan
    <2>1. PICK i \in DOMAIN matches :
            /\ matches' = RemoveAt(matches, i)
            /\ trainer' = [trainer EXCEPT ![matches[i].trainer] =
                            [@ EXCEPT !.pokemon_to_catch = matches[i].pokemon,
                                      !.status = "EXEC", !.sem = 1]]
        BY <1>5 DEF Plan, NextToExec
    <2>2. PICK t \in Trainers : t = matches[i].trainer
        BY <1>0 DEF PlannedMatch
    <2>3. Turned(t, trainer[t].pc, 1, "EXEC", trainer[t].pcb)
        BY <2>1, <2>2, TrainerSteps
    <2>4. ~mutex_planning /\ mutex_planning' = TRUE /\ UNCHANGED <<matcher, sem_trainer_available>>
        BY <1>5 DEF Plan, MayPlan, TrainerFrame
    <2>5. /\ Len(matches') = Len(matches) - 1
          /\ \A k \in DOMAIN matches \ {i} : \E j \in DOMAIN matches' : matches'[j] = matches[k]
        BY <2>1, RemoveAtProperties DEF MatchTypes
    <2>10. BeingPutBack' = BeingPutBack /\ \A u \in Trainers : Begins(u)' <=> Begins(u)
        BY <1>6, <2>2, <2>3 DEF Turned
    <2>6. Permits' = Permits
        BY <1>0, <1>7, <2>4, <2>5, <2>10 DEF Permits
    <2>7. \A u \in Trainers \ {t} : (Matched(u) => Matched(u)') /\ (Executes(u)' <=> Executes(u))
        <3>1. \A u \in Trainers \ {t}, k \in DOMAIN matches : matches[k].trainer = u => k # i
            BY <2>2
        <3>. QED BY <2>3, <2>4, <2>5, <2>10, <3>1 DEF Matched, Executes, Turned
    <2>8. Executes(t)'
        BY <2>3 DEF Executes, Turned
    <2>9. Out' \subseteq Out
        BY <1>1, <2>2, <2>3, <2>7, <2>8, <2>10 DEF Out, IsOut, Turned
    <2>. QED BY <1>1, <2>6, <2>9 DEF Kept
<1>. QED BY <1>2, <1>3, <1>4, <1>5

\* A trainer that sets out or goes on keeps its permit.
LEMMA WalkSteps ==
    ASSUME TeamTypes, OnePlanned, SameExecution, NEW t \in Trainers,
           Start(t) \/ StepAndGoOn(t) \/ Resume(t)
    PROVE  Kept
<1>1. UNCHANGED <<matcher, matches, mutex_planning, sem_trainer_available, catch, catches>>
    BY DEF Start, StepAndGoOn, Resume, TrainerFrame, planVars, catchVars
<1>3. Executes(t) /\ \A u \in Trainers \ {t} : trainer'[u] = trainer[u]
    BY TrainerSteps DEF Start, StepAndGoOn, Resume, Executes, Turned
<1>6. BeingPutBack' = BeingPutBack
    <2>1. trainer[t].pc \in {"loop", "move", "preempted", "stranded"}
        BY DEF Start, StepAndGoOn, Resume
    <2>2. trainer'[t].pc = "move"
        BY <2>1, TrainerSteps DEF Turned, StepAndGoOn
    <2>. QED BY <1>3, <2>1, <2>2 DEF BeingPutBack
<1>2. /\ Permits' = Permits /\ Undone' = Undone
      /\ \A u \in Trainers : (Matched(u)' <=> Matched(u)) /\ (Catching(u)' <=> Catching(u))
    BY <1>1, <1>6 DEF Permits, Undone, Matched, Catching
<1>7. \A u \in Trainers \ {t} : Begins(u)' <=> Begins(u)
    BY <1>1, <1>2, <1>3 DEF Begins, Starting
<1>4. \A u \in Trainers : Executes(u)' <=> Executes(u)
    BY DEF SameExecution
<1>5. Out' \subseteq Out
    BY <1>2, <1>3, <1>4, <1>7 DEF Out, IsOut
<1>. QED BY <1>2, <1>5 DEF Kept

\* desalojar frees mutex_planning and keeps the permit.
LEMMA PreemptSteps ==
    ASSUME TeamTypes, OnePlanned, NEW t \in Trainers, StepAndPreempt(t)
    PROVE  Kept
<1>. USE DEF TeamTypes
<1>0. /\ Len(matches) \in Nat /\ sem_trainer_available \in Nat /\ Cardinality(BeingPutBack) \in Nat
    BY FiniteCounts
<1>1. /\ UNCHANGED <<matcher, matches, sem_trainer_available, catch, catches>>
      /\ mutex_planning' = FALSE /\ trainer[t].pc = "move"
    BY DEF StepAndPreempt, TrainerFrame, catchVars
<1>2. Undone' = Undone /\ \A u \in Trainers : Catching(u)' <=> Catching(u)
    BY <1>1 DEF Undone, Catching
<1>3. mutex_planning /\ Unlocks(t)
    BY UnlockSteps
<1>4. \A u \in Trainers \ {t} : (Executes(u)' <=> Executes(u)) /\ trainer'[u] = trainer[u]
    BY <1>3 DEF Unlocks, Executes
<1>5. Turned(t, "preempt", trainer[t].sem, trainer[t].status, trainer[t].pcb)
    BY TrainerSteps
<1>6. /\ t \in BeingPutBack' /\ BeingPutBack \subseteq BeingPutBack'
      /\ Cardinality(BeingPutBack') = Cardinality(BeingPutBack) + 1
    BY <1>1, <1>5, PutBackSteps
<1>7. Permits' = Permits
    BY <1>0, <1>1, <1>3, <1>6 DEF Permits
<1>8. Matched(t)' /\ \A u \in Trainers : Matched(u) => Matched(u)'
    BY <1>1, <1>6 DEF Matched
<1>9. \A u \in Trainers \ {t} : Begins(u)' <=> Begins(u)
    BY <1>1, <1>2, <1>4 DEF Begins, Starting
<1>10. Out' \subseteq Out
    BY <1>2, <1>4, <1>8, <1>9 DEF Out, IsOut
<1>. QED BY <1>2, <1>7, <1>10 DEF Kept

\* desalojar puts the permit back into the list, with the trainer.
LEMMA RequeueSteps ==
    ASSUME TeamTypes, SameExecution, NEW t \in Trainers, Requeue(t)
    PROVE  Kept
<1>. USE DEF TeamTypes
<1>0. /\ Len(matches) \in Nat /\ DOMAIN matches = 1..Len(matches) /\ sem_trainer_available \in Nat
      /\ Cardinality(BeingPutBack) \in Nat
    BY LenProperties, FiniteCounts DEF MatchTypes
<1>1. /\ UNCHANGED <<matcher, sem_trainer_available, mutex_planning, catch, catches>>
      /\ matches' = matches \o Requeued(t) /\ trainer[t].pc = "requeue"
    BY DEF Requeue, TrainerFrame, catchVars
<1>2. Undone' = Undone /\ \A u \in Trainers : Catching(u)' <=> Catching(u)
    BY <1>1 DEF Undone, Catching
<1>3. Turned(t, "preempted", trainer[t].sem, trainer[t].status, trainer[t].pcb)
    BY TrainerSteps
<1>4. /\ BeingPutBack \ {t} \subseteq BeingPutBack'
      /\ Cardinality(BeingPutBack') = Cardinality(BeingPutBack) - 1
    BY <1>1, <1>3, PutBackSteps
<1>. DEFINE match == [trainer |-> t, pokemon |-> trainer[t].pokemon_to_catch]
<1>5. match \in PlannedMatch /\ match.trainer = t
    BY DEF PlannedMatch, CatchTypes, TrainerState
<1>6. matches' = matches \o <<match>>
    BY <1>1 DEF Requeued
<1>. HIDE DEF match
<1>7. <<match>> \in Seq(PlannedMatch) /\ Len(<<match>>) = 1 /\ <<match>>[1] = match
    BY <1>5
<1>8. /\ Len(matches') = Len(matches) + 1 /\ DOMAIN matches' = 1..(Len(matches) + 1)
      /\ \A i \in DOMAIN matches : matches'[i] = matches[i]
      /\ matches'[Len(matches) + 1] = match
    <3>1. /\ matches' \in Seq(PlannedMatch) /\ Len(matches') = Len(matches) + Len(<<match>>)
          /\ \A i \in 1..(Len(matches) + Len(<<match>>)) :
                matches'[i] = IF i <= Len(matches) THEN matches[i] ELSE <<match>>[i - Len(matches)]
        BY <1>6, <1>7, ConcatProperties DEF MatchTypes
    <3>2. DOMAIN matches' = 1..Len(matches')
        BY <3>1, LenProperties
    <3>3. Len(matches) + 1 - Len(matches) = 1 /\ ~(Len(matches) + 1 <= Len(matches))
          /\ Len(matches) + 1 \in 1..(Len(matches) + 1)
        BY <1>0
    <3>4. matches'[Len(matches) + 1] = match
        BY <1>7, <3>1, <3>3
    <3>. QED BY <1>0, <1>7, <3>1, <3>2, <3>4
<1>9. Permits' = Permits
    <2>1. Permits' = PermitSum(sem_trainer_available, IF matcher.pc = "wait" THEN 0 ELSE 1,
                               Len(matches) + 1, IF mutex_planning THEN 1 ELSE 0,
                               Cardinality(BeingPutBack) - 1)
        BY <1>1, <1>4, <1>8 DEF Permits, PermitSum
    <2>. QED BY <1>0, <2>1, PermitsAreSum, PermitMoves
<1>10. Matched(t)'
    <2>1. Len(matches) + 1 \in DOMAIN matches' /\ matches'[Len(matches) + 1].trainer = t
        BY <1>0, <1>5, <1>8
    <2>. QED BY <2>1 DEF Matched
<1>11. \A u \in Trainers : Matched(u) => Matched(u)'
    BY <1>0, <1>1, <1>4, <1>8, <1>10 DEF Matched
<1>12. \A u \in Trainers \ {t} : trainer'[u] = trainer[u] /\ (Begins(u)' <=> Begins(u))
    BY <1>1, <1>2, <1>3 DEF Begins, Starting, Turned
<1>13. Out' \subseteq Out
    BY <1>2, <1>10, <1>11, <1>12 DEF Out, IsOut, SameExecution
<1>. QED BY <1>2, <1>9, <1>13 DEF Kept

\* desalojar keeps the permit, or strands the trainer.
LEMMA PutBackKeeps ==
    ASSUME TeamTypes, SameExecution, NEW t \in Trainers, BecomeReady(t) \/ CheckExec(t)
    PROVE  /\ Undone' = Undone
           /\ \/ Permits' = Permits /\ Out' \subseteq Out
              \/ Permits' = Permits - 1 /\ Out' \subseteq Out \cup {t}
<1>0. /\ Len(matches) \in Nat /\ sem_trainer_available \in Nat /\ Cardinality(BeingPutBack) \in Nat
    BY FiniteCounts
<1>1. /\ UNCHANGED <<matcher, matches, sem_trainer_available, mutex_planning, catch, catches>>
      /\ trainer[t].pc \in {"preempt", "ready"}
    BY DEF BecomeReady, CheckExec, TrainerFrame, planVars, catchVars
<1>2. Undone' = Undone /\ \A u \in Trainers : Catching(u)' <=> Catching(u)
    BY <1>1 DEF Undone, Catching
<1>3. PICK pc \in {"ready", "requeue", "stranded"} :
            \E status : Turned(t, pc, trainer[t].sem, status, trainer[t].pcb)
    BY TrainerSteps
<1>4. \A u \in Trainers \ {t} : trainer'[u] = trainer[u] /\ (Begins(u)' <=> Begins(u))
    BY <1>1, <1>2, <1>3 DEF Begins, Starting, Turned
<1>5. CASE pc \in {"ready", "requeue"}
    <2>1. BeingPutBack' = BeingPutBack /\ t \in BeingPutBack
        BY <1>1, <1>3, <1>5, PutBackSteps DEF BeingPutBack
    <2>2. Permits' = Permits /\ Matched(t)' /\ \A u \in Trainers : Matched(u)' <=> Matched(u)
        BY <1>1, <2>1 DEF Permits, Matched
    <2>3. Out' \subseteq Out
        BY <1>2, <1>4, <2>2 DEF Out, IsOut, SameExecution
    <2>. QED BY <1>2, <2>2, <2>3
<1>6. CASE pc = "stranded"
    <2>1. /\ BeingPutBack \ {t} \subseteq BeingPutBack'
          /\ Cardinality(BeingPutBack') = Cardinality(BeingPutBack) - 1
        BY <1>1, <1>3, <1>6, PutBackSteps
    <2>2. Permits' = Permits - 1
        <3>1. Permits' = PermitSum(sem_trainer_available, IF matcher.pc = "wait" THEN 0 ELSE 1,
                                   Len(matches), IF mutex_planning THEN 1 ELSE 0,
                                   Cardinality(BeingPutBack) - 1)
            BY <1>1, <2>1 DEF Permits, PermitSum
        <3>. QED BY <1>0, <3>1, PermitsAreSum, PermitMoves
    <2>3. \A u \in Trainers \ {t} : Matched(u) => Matched(u)'
        BY <1>1, <2>1 DEF Matched
    <2>4. Out' \subseteq Out \cup {t}
        BY <1>2, <1>4, <2>3 DEF Out, IsOut, SameExecution
    <2>. QED BY <1>2, <2>2, <2>4
<1>. QED BY <1>3, <1>5, <1>6

\* A trainer says that it is catching, and the permit is with its catch.
LEMMA CatchingSteps ==
    ASSUME TeamTypes, SameExecution, NEW t \in Trainers, WaitCatch(t) \/ DealWithDefault(t)
    PROVE  Kept
<1>1. /\ UNCHANGED <<matcher, matches, sem_trainer_available, mutex_planning>>
      /\ trainer[t].pc \in {"catch", "default"}
    BY DEF WaitCatch, DealWithDefault, TrainerFrame, planVars
<1>2. PICK pc \in {"caught", "loop"} : Turned(t, pc, trainer[t].sem, "CATCHING", trainer[t].pcb)
    BY TrainerSteps
<1>3. BeingPutBack' = BeingPutBack
    BY <1>1, <1>2, PutBackSteps
<1>4. Permits' = Permits /\ \A u \in Trainers : Matched(u)' <=> Matched(u)
    BY <1>1, <1>3 DEF Permits, Matched
<1>5. Undone' = Undone /\ \A u \in Trainers : Catching(u) => Catching(u)'
    <2>1. CASE WaitCatch(t)
        <3>1. UNCHANGED <<catch, catches>>
            BY <2>1 DEF WaitCatch, catchVars
        <3>. QED BY <3>1 DEF Undone, Catching
    <2>2. CASE DealWithDefault(t)
        <3>1. PICK c \in Catches : DealtByDefault(t, c) /\ To(c, "result")
            BY <2>2, DefaultStep
        <3>4. catches' = catches /\ catch[c].pc = "none"
              /\ \A d \in Catches : catch'[d].pc = IF d = c THEN "result" ELSE catch[d].pc
            BY <3>1 DEF To, DealtByDefault
        <3>5. \A d \in Catches : catch'[d].pc \in {"all full?", "done"}
                                    <=> catch[d].pc \in {"all full?", "done"}
            BY ONLY <3>4
        <3>2. Undone' = Undone
            BY ONLY <3>4, <3>5 DEF Undone
        <3>3. \A d \in Undone : catch'[d].trainer = catch[d].trainer
                                /\ (catch[d].pc # "block" => catch'[d].pc # "block")
            BY <3>1 DEF Undone, To
        <3>. QED BY <3>2, <3>3 DEF Catching
    <2>. QED BY <2>1, <2>2
<1>6. \A u \in Trainers \ {t} : trainer'[u] = trainer[u]
    BY <1>2 DEF Turned
<1>7. ASSUME NEW u \in Trainers \ {t}, Begins(u) PROVE Begins(u)'
    <2>1. PICK c \in Undone : catch[c].trainer = u /\ catch[c].pc = "none"
        BY <1>7 DEF Begins
    <2>2. catch'[c].trainer = u /\ catch'[c].pc = "none"
        <3>1. CASE WaitCatch(t)
            <4>1. UNCHANGED catch
                BY <3>1 DEF WaitCatch, catchVars
            <4>. QED BY <2>1, <4>1
        <3>2. CASE DealWithDefault(t)
            <4>1. PICK d \in Catches : DealtByDefault(t, d) /\ To(d, "result")
                BY <3>2, DefaultStep
            <4>2. d # c /\ c \in Catches
                BY <2>1, <4>1, <1>7 DEF DealtByDefault, Undone
            <4>. QED BY <2>1, <4>1, <4>2 DEF To
        <3>. QED BY <3>1, <3>2
    <2>. QED BY <1>5, <1>6, <1>7, <2>1, <2>2 DEF Begins, Starting
<1>8. trainer'[t].status = "CATCHING" /\ trainer'[t].pcb = trainer[t].pcb
    BY <1>2 DEF Turned
<1>9. Out' \subseteq Out
    BY <1>4, <1>5, <1>6, <1>7, <1>8 DEF Out, IsOut, SameExecution
<1>. QED BY <1>4, <1>5, <1>9 DEF Kept

\* The permit goes from mutex_planning to a new catch.
LEMMA BeginCatchSteps ==
    ASSUME TeamTypes, OnePlanned, NEW t \in Trainers, SendCatch(t) \/ CatchByDefault(t)
    PROVE  /\ Permits' = Permits - 1
           /\ \/ Undone' = Undone /\ Out' \subseteq Out \cup {t}
              \/ /\ Undone' = Undone \cup {catches + 1} /\ catches + 1 \notin Undone
                 /\ Out' \subseteq Out
<1>. USE DEF TeamTypes
<1>0. /\ Len(matches) \in Nat /\ sem_trainer_available \in Nat /\ catches \in Nat
      /\ \A c \in Catches : c \in Nat
      /\ Cardinality(BeingPutBack) \in Nat
    BY LenProperties, BoundsAreNat, FiniteCounts DEF MatchTypes, CatchTypes, Catches
<1>1. /\ UNCHANGED <<matcher, matches, sem_trainer_available>> /\ mutex_planning' = FALSE
      /\ trainer[t].pc = "move"
    BY DEF SendCatch, CatchByDefault, TrainerFrame
<1>2. mutex_planning /\ Unlocks(t)
    BY UnlockSteps
<1>13. PICK pc \in {"catch", "default"} :
            Turned(t, pc, trainer[t].sem, trainer[t].status, trainer[t].pcb)
    BY TrainerSteps
<1>14. BeingPutBack' = BeingPutBack /\ Starting(t)'
    BY <1>1, <1>13, PutBackSteps DEF Starting, Turned
<1>3. Permits' = Permits - 1
    BY <1>0, <1>1, <1>2, <1>14 DEF Permits
<1>4. \A u \in Trainers \ {t} : (Executes(u)' <=> Executes(u)) /\ trainer'[u] = trainer[u]
    BY <1>2 DEF Unlocks, Executes
<1>5. \A u \in Trainers : Matched(u)' <=> Matched(u)
    BY <1>1, <1>14 DEF Matched
<1>7. Begun(t)
    BY BegunSteps
<1>8. \A c \in Catches : c <= catches => catch'[c] = catch[c] /\ c <= catches' /\ c # catches + 1
    BY <1>0, <1>7 DEF Begun
<1>9. \A u \in Trainers : Catching(u) => Catching(u)'
    BY <1>8 DEF Catching, Undone
<1>15. \A u \in Trainers \ {t} : Begins(u) => Begins(u)'
    BY <1>4, <1>8 DEF Begins, Starting, Undone
<1>10. Out' \subseteq Out \cup {t}
    BY <1>4, <1>5, <1>9, <1>15 DEF Out, IsOut
<1>11. CASE catches + 1 \in Catches
    <2>1. catch'[catches + 1].trainer = t /\ catch'[catches + 1].pc = "none" /\ catches + 1 <= catches'
        BY <1>0, <1>7, <1>11 DEF Begun
    <2>2. catches + 1 \in Undone'
        BY <1>11, <2>1 DEF Undone
    <2>3. Undone' = Undone \cup {catches + 1} /\ catches + 1 \notin Undone
        <3>1. \A c \in Catches : c <= catches' <=> c <= catches \/ c = catches + 1
            BY <1>0, <1>7 DEF Begun
        <3>. QED BY <1>0, <1>8, <2>2, <3>1 DEF Undone
    <2>4. Catching(t)' /\ Begins(t)'
        BY <1>14, <2>1, <2>2 DEF Catching, Begins
    <2>5. Out' \subseteq Out
        BY <1>10, <2>4 DEF Out, IsOut
    <2>. QED BY <1>3, <2>3, <2>5
<1>12. CASE catches + 1 \notin Catches
    <2>1. \A c \in Catches : c # catches + 1 /\ (c <= catches' <=> c <= catches)
        BY <1>0, <1>7, <1>12 DEF Begun
    <2>2. Undone' = Undone
        BY <1>7, <2>1 DEF Undone, Begun
    <2>. QED BY <1>3, <1>10, <2>2
<1>. QED BY <1>11, <1>12

\* A trainer that is catching still is, unless this was its catch and got to its end.
LEMMA StillCatching ==
    ASSUME NEW c \in Catches, NEW pc, To(c, pc), NEW u,
           \/ u # catch[c].trainer \/ catch[c].pc = "block" \/ c \notin Undone
           \/ pc \notin {"all full?", "done", "block"}
    PROVE  Catching(u) => Catching(u)'
<1>. SUFFICES ASSUME Catching(u) PROVE Catching(u)'
    OBVIOUS
<1>1. PICK d \in Undone : catch[d].trainer = u /\ catch[d].pc # "block"
    BY DEF Catching
<1>2. d \in Catches /\ d <= catches /\ catch[d].pc \notin {"all full?", "done"}
    BY DEF Undone
<1>3. catch'[d].trainer = u /\ catch'[d].pc \notin {"all full?", "done", "block"} /\ d <= catches'
    <2>1. CASE d = c
        BY <1>1, <1>2, <2>1 DEF To
    <2>2. CASE d # c
        BY <1>1, <1>2, <2>2 DEF To
    <2>. QED BY <2>1, <2>2
<1>4. d \in Undone'
    BY <1>2, <1>3 DEF Undone
<1>. QED BY <1>3, <1>4 DEF Catching

\* So does one that has just begun to, unless it is no more at that point.
LEMMA StillBegins ==
    ASSUME NEW c \in Catches, NEW pc, To(c, pc), NEW u, Starting(u)' <=> Starting(u),
           catch[c].pc # "none" \/ ~Starting(catch[c].trainer)
    PROVE  Begins(u) => Begins(u)'
<1>. SUFFICES ASSUME Begins(u) PROVE Begins(u)'
    OBVIOUS
<1>1. PICK d \in Undone : catch[d].trainer = u /\ catch[d].pc = "none"
    BY DEF Begins
<1>2. d # c /\ d \in Catches /\ d <= catches
    BY <1>1 DEF Begins, Undone
<1>3. catch'[d].trainer = u /\ catch'[d].pc = "none" /\ d <= catches'
    BY <1>1, <1>2 DEF To
<1>4. d \in Undone'
    BY <1>2, <1>3 DEF Undone
<1>. QED BY <1>3, <1>4 DEF Begins

\* What no step of a catch's threads, or of those that bring its answer, changes.
LEMMA OutcomeFrames ==
    ASSUME TeamTypes,
           \/ \E c \in Catches : ReceiveMessageId(c) \/ CatchStep(c)
           \/ \E c \in Catches, result \in {0, 1} : Answer(c, result)
           \/ \E m \in caught_messages : HandleCaught(m)
    PROVE  /\ UNCHANGED <<matches, mutex_planning, matcher, catches>>
           /\ \A t \in Trainers : (Matched(t)' <=> Matched(t)) /\ (Starting(t)' <=> Starting(t))
           /\ BeingPutBack' = BeingPutBack
<1>1. UNCHANGED <<matches, mutex_planning, matcher, catches>>
    BY DEF ReceiveMessageId, CatchStep, Answered, CountCaught, NoneInBackup, TakeFromBackup,
        MisreadBackup, Refill, NoLongerBeingCaught, BecomeFull, WakeMain, BecomeNew,
        BecomeAvailable, Answer, HandleCaught, CatchFrame, Die, planVars, catchVars
<1>2. \A u \in Trainers :
        trainer'[u].pc = trainer[u].pc \/ (trainer[u].pc = "caught" /\ trainer'[u].pc = "loop")
    <2>1. ASSUME NEW c \in Catches,
                 \/ ReceiveMessageId(c) \/ Answered(c) \/ CountCaught(c) \/ BecomeFull(c)
                 \/ BecomeNew(c) \/ BecomeAvailable(c)
          PROVE  \E t, status, pcb : SameBut(t, status, pcb)
        BY <2>1, OutcomeSteps
    <2>2. ASSUME NEW m \in caught_messages, HandleCaught(m)
          PROVE  \E t, status, pcb : SameBut(t, status, pcb)
        <3>1. m.id \in Catches
            BY DEF TeamTypes, CatchTypes, AnyMessage
        <3>. QED BY <2>2, <3>1, OutcomeSteps
    <2>3. CASE \E t, status, pcb : SameBut(t, status, pcb)
        BY <2>3 DEF SameBut
    <2>4. CASE ~ \/ \E c \in Catches : \/ ReceiveMessageId(c) \/ Answered(c) \/ CountCaught(c)
                                        \/ BecomeFull(c) \/ BecomeNew(c) \/ BecomeAvailable(c)
                 \/ \E m \in caught_messages : HandleCaught(m)
        BY <2>4 DEF CatchStep, NoneInBackup, TakeFromBackup, MisreadBackup, Refill,
            NoLongerBeingCaught, WakeMain, Answer, Die
    <2>. QED BY <2>1, <2>2, <2>3, <2>4
<1>3. BeingPutBack' = BeingPutBack /\ \A u \in Trainers : Starting(u)' <=> Starting(u)
    BY <1>2, SamePoints
<1>. QED BY <1>1, <1>3 DEF Matched

\* A trainer found full keeps its permit for good; the catch is done.
LEMMA FullSteps ==
    ASSUME TeamTypes, SameExecution, NEW c \in Catches, BecomeFull(c)
    PROVE  /\ Permits' = Permits /\ c \in Undone /\ Undone' = Undone \ {c}
           /\ \E t : Out' \subseteq Out \cup {t}
<1>. DEFINE t == catch[c].trainer
<1>1. /\ UNCHANGED <<matches, mutex_planning, matcher, catches, sem_trainer_available>>
      /\ \A u \in Trainers : (Matched(u)' <=> Matched(u)) /\ (Starting(u)' <=> Starting(u))
      /\ BeingPutBack' = BeingPutBack
    BY OutcomeFrames DEF CatchStep, BecomeFull
<1>2. catch[c].pc = "full?" /\ To(c, "all full?")
    BY CatchSteps
<1>3. Permits' = Permits
    BY <1>1 DEF Permits
<1>4. c \in Undone /\ Undone' = Undone \ {c}
    BY <1>1, <1>2 DEF Undone, To
<1>5. \A u \in Trainers \ {t} : Catching(u) => Catching(u)'
    BY <1>2, StillCatching
<1>8. \A u \in Trainers : Begins(u) => Begins(u)'
    BY <1>1, <1>2, StillBegins
<1>6. PICK status : SameBut(t, status, trainer[t].pcb)
    BY OutcomeSteps
<1>. HIDE DEF t
<1>7. Out' \subseteq Out \cup {t}
    BY <1>1, <1>5, <1>6, <1>8 DEF Out, IsOut, SameBut, SameExecution
<1>. QED BY <1>3, <1>4, <1>7

\* A trainer that is not full is found again first ...
LEMMA NewSteps ==
    ASSUME TeamTypes, SameExecution, NEW c \in Catches, BecomeNew(c)
    PROVE  Kept
<1>. DEFINE t == catch[c].trainer
<1>1. /\ UNCHANGED <<matches, mutex_planning, matcher, catches, sem_trainer_available>>
      /\ \A u \in Trainers : (Matched(u)' <=> Matched(u)) /\ (Starting(u)' <=> Starting(u))
      /\ BeingPutBack' = BeingPutBack
    BY OutcomeFrames DEF CatchStep, BecomeNew
<1>2. catch[c].pc = "full?" /\ To(c, "block")
    BY CatchSteps
<1>3. Permits' = Permits
    BY <1>1 DEF Permits
<1>4. Undone' = Undone
    BY <1>1, <1>2 DEF Undone, To
<1>5. \A u \in Trainers \ {t} : Catching(u) => Catching(u)'
    BY <1>2, StillCatching
<1>8. \A u \in Trainers : Begins(u) => Begins(u)'
    BY <1>1, <1>2, StillBegins
<1>6. SameBut(t, trainer[t].status, "NEW")
    BY OutcomeSteps
<1>. HIDE DEF t
<1>7. Out' \subseteq Out
    BY <1>1, <1>5, <1>6, <1>8 DEF Out, IsOut, SameBut, SameExecution
<1>. QED BY <1>3, <1>4, <1>7 DEF Kept

\* ... and gives its permit back next.
LEMMA AvailableSteps ==
    ASSUME TeamTypes, SameExecution, NEW c \in Catches, BecomeAvailable(c)
    PROVE  /\ Permits' = Permits + 1 /\ c \in Undone /\ Undone' = Undone \ {c}
           /\ Out' \subseteq Out
<1>. DEFINE t == catch[c].trainer
<1>1. /\ UNCHANGED <<matches, mutex_planning, matcher, catches>>
      /\ \A u \in Trainers : (Matched(u)' <=> Matched(u)) /\ (Starting(u)' <=> Starting(u))
      /\ BeingPutBack' = BeingPutBack
    BY OutcomeFrames DEF CatchStep
<1>2. catch[c].pc = "block" /\ To(c, "done")
    BY CatchSteps
<1>3. Permits' = Permits + 1
    <2>1. sem_trainer_available' = sem_trainer_available + 1
        BY DEF BecomeAvailable
    <2>2. Permits' = PermitSum(sem_trainer_available + 1, IF matcher.pc = "wait" THEN 0 ELSE 1,
                               Len(matches), IF mutex_planning THEN 1 ELSE 0,
                               Cardinality(BeingPutBack))
        BY <1>1, <2>1 DEF Permits, PermitSum
    <2>. QED BY <2>2, FiniteCounts, PermitsAreSum, PermitMoves
<1>4. c \in Undone /\ Undone' = Undone \ {c}
    BY <1>1, <1>2 DEF Undone, To
<1>5. \A u \in Trainers : Catching(u) => Catching(u)'
    BY <1>2, StillCatching
<1>8. \A u \in Trainers : Begins(u) => Begins(u)'
    BY <1>1, <1>2, StillBegins
<1>6. SameBut(t, "BLOCK", trainer[t].pcb)
    BY OutcomeSteps
<1>. HIDE DEF t
<1>7. Out' \subseteq Out
    BY <1>1, <1>5, <1>6, <1>8 DEF Out, IsOut, SameBut, SameExecution
<1>. QED BY <1>3, <1>4, <1>7

\* The other steps that deal with a catch move no permit.
LEMMA AnswerSteps ==
    ASSUME TeamTypes, SameExecution,
           \/ \E c \in Catches : /\ ReceiveMessageId(c) \/ CatchStep(c)
                                 /\ ~BecomeFull(c) /\ ~BecomeNew(c) /\ ~BecomeAvailable(c)
           \/ \E c \in Catches, result \in {0, 1} : Answer(c, result)
           \/ \E m \in caught_messages : HandleCaught(m)
    PROVE  Kept
<1>0. /\ catch \in [Catches -> CatchState] /\ \A m \in caught_messages : m.id \in Catches
    BY DEF TeamTypes, CatchTypes, AnyMessage
<1>1. /\ UNCHANGED <<matches, mutex_planning, matcher, catches, sem_trainer_available>>
      /\ \A u \in Trainers : (Matched(u)' <=> Matched(u)) /\ (Starting(u)' <=> Starting(u))
      /\ BeingPutBack' = BeingPutBack
    <2>1. UNCHANGED sem_trainer_available
        BY DEF ReceiveMessageId, CatchStep, Answered, CountCaught, NoneInBackup, TakeFromBackup,
            MisreadBackup, Refill, NoLongerBeingCaught, WakeMain, Answer, HandleCaught, Die
    <2>. QED BY <2>1, OutcomeFrames
<1>2. Permits' = Permits
    BY <1>1 DEF Permits
<1>3. \A u \in Trainers : trainer'[u].status = trainer[u].status /\ trainer'[u].pcb = trainer[u].pcb
    <2>1. ASSUME NEW c \in Catches, ReceiveMessageId(c) \/ Answered(c) \/ CountCaught(c)
          PROVE  \A u \in Trainers : trainer'[u].status = trainer[u].status
                                     /\ trainer'[u].pcb = trainer[u].pcb
        BY <2>1, OutcomeSteps DEF SameBut
    <2>2. ASSUME NEW m \in caught_messages, HandleCaught(m)
          PROVE  \A u \in Trainers : trainer'[u].status = trainer[u].status
                                     /\ trainer'[u].pcb = trainer[u].pcb
        BY <1>0, <2>2, OutcomeSteps DEF SameBut
    <2>3. CASE ~ \/ \E c \in Catches : ReceiveMessageId(c) \/ Answered(c) \/ CountCaught(c)
                 \/ \E m \in caught_messages : HandleCaught(m)
        BY <2>3 DEF CatchStep, NoneInBackup, TakeFromBackup, MisreadBackup, Refill,
            NoLongerBeingCaught, WakeMain, Answer, Die
    <2>. QED BY <2>1, <2>2, <2>3
<1>4. Undone' = Undone /\ \A u \in Trainers : (Catching(u) => Catching(u)') /\ (Begins(u) => Begins(u)')
    <2>1. ASSUME NEW c \in Catches,
                 \/ Answered(c) \/ CountCaught(c) \/ NoneInBackup(c) \/ TakeFromBackup(c)
                 \/ Refill(c) \/ NoLongerBeingCaught(c)
          PROVE  Undone' = Undone /\ \A u \in Trainers : (Catching(u) => Catching(u)') /\ (Begins(u) => Begins(u)')
        <3>1. PICK pc \in BeforeFull \ {"none"} : catch[c].pc \in BeforeFull /\ To(c, pc)
            BY <2>1, CatchSteps
        <3>2. pc \notin {"all full?", "done", "block"} /\ catch[c].pc \notin {"all full?", "done"}
            BY <3>1 DEF BeforeFull
        <3>3. Undone' = Undone
            BY <1>1, <3>1, <3>2 DEF Undone, To
        <3>4. catch[c].pc # "none" \/ ~Starting(catch[c].trainer)
            BY <2>1 DEF Answered, CountCaught, NoneInBackup, TakeFromBackup, Refill,
                NoLongerBeingCaught, Starting
        <3>5. \A u \in Trainers : Begins(u) => Begins(u)'
            BY <1>1, <3>1, <3>4, StillBegins
        <3>. QED BY <3>1, <3>2, <3>3, <3>5, StillCatching
    <2>2. ASSUME NEW c \in Catches, WakeMain(c)
          PROVE  Undone' = Undone /\ \A u \in Trainers : (Catching(u) => Catching(u)') /\ (Begins(u) => Begins(u)')
        <3>1. catch[c].pc = "all full?" /\ To(c, "done")
            BY <2>2, CatchSteps
        <3>2. Undone' = Undone
            BY <1>1, <3>1 DEF Undone, To
        <3>3. c \notin Undone
            BY <3>1 DEF Undone
        <3>4. \A u \in Trainers : Begins(u) => Begins(u)'
            BY <1>1, <3>1, StillBegins
        <3>. QED BY <3>1, <3>2, <3>3, <3>4, StillCatching
    <2>3. ASSUME NEW c \in Catches, ReceiveMessageId(c)
          PROVE  Undone' = Undone /\ \A u \in Trainers : (Catching(u) => Catching(u)') /\ (Begins(u) => Begins(u)')
        <3>1. \A d \in Catches : catch'[d].pc = catch[d].pc /\ catch'[d].trainer = catch[d].trainer
            BY <1>0, <2>3 DEF ReceiveMessageId, CatchState
        <3>2. Undone' = Undone
            BY <1>1, <3>1 DEF Undone
        <3>. QED BY <1>1, <3>1, <3>2 DEF Catching, Begins, Undone
    <2>4. CASE UNCHANGED catch
        BY <1>1, <2>4 DEF Undone, Catching, Begins
    <2>. QED BY <2>1, <2>2, <2>3, <2>4 DEF CatchStep, MisreadBackup, Answer, HandleCaught, Die, catchVars
<1>5. Out' \subseteq Out
    BY <1>1, <1>3, <1>4 DEF Out, IsOut, SameExecution
<1>. QED BY <1>2, <1>4, <1>5 DEF Kept

\* No step promises a permit that is not there.
LEMMA NextPermitsAccounted ==
    ASSUME TeamTypes, OnePlanned, PermitsAccounted, [Next]_vars
    PROVE  PermitsAccounted'
<1>1. /\ IsFiniteSet(Undone) /\ Cardinality(Undone) \in Nat
      /\ IsFiniteSet(Out) /\ Cardinality(Out) \in Nat /\ Permits \in Nat
    BY FiniteCounts
<1>2. TeamTypes' /\ Cardinality(Trainers) \in Nat
    BY NextTeamTypes, ObjectivesAreSet, FS_CardinalityType
<1>3. (Cardinality(Undone) \in Nat /\ Cardinality(Out) \in Nat /\ Permits \in Nat)'
    BY <1>2, NaturalCounts, PTL
<1>4. CASE Kept
    <2>1. Cardinality(Out') <= Cardinality(Out)
        BY <1>1, <1>4, SetSizes DEF Kept
    <2>. QED BY <1>1, <1>2, <1>3, <1>4, <2>1 DEF PermitsAccounted, Kept
<1>5. ASSUME NEW t \in Trainers, BecomeReady(t) \/ CheckExec(t), SameExecution
      PROVE  PermitsAccounted'
    <2>1. Out' \subseteq Out => Cardinality(Out') <= Cardinality(Out)
        BY <1>1, SetSizes
    <2>2. Out' \subseteq Out \cup {t} => Cardinality(Out') <= Cardinality(Out) + 1
        BY <1>1, SetSizes
    <2>. QED BY <1>1, <1>2, <1>3, <1>5, <2>1, <2>2, PutBackKeeps DEF PermitsAccounted
<1>6. ASSUME NEW t \in Trainers, SendCatch(t) \/ CatchByDefault(t) PROVE PermitsAccounted'
    <2>1. Out' \subseteq Out => Cardinality(Out') <= Cardinality(Out)
        BY <1>1, SetSizes
    <2>2. Out' \subseteq Out \cup {t} => Cardinality(Out') <= Cardinality(Out) + 1
        BY <1>1, SetSizes
    <2>3. Undone' = Undone \cup {catches + 1} /\ catches + 1 \notin Undone =>
            Cardinality(Undone') = Cardinality(Undone) + 1
        BY <1>1, SetSizes
    <2>. QED BY <1>1, <1>2, <1>3, <1>6, <2>1, <2>2, <2>3, BeginCatchSteps DEF PermitsAccounted
<1>7. ASSUME NEW c \in Catches, BecomeFull(c), SameExecution PROVE PermitsAccounted'
    <2>1. PICK t : Out' \subseteq Out \cup {t}
        BY <1>7, FullSteps
    <2>2. Cardinality(Out') <= Cardinality(Out) + 1
        BY <1>1, <2>1, SetSizes
    <2>3. Undone' = Undone \ {c} /\ c \in Undone => Cardinality(Undone') = Cardinality(Undone) - 1
        BY <1>1, SetSizes
    <2>. QED BY <1>1, <1>2, <1>3, <1>7, <2>2, <2>3, FullSteps DEF PermitsAccounted
<1>8. ASSUME NEW c \in Catches, BecomeAvailable(c), SameExecution PROVE PermitsAccounted'
    <2>1. Out' \subseteq Out => Cardinality(Out') <= Cardinality(Out)
        BY <1>1, SetSizes
    <2>2. Undone' = Undone \ {c} /\ c \in Undone => Cardinality(Undone') = Cardinality(Undone) - 1
        BY <1>1, SetSizes
    <2>. QED BY <1>1, <1>2, <1>3, <1>8, <2>1, <2>2, AvailableSteps DEF PermitsAccounted
<1>9. CASE LookForMatch \/ ChooseMatch \/ AddMatch \/ Plan
    BY <1>4, <1>9, MatchSteps
<1>10. CASE \E t \in Trainers : TrainerStep(t)
    <2>1. ASSUME NEW t \in Trainers, StepAndPreempt(t) PROVE PermitsAccounted'
        BY <1>4, <2>1, PreemptSteps
    <2>2. CASE \/ Plan \/ \E t \in Trainers : StepAndPreempt(t) \/ SendCatch(t) \/ CatchByDefault(t)
        BY <1>6, <1>9, <2>1, <2>2
    <2>3. ASSUME SameExecution, NEW t \in Trainers, Start(t) \/ StepAndGoOn(t) \/ Resume(t)
          PROVE  PermitsAccounted'
        BY <1>4, <2>3, WalkSteps
    <2>4. ASSUME SameExecution, NEW t \in Trainers, Requeue(t) \/ WaitCatch(t) \/ DealWithDefault(t)
          PROVE  PermitsAccounted'
        BY <1>4, <2>4, RequeueSteps, CatchingSteps
    <2>6. CASE SameExecution
        BY <1>5, <1>10, <2>2, <2>3, <2>4, <2>6 DEF TrainerStep
    <2>. QED BY <2>2, <2>6, ExecutionSteps
<1>11. CASE \/ \E c \in Catches : ReceiveMessageId(c) \/ CatchStep(c)
            \/ \E c \in Catches, result \in {0, 1} : Answer(c, result)
            \/ \E m \in caught_messages : HandleCaught(m)
    <2>1. CASE \/ Plan \/ \E t \in Trainers : StepAndPreempt(t) \/ SendCatch(t) \/ CatchByDefault(t)
        BY <1>4, <1>6, <1>9, <2>1, PreemptSteps
    <2>2. CASE SameExecution
        BY <1>4, <1>7, <1>8, <1>11, <2>2, NewSteps, AnswerSteps
    <2>. QED BY <2>1, <2>2, ExecutionSteps
<1>12. CASE ~ \/ MatcherStep \/ Plan \/ \E t \in Trainers : TrainerStep(t)
              \/ \E c \in Catches : ReceiveMessageId(c) \/ CatchStep(c)
              \/ \E c \in Catches, result \in {0, 1} : Answer(c, result)
              \/ \E m \in caught_messages : HandleCaught(m)
    <2>1. UNCHANGED <<matches, mutex_planning, matcher, catch, catches, trainer, sem_trainer_available>>
        BY <1>12 DEF Next, vars, MessageStep, ReceiveMessage, ReadRemaining, CountReceived,
            DecideAppeared, DecideLocalized, DecideOnNothing, AddLocalized, AddToBackup,
            MessageFrame, Die, planVars, catchVars
    <2>2. Kept
        BY <2>1 DEF Kept, Permits, Undone, Out, IsOut, Matched, Executes, Catching, Begins, Starting,
            BeingPutBack
    <2>. QED BY <1>4, <2>2
<1>13. CASE ChooseNothing
    <2>1. UNCHANGED <<matches, mutex_planning, matcher, catch, catches, trainer, sem_trainer_available>>
        BY <1>13 DEF ChooseNothing, Die, planVars, catchVars
    <2>2. Kept
        BY <2>1 DEF Kept, Permits, Undone, Out, IsOut, Matched, Executes, Catching, Begins, Starting,
            BeingPutBack
    <2>. QED BY <1>4, <2>2
<1>. QED BY <1>9, <1>10, <1>11, <1>12, <1>13 DEF MatcherStep

\* At the start there is a permit per trainer.
LEMMA InitPermitsAccounted == Init => PermitsAccounted
<1>. SUFFICES ASSUME Init PROVE PermitsAccounted
    OBVIOUS
<1>1. Undone = {}
    <2>1. catches = 0
        BY DEF Init
    <2>2. \A c \in Catches : ~(c <= 0)
        BY BoundsAreNat DEF Catches
    <2>. QED BY <2>1, <2>2 DEF Undone
<1>2. Out = {} /\ BeingPutBack = {}
    <2>1. \A t \in Trainers : trainer[t].pc = "loop" /\ trainer[t].pcb = "NEW"
        BY DEF Init
    <2>2. \A t \in Trainers \ FullAtFirst : trainer[t].status = "NEW"
        BY DEF Init
    <2>3. Out = {}
        BY <2>1, <2>2 DEF Out, IsOut
    <2>. QED BY <2>1, <2>3 DEF BeingPutBack
<1>3. Permits = Cardinality(Trainers)
    <2>1. /\ matcher.pc = "wait" /\ ~mutex_planning /\ sem_trainer_available = Cardinality(Trainers)
          /\ Len(matches) = 0
        BY DEF Init
    <2>2. Cardinality(Trainers) \in Nat
        BY ObjectivesAreSet, FS_CardinalityType
    <2>. QED BY <1>2, <2>1, <2>2, FS_EmptySet DEF Permits
<1>4. Cardinality(Trainers) \in Nat /\ Cardinality(Undone) = 0 /\ Cardinality(Out) = 0
    BY <1>1, <1>2, ObjectivesAreSet, FS_CardinalityType, FS_EmptySet
<1>. QED BY <1>3, <1>4 DEF PermitsAccounted

\* A function's image is no larger than its domain.
LEMMA ImageSize ==
    ASSUME NEW S, IsFiniteSet(S), NEW f
    PROVE  /\ IsFiniteSet({f[x] : x \in S})
           /\ Cardinality({f[x] : x \in S}) \in Nat
           /\ Cardinality({f[x] : x \in S}) <= Cardinality(S)
<1>. DEFINE T == {f[x] : x \in S}
            g == [x \in S |-> f[x]]
<1>1. g \in Surjection(S, T)
    BY DEF Surjection
<1>. HIDE DEF g
<1>2. IsFiniteSet(T) /\ Cardinality(T) <= Cardinality(S)
    BY <1>1, FS_Surjection
<1>. QED BY <1>2, FS_CardinalityType

\* A union is no larger than its parts together.
LEMMA UnionSize ==
    ASSUME NEW S, IsFiniteSet(S), NEW T, IsFiniteSet(T)
    PROVE  /\ IsFiniteSet(S \cup T) /\ Cardinality(S \cup T) \in Nat
           /\ Cardinality(S \cup T) <= Cardinality(S) + Cardinality(T)
<1>1. /\ IsFiniteSet(S \cup T)
      /\ Cardinality(S \cup T) = Cardinality(S) + Cardinality(T) - Cardinality(S \cap T)
    BY FS_Union
<1>2. IsFiniteSet(S \cap T)
    BY FS_Subset
<1>3. Cardinality(S) \in Nat /\ Cardinality(T) \in Nat /\ Cardinality(S \cap T) \in Nat
      /\ Cardinality(S \cup T) \in Nat
    BY <1>1, <1>2, FS_CardinalityType
<1>. QED BY <1>1, <1>3

\* Each trainer that get_closest_trainer passes over is out, was full from the start or holds a
\* permit of its own.
LEMMA AccountedTrainersAvailable ==
    TeamTypes /\ OnePlanned /\ PermitsAccounted => AvailableCanBeMatched
<1>. SUFFICES ASSUME TeamTypes, OnePlanned, PermitsAccounted PROVE AvailableCanBeMatched
    OBVIOUS
<1>. DEFINE idle == {t \in Trainers : not_exec(t)}
            executing == Executing
            trainerOf == [i \in DOMAIN matches |-> matches[i].trainer]
            listed == {trainerOf[i] : i \in DOMAIN matches}
            added == IF matcher.pc = "add" THEN {matcher.match.trainer} ELSE {}
            catcherOf == [c \in Catches |-> catch[c].trainer]
            catching == {catcherOf[c] : c \in Undone}
            busy == (((Out \cup executing) \cup (listed \cup added)) \cup catching)
                        \cup (BeingPutBack \cup FullAtFirst)
<1>1. /\ IsFiniteSet(Undone) /\ Cardinality(Undone) \in Nat
      /\ IsFiniteSet(Out) /\ Cardinality(Out) \in Nat
      /\ Len(matches) \in Nat /\ sem_trainer_available \in Nat
      /\ IsFiniteSet(BeingPutBack) /\ Cardinality(BeingPutBack) \in Nat
    BY FiniteCounts
<1>10. IsFiniteSet(FullAtFirst) /\ Cardinality(FullAtFirst) \in Nat
    <2>1. FullAtFirst \subseteq Trainers
        BY DEF FullAtFirst
    <2>. QED BY <2>1, ObjectivesAreSet, FS_Subset, FS_CardinalityType
<1>2. Trainers \ idle \subseteq busy
    <2>. SUFFICES ASSUME NEW t \in Trainers, ~not_exec(t) PROVE t \in busy
        OBVIOUS
    <2>1. trainer[t].status \in {"READY", "EXEC", "FULL", "EXIT"} \/ trainer[t].pcb = "EXEC"
        BY DEF not_exec, TeamTypes, CatchTypes, TrainerState
    <2>6. Begins(t) => Catching(t)
        BY DEF Begins, Catching
    <2>2. IsOut(t) \/ Matched(t) \/ Executes(t) \/ Catching(t)
        BY <2>1, <2>6 DEF IsOut
    <2>3. Matched(t) => t \in (listed \cup added) \cup BeingPutBack
        BY DEF Matched
    <2>4. Catching(t) => t \in catching
        BY DEF Catching, Undone
    <2>5. (IsOut(t) => t \in Out \cup FullAtFirst) /\ (Executes(t) => t \in executing)
        BY DEF Out, Executing
    <2>. QED BY <2>2, <2>3, <2>4, <2>5
<1>3. /\ IsFiniteSet(executing)
      /\ Cardinality(executing) = IF mutex_planning THEN 1 ELSE 0
    <2>1. CASE mutex_planning
        <3>1. PICK t \in Trainers : Executing = {t}
            BY <2>1 DEF OnePlanned, Executing
        <3>. QED BY <2>1, <3>1, FS_Singleton
    <2>2. CASE ~mutex_planning
        <3>1. Executing = {}
            BY <2>2 DEF OnePlanned, Executing
        <3>. QED BY <2>2, <3>1, FS_EmptySet
    <2>. QED BY <2>1, <2>2
<1>4. /\ IsFiniteSet(listed) /\ Cardinality(listed) \in Nat
      /\ Cardinality(listed) <= Len(matches)
    <2>1. DOMAIN matches = 1..Len(matches) /\ 1 \in Int /\ Len(matches) \in Int
        BY <1>1, LenProperties DEF TeamTypes, MatchTypes
    <2>2. /\ IsFiniteSet(1..Len(matches))
          /\ Cardinality(1..Len(matches)) = IF 1 > Len(matches) THEN 0 ELSE Len(matches) - 1 + 1
        BY <2>1, FS_Interval, Zenon
    <2>3. IsFiniteSet(DOMAIN matches) /\ Cardinality(DOMAIN matches) = Len(matches)
        BY <1>1, <2>1, <2>2
    <2>. HIDE DEF trainerOf
    <2>. QED BY <2>3, ImageSize
<1>5. /\ IsFiniteSet(added)
      /\ Cardinality(added) = IF matcher.pc = "add" THEN 1 ELSE 0
    BY FS_Singleton, FS_EmptySet
<1>6. /\ IsFiniteSet(catching) /\ Cardinality(catching) \in Nat
      /\ Cardinality(catching) <= Cardinality(Undone)
    <2>. HIDE DEF catcherOf
    <2>. QED BY <1>1, ImageSize
<1>. HIDE DEF executing, listed, added, catching
<1>7. /\ IsFiniteSet(busy) /\ Cardinality(busy) \in Nat
      /\ Cardinality(busy) <= Cardinality(Out) + Len(matches) + Cardinality(Undone)
            + Cardinality(executing) + Cardinality(added)
            + Cardinality(BeingPutBack) + Cardinality(FullAtFirst)
    <2>1. /\ IsFiniteSet(Out \cup executing) /\ Cardinality(Out \cup executing) \in Nat
          /\ Cardinality(Out \cup executing) <= Cardinality(Out) + Cardinality(executing)
        BY <1>1, <1>3, UnionSize
    <2>2. /\ IsFiniteSet(listed \cup added) /\ Cardinality(listed \cup added) \in Nat
          /\ Cardinality(listed \cup added) <= Cardinality(listed) + Cardinality(added)
        BY <1>4, <1>5, UnionSize
    <2>. DEFINE most == (Out \cup executing) \cup (listed \cup added)
    <2>3. /\ IsFiniteSet(most) /\ Cardinality(most) \in Nat
          /\ Cardinality(most) <= Cardinality(Out \cup executing) + Cardinality(listed \cup added)
        BY <2>1, <2>2, UnionSize
    <2>. HIDE DEF most
    <2>4. /\ IsFiniteSet(most \cup catching) /\ Cardinality(most \cup catching) \in Nat
          /\ Cardinality(most \cup catching) <= Cardinality(most) + Cardinality(catching)
        BY <1>6, <2>3, UnionSize
    <2>5. Cardinality(executing) \in Nat /\ Cardinality(added) \in Nat
        BY <1>3, <1>5, FS_CardinalityType
    <2>6. Cardinality(most \cup catching) <= Cardinality(Out) + Len(matches) + Cardinality(Undone)
            + Cardinality(executing) + Cardinality(added)
        BY <1>1, <1>4, <1>6, <2>1, <2>2, <2>3, <2>4, <2>5, SMTT(40)
    <2>. DEFINE more == most \cup catching
    <2>7. /\ IsFiniteSet(BeingPutBack \cup FullAtFirst)
          /\ Cardinality(BeingPutBack \cup FullAtFirst) \in Nat
          /\ Cardinality(BeingPutBack \cup FullAtFirst)
                <= Cardinality(BeingPutBack) + Cardinality(FullAtFirst)
        BY <1>1, <1>10, UnionSize
    <2>8. IsFiniteSet(more)
        BY <2>4
    <2>. HIDE DEF more
    <2>9. /\ IsFiniteSet(more \cup (BeingPutBack \cup FullAtFirst))
          /\ Cardinality(more \cup (BeingPutBack \cup FullAtFirst)) \in Nat
          /\ Cardinality(more \cup (BeingPutBack \cup FullAtFirst))
                <= Cardinality(more) + Cardinality(BeingPutBack \cup FullAtFirst)
        BY <2>7, <2>8, UnionSize
    <2>10. busy = more \cup (BeingPutBack \cup FullAtFirst)
        BY DEF more, most
    <2>. HIDE DEF busy
    <2>11. Cardinality(more) \in Nat
        BY <2>8, FS_CardinalityType
    <2>12. Cardinality(more) <= Cardinality(Out) + Len(matches) + Cardinality(Undone)
            + Cardinality(executing) + Cardinality(added)
        BY <2>6 DEF more
    <2>. QED BY <1>1, <1>10, <2>5, <2>7, <2>9, <2>10, <2>11, <2>12, SMTT(40)
<1>. HIDE DEF busy
<1>8. Cardinality(Trainers) <= Cardinality(idle) + Cardinality(busy)
    <2>1. IsFiniteSet(idle)
        BY ObjectivesAreSet, FS_Subset
    <2>. HIDE DEF idle
    <2>2. IsFiniteSet(idle \cup busy) /\ Cardinality(idle \cup busy) \in Nat
          /\ Cardinality(idle \cup busy) <= Cardinality(idle) + Cardinality(busy)
        BY <1>7, <2>1, UnionSize
    <2>3. Trainers \in SUBSET (idle \cup busy)
        BY <1>2
    <2>4. Cardinality(Trainers) <= Cardinality(idle \cup busy) /\ Cardinality(Trainers) \in Nat
        BY <2>2, <2>3, ObjectivesAreSet, FS_Subset, FS_CardinalityType
    <2>5. Cardinality(idle) \in Nat
        BY <2>1, FS_CardinalityType
    <2>. QED BY <1>7, <2>2, <2>4, <2>5
<1>9. sem_trainer_available + (IF matcher.pc = "choose" THEN 1 ELSE 0)
        <= Cardinality(idle) + Cardinality(FullAtFirst)
    <2>. DEFINE choosing == IF matcher.pc = "choose" THEN 1 ELSE 0
                adding == IF matcher.pc = "add" THEN 1 ELSE 0
                planned == IF mutex_planning THEN 1 ELSE 0
    <2>1. choosing \in Nat /\ adding \in Nat /\ planned \in Nat
          /\ Cardinality(added) = adding /\ Cardinality(executing) = planned
        BY <1>3, <1>5
    <2>2. (IF matcher.pc = "wait" THEN 0 ELSE 1) = choosing + adding
        BY DEF TeamTypes, MatchTypes
    <2>. HIDE DEF choosing, adding, planned
    <2>3. Permits = sem_trainer_available + (choosing + adding) + Len(matches) + planned
                        + Cardinality(BeingPutBack)
        BY <2>2 DEF Permits, planned
    <2>4. Cardinality(Trainers) \in Nat /\ Cardinality(idle) \in Nat
        <3>1. IsFiniteSet(Trainers) /\ IsFiniteSet(idle)
            BY ObjectivesAreSet, FS_Subset
        <3>. QED BY <3>1, FS_CardinalityType
    <2>. HIDE DEF idle
    <2>5. sem_trainer_available + choosing <= Cardinality(idle) + Cardinality(FullAtFirst)
        BY <1>1, <1>7, <1>8, <1>10, <2>1, <2>3, <2>4, SMTT(40) DEF PermitsAccounted
    <2>. QED BY <2>5 DEF choosing
<1>. QED BY <1>9 DEF AvailableCanBeMatched

\* sem_trainer_available promises more trainers than get_closest_trainer can find by at most those
\* that were full by the configuration, whatever the order in which catches end, and although a
\* trainer becomes idle in two steps.  With no such trainer, the one that it returns is one it has set.
THEOREM FoundWhenAvailable == Spec => []AvailableCanBeMatched
<1>1. Init => TeamTypes /\ OnePlanned /\ PermitsAccounted
    BY InitTeamTypes, InitOnePlanned, InitPermitsAccounted
<1>2. TeamTypes /\ OnePlanned /\ PermitsAccounted /\ [Next]_vars
        => (TeamTypes /\ OnePlanned /\ PermitsAccounted)'
    BY NextTeamTypes, NextOnePlanned, NextPermitsAccounted
<1>3. TeamTypes /\ OnePlanned /\ PermitsAccounted => AvailableCanBeMatched
    BY AccountedTrainersAvailable
<1>. QED BY <1>1, <1>2, <1>3, PTL DEF Spec

-----------------------------------------------------------------------------
(* The types of what is not counted.                                       *)

OtherTypes ==
    /\ algorithm \in Algorithms /\ crashed \in BOOLEAN
    /\ remaining \in [Pokemons -> Nat]
    /\ appeared_backup \in Seq([list : BOOLEAN, pokemon : Pokemons])
    /\ sem_all_pokemons_caught \in Nat
    /\ answered \in SUBSET Catches /\ duplicates \in 0..MaxDuplicates
    /\ lost \in SUBSET Catches /\ misled \in SUBSET Trainers

\* The element of the backup that search_in_backup stops at is one of its elements.
LEMMA FirstSimilar ==
    ASSUME NEW c, Similar(c) # {},
           appeared_backup \in Seq([list : BOOLEAN, pokemon : Pokemons])
    PROVE  Min(Similar(c)) \in DOMAIN appeared_backup
<1>1. Similar(c) \in SUBSET Nat
    BY LenProperties DEF Similar
<1>2. PICK n \in Similar(c) : \A m \in Similar(c) : n <= m
    BY <1>1, LeastNumber
<1>3. Min(Similar(c)) \in Similar(c)
    BY <1>2 DEF Min
<1>. QED BY <1>3 DEF Similar

\* Every step keeps the types of the counters, of the backup and of the history.
LEMMA NextOtherTypes ==
    ASSUME TeamTypes, OtherTypes, [Next]_vars
    PROVE  OtherTypes'
<1>. USE DEF TeamTypes
<1>1. algorithm' \in Algorithms /\ crashed' \in BOOLEAN
    BY ZenonT(60) DEF OtherTypes, Next, vars, MessageStep, ReceiveMessage, ReadRemaining, CountReceived,
            DecideAppeared, DecideLocalized, DecideOnNothing, AddLocalized, AddToBackup,
            MatcherStep, LookForMatch, ChooseMatch, ChooseNothing, AddMatch, Plan,
            TrainerStep, Start, StepAndGoOn, StepAndPreempt,
            BecomeReady, CheckExec, Requeue, Resume, SendCatch, WaitCatch, CatchByDefault, DealWithDefault,
            ReceiveMessageId, CatchStep, Answered, Answer, HandleCaught, CountCaught, NoneInBackup,
            TakeFromBackup, MisreadBackup, Refill, NoLongerBeingCaught, BecomeFull, WakeMain,
            BecomeNew, BecomeAvailable, MessageFrame, MatcherFrame, TrainerFrame, CatchFrame,
            Running, Die
<1>2. remaining' \in [Pokemons -> Nat]
    <2>1. ASSUME NEW c \in Catches, CountCaught(c) PROVE remaining' \in [Pokemons -> Nat]
        <3>1. remaining' = [remaining EXCEPT ![Pokemon(c)] = Substract(remaining[Pokemon(c)])]
            BY <2>1 DEF CountCaught
        <3>2. \A n \in Nat : Substract(n) \in Nat
            BY DEF Substract
        <3>. QED BY <3>1, <3>2 DEF OtherTypes
    <2>2. CASE ~ \E c \in Catches : CountCaught(c)
        <3>1. UNCHANGED remaining
            BY <2>2 DEF Next, vars, MessageStep, ReceiveMessage, ReadRemaining, CountReceived,
            DecideAppeared, DecideLocalized, DecideOnNothing, AddLocalized, AddToBackup,
            MatcherStep, LookForMatch, ChooseMatch, ChooseNothing, AddMatch, Plan,
            TrainerStep, Start, StepAndGoOn, StepAndPreempt,
            BecomeReady, CheckExec, Requeue, Resume, SendCatch, WaitCatch, CatchByDefault, DealWithDefault,
            ReceiveMessageId, CatchStep, Answered, Answer, HandleCaught, NoneInBackup,
            TakeFromBackup, MisreadBackup, Refill, NoLongerBeingCaught, BecomeFull, WakeMain,
            BecomeNew, BecomeAvailable, MessageFrame, MatcherFrame, TrainerFrame, Die, counterVars
        <3>. QED BY <3>1 DEF OtherTypes
    <2>. QED BY <2>1, <2>2
<1>3. appeared_backup' \in Seq([list : BOOLEAN, pokemon : Pokemons])
    <2>1. ASSUME NEW n \in MessageThreads, AddToBackup(n)
          PROVE  appeared_backup' \in Seq([list : BOOLEAN, pokemon : Pokemons])
        <3>1. PICK r : r = [list |-> message[n].localized, pokemon |-> message[n].pokemon]
            OBVIOUS
        <3>2. r \in [list : BOOLEAN, pokemon : Pokemons]
            BY <3>1 DEF MessageTypes, MessageState
        <3>3. appeared_backup' = Append(appeared_backup, r)
            BY <2>1, <3>1 DEF AddToBackup
        <3>. QED BY <3>2, <3>3, AppendProperties DEF OtherTypes
    <2>2. ASSUME NEW c \in Catches, TakeFromBackup(c)
          PROVE  appeared_backup' \in Seq([list : BOOLEAN, pokemon : Pokemons])
        <3>1. PICK i : i = Min(Similar(c))
            OBVIOUS
        <3>2. Similar(c) # {} /\ appeared_backup' = RemoveAt(appeared_backup, i)
            BY <2>2, <3>1 DEF TakeFromBackup
        <3>3. i \in DOMAIN appeared_backup
            BY <3>1, <3>2, FirstSimilar DEF OtherTypes
        <3>. QED BY <3>2, <3>3, RemoveAtProperties DEF OtherTypes
    <2>3. CASE ~ \/ \E n \in MessageThreads : AddToBackup(n)
                 \/ \E c \in Catches : TakeFromBackup(c)
        <3>1. UNCHANGED appeared_backup
            BY <2>3 DEF Next, vars, MessageStep, ReceiveMessage, ReadRemaining, CountReceived,
            DecideAppeared, DecideLocalized, DecideOnNothing, AddLocalized,
            MatcherStep, LookForMatch, ChooseMatch, ChooseNothing, AddMatch, Plan,
            TrainerStep, Start, StepAndGoOn, StepAndPreempt,
            BecomeReady, CheckExec, Requeue, Resume, SendCatch, WaitCatch, CatchByDefault, DealWithDefault,
            ReceiveMessageId, CatchStep, Answered, Answer, HandleCaught, CountCaught, NoneInBackup,
            MisreadBackup, Refill, NoLongerBeingCaught, BecomeFull, WakeMain,
            BecomeNew, BecomeAvailable, MatcherFrame, TrainerFrame, Die, listVars
        <3>. QED BY <3>1 DEF OtherTypes
    <2>. QED BY <2>1, <2>2, <2>3
<1>4. /\ sem_all_pokemons_caught' \in Nat
      /\ answered' \in SUBSET Catches /\ duplicates' \in 0..MaxDuplicates
      /\ lost' \in SUBSET Catches
    <2>1. ASSUME NEW m \in caught_messages, HandleCaught(m)
          PROVE  /\ UNCHANGED <<sem_all_pokemons_caught, answered>>
                 /\ duplicates' \in 0..MaxDuplicates /\ lost' \in SUBSET Catches
        <3>1. m.id \in Catches
            BY DEF CatchTypes, AnyMessage
        <3>2. UNCHANGED <<sem_all_pokemons_caught, answered>> /\ lost' \in SUBSET Catches
            BY <2>1, <3>1 DEF HandleCaught, OtherTypes
        <3>3. duplicates' = duplicates \/ (duplicates < MaxDuplicates /\ duplicates' = duplicates + 1)
            BY <2>1 DEF HandleCaught
        <3>. QED BY <3>2, <3>3, BoundsAreNat DEF OtherTypes
    <2>2. ASSUME NEW c \in Catches, WakeMain(c)
          PROVE  /\ UNCHANGED <<answered, duplicates, lost>>
                 /\ sem_all_pokemons_caught' \in Nat
        <3>0. (IF AllFull THEN 1 ELSE 0) \in {0, 1}
            OBVIOUS
        <3>1. PICK one \in {0, 1} : sem_all_pokemons_caught' = sem_all_pokemons_caught + one
            BY <2>2, <3>0 DEF WakeMain
        <3>2. sem_all_pokemons_caught \in Nat
            BY DEF OtherTypes
        <3>3. UNCHANGED <<answered, duplicates, lost>>
            BY <2>2 DEF WakeMain
        <3>4. sem_all_pokemons_caught' \in Nat
            BY <3>1, <3>2
        <3>. QED BY <3>3, <3>4
    <2>3. ASSUME NEW c \in Catches, NEW result \in {0, 1}, Answer(c, result)
          PROVE  /\ UNCHANGED <<sem_all_pokemons_caught, duplicates, lost>>
                 /\ answered' \in SUBSET Catches
        BY <2>3 DEF Answer, OtherTypes
    <2>4. CASE ~ \/ \E m \in caught_messages : HandleCaught(m)
                 \/ \E c \in Catches : WakeMain(c)
                 \/ \E c \in Catches, result \in {0, 1} : Answer(c, result)
        <3>1. UNCHANGED <<sem_all_pokemons_caught, answered, duplicates, lost>>
            BY <2>4 DEF Next, vars, MessageStep, ReceiveMessage, ReadRemaining, CountReceived,
            DecideAppeared, DecideLocalized, DecideOnNothing, AddLocalized, AddToBackup,
            MatcherStep, LookForMatch, ChooseMatch, ChooseNothing, AddMatch, Plan,
            TrainerStep, Start, StepAndGoOn, StepAndPreempt,
            BecomeReady, CheckExec, Requeue, Resume, SendCatch, WaitCatch, CatchByDefault, DealWithDefault,
            ReceiveMessageId, CatchStep, Answered, CountCaught, NoneInBackup,
            TakeFromBackup, MisreadBackup, Refill, NoLongerBeingCaught, BecomeFull,
            BecomeNew, BecomeAvailable, MessageFrame, MatcherFrame, TrainerFrame, Die, answerVars
        <3>. QED BY <3>1 DEF OtherTypes
    <2>. QED BY <2>1, <2>2, <2>3, <2>4 DEF OtherTypes
<1>5. misled' \in SUBSET Trainers
    <2>1. CASE Plan
        <3>1. PICK i \in DOMAIN matches :
                misled' = misled \cup Overwritten(matches[i].trainer, matches[i].pokemon)
            BY <2>1 DEF Plan, NextToExec
        <3>2. matches[i] \in PlannedMatch
            BY ElementOfSeq, LenProperties DEF MatchTypes
        <3>3. matches[i].trainer \in Trainers
            BY <3>2 DEF PlannedMatch
        <3>. QED BY <3>1, <3>3 DEF Overwritten, OtherTypes
    <2>2. ASSUME NEW t \in Trainers, CheckExec(t) PROVE misled' \in SUBSET Trainers
        BY <2>2 DEF CheckExec, OtherTypes
    <2>3. CASE ~Plan /\ ~ \E t \in Trainers : CheckExec(t)
        <3>1. UNCHANGED misled
            BY <2>3, ZenonT(40) DEF Next, vars, MessageStep, ReceiveMessage, ReadRemaining, CountReceived,
            DecideAppeared, DecideLocalized, DecideOnNothing, AddLocalized, AddToBackup,
            MatcherStep, LookForMatch, ChooseMatch, ChooseNothing, AddMatch,
            TrainerStep, Start, StepAndGoOn, StepAndPreempt, BecomeReady, Requeue, Resume,
            SendCatch, WaitCatch, CatchByDefault, DealWithDefault,
            ReceiveMessageId, CatchStep, Answered, Answer, HandleCaught, CountCaught, NoneInBackup,
            TakeFromBackup, MisreadBackup, Refill, NoLongerBeingCaught, BecomeFull, WakeMain,
            BecomeNew, BecomeAvailable, MessageFrame, MatcherFrame, CatchFrame, Die, planVars
        <3>. QED BY <3>1 DEF OtherTypes
    <2>. QED BY <2>1, <2>2, <2>3
<1>. QED BY <1>1, <1>2, <1>3, <1>4, <1>5 DEF OtherTypes

-----------------------------------------------------------------------------
(* Where the pokemons that appeared are.                                   *)

\* A thread's message is of one pokemon or more, and of one alone unless it is LOCALIZED.
Sized(m) ==
    /\ m.pc \in {"remaining", "count", "decide", "add"} => m.size >= 1
    /\ ~m.localized => m.size <= 1
    /\ m.pc = "add" => m.localized

MessagesSized == \A n \in MessageThreads : Sized(message[n])

\* The elements that a message may still put into a list.
Pending(m) ==
    IF m.pc \in {"remaining", "count", "decide"} THEN m.size
    ELSE IF m.pc = "add" THEN m.size + m.rest
    ELSE IF m.pc = "backup" THEN 1 ELSE 0

Coming == SumFunctionOnSet([n \in MessageThreads |-> Pending(message[n])], MessageThreads)

Refilling == {c \in Catches : catch[c].pc = "refill"}

\* The pokemons that nobody has matched yet.
Arrived == Coming + Len(received) + Len(appeared_backup) + Cardinality(Refilling)

\* What a step of a message's thread does to them: they get no more, and the semaphore follows.
Advances(n) ==
    /\ \A k \in MessageThreads \ {n} : message'[k] = message[k]
    /\ Sized(message'[n])
    /\ Pending(message'[n]) + Len(received') + Len(appeared_backup')
            <= Pending(message[n]) + Len(received) + Len(appeared_backup)
    /\ sem_appeared_pokemon' + Len(received) = sem_appeared_pokemon + Len(received')

\* What a thread's message may still become is a number.
LEMMA PendingIsNat ==
    ASSUME NEW m \in MessageState
    PROVE  Pending(m) \in Nat /\ m.size \in Nat /\ m.rest \in Nat
<1>1. m.size \in Nat /\ m.rest \in Nat
    BY BoundsAreNat DEF MessageState
<1>. QED BY <1>1 DEF Pending

ArrivedNumbers ==
    /\ Coming \in Nat /\ Len(received) \in Nat /\ Len(appeared_backup) \in Nat
    /\ IsFiniteSet(Refilling) /\ Cardinality(Refilling) \in Nat /\ Arrived \in Nat

\* The parts of Arrived are numbers.
LEMMA ArrivedIsNat == TeamTypes /\ OtherTypes => ArrivedNumbers
<1>. SUFFICES ASSUME TeamTypes, OtherTypes PROVE ArrivedNumbers
    OBVIOUS
<1>. DEFINE pending == [n \in MessageThreads |-> Pending(message[n])]
<1>1. IsFiniteSet(MessageThreads) /\ IsFiniteSet(Catches)
    BY BoundsAreNat, FS_Interval DEF MessageThreads, Catches
<1>2. \A n \in MessageThreads : pending[n] \in Nat
    BY PendingIsNat DEF TeamTypes, MessageTypes
<1>3. Coming \in Nat
    <2>1. Coming = SumFunctionOnSet(pending, MessageThreads)
        BY DEF Coming
    <2>. HIDE DEF pending
    <2>. QED BY <1>1, <1>2, <2>1, SumOnSet
<1>4. Len(received) \in Nat /\ Len(appeared_backup) \in Nat
    BY LenProperties DEF TeamTypes, MessageTypes, OtherTypes
<1>5. IsFiniteSet(Refilling) /\ Cardinality(Refilling) \in Nat
    <2>1. Refilling \in SUBSET Catches
        BY DEF Refilling
    <2>. QED BY <1>1, <2>1, FS_Subset, FS_CardinalityType
<1>. QED BY <1>3, <1>4, <1>5 DEF Arrived, ArrivedNumbers

\* Every step of a message's thread but the one that finds a key gone.
LEMMA MessageSteps ==
    ASSUME TeamTypes, OtherTypes, MessagesSized, NEW n \in MessageThreads, MessageStep(n),
           ~DecideOnNothing(n)
    PROVE  Advances(n)
<1>. USE DEF TeamTypes, MessageTypes
<1>0. PICK m \in MessageState : m = message[n]
    OBVIOUS
<1>1. m.size \in Nat /\ m.rest \in Nat /\ Pending(m) \in Nat /\ Sized(m)
    BY <1>0, PendingIsNat DEF MessagesSized
<1>2. Len(received) \in Nat /\ Len(appeared_backup) \in Nat /\ sem_appeared_pokemon \in Nat
    BY LenProperties DEF OtherTypes
<1>3. Sized(NoThread("done")) /\ Pending(NoThread("done")) = 0
    BY DEF Sized, Pending, NoThread
<1>4. ASSUME NEW r, message' = [message EXCEPT ![n] = r]
      PROVE  message'[n] = r /\ \A k \in MessageThreads \ {n} : message'[k] = message[k]
    BY <1>4
<1>5. ASSUME NEW r, message' = [message EXCEPT ![n] = r], Sized(r), Pending(r) \in Nat,
             Pending(r) <= Pending(m), UNCHANGED <<received, appeared_backup, sem_appeared_pokemon>>
      PROVE  Advances(n)
    <2>1. /\ message'[n] = r /\ \A k \in MessageThreads \ {n} : message'[k] = message[k]
        BY <1>4, <1>5
    <2>2. Pending(r) + Len(received) + Len(appeared_backup)
            <= Pending(m) + Len(received) + Len(appeared_backup)
        BY <1>1, <1>2, <1>5
    <2>. QED BY <1>0, <1>5, <2>1, <2>2 DEF Advances
<1>6. CASE ReadRemaining(n)
    <2>1. m.pc = "remaining" /\ UNCHANGED <<received, appeared_backup, sem_appeared_pokemon>>
        BY <1>0, <1>6 DEF ReadRemaining, listVars
    <2>2. \/ message' = [message EXCEPT ![n] = [m EXCEPT !.pc = "count"]]
          \/ message' = [message EXCEPT ![n] = NoThread("done")]
        BY <1>0, <1>6 DEF ReadRemaining
    <2>3. PICK r : r = [m EXCEPT !.pc = "count"]
        OBVIOUS
    <2>4. Sized(r) /\ Pending(r) = Pending(m)
        BY <1>1, <2>1, <2>3 DEF Sized, Pending, MessageState
    <2>. QED BY <1>1, <1>3, <1>5, <2>1, <2>2, <2>3, <2>4
<1>7. CASE CountReceived(n)
    <2>1. m.pc = "count" /\ UNCHANGED <<received, appeared_backup, sem_appeared_pokemon>>
        BY <1>0, <1>7 DEF CountReceived, listVars
    <2>2. PICK q, has : message' = [message EXCEPT ![n] = [m EXCEPT !.pc = "decide", !.q = q, !.has = has]]
        BY <1>0, <1>7 DEF CountReceived
    <2>3. PICK r : r = [m EXCEPT !.pc = "decide", !.q = q, !.has = has]
        OBVIOUS
    <2>4. Sized(r) /\ Pending(r) = Pending(m)
        BY <1>1, <2>1, <2>3 DEF Sized, Pending, MessageState
    <2>5. message' = [message EXCEPT ![n] = r]
        BY <2>2, <2>3
    <2>6. Pending(r) \in Nat /\ Pending(r) <= Pending(m)
        BY <1>1, <2>4
    <2>. QED BY <1>5, <2>1, <2>4, <2>5, <2>6
<1>8. CASE DecideAppeared(n)
    <2>1. m.pc = "decide" /\ ~m.localized /\ m.pokemon \in Pokemons /\ UNCHANGED appeared_backup
        BY <1>0, <1>8 DEF DecideAppeared, MessageState
    <2>2. m.size = 1 /\ Pending(m) = 1
        BY <1>1, <2>1 DEF Sized, Pending
    <2>3. CASE /\ received' = Append(received, m.pokemon)
               /\ sem_appeared_pokemon' = sem_appeared_pokemon + 1
               /\ message' = [message EXCEPT ![n] = NoThread("done")]
        <3>1. Len(received') = Len(received) + 1
            BY <2>1, <2>3, AppendProperties
        <3>2. message'[n] = NoThread("done") /\ \A k \in MessageThreads \ {n} : message'[k] = message[k]
            BY <1>4, <2>3
        <3>3. 0 + (Len(received) + 1) + Len(appeared_backup) <= 1 + Len(received) + Len(appeared_backup)
              /\ sem_appeared_pokemon + 1 + Len(received) = sem_appeared_pokemon + (Len(received) + 1)
            BY <1>2
        <3>. QED BY <1>0, <1>3, <2>1, <2>2, <2>3, <3>1, <3>2, <3>3 DEF Advances
    <2>4. CASE /\ UNCHANGED <<received, sem_appeared_pokemon>>
               /\ message' = [message EXCEPT ![n].pc = "backup"]
        <3>1. PICK r : r = [m EXCEPT !.pc = "backup"]
            OBVIOUS
        <3>2. Sized(r) /\ Pending(r) = 1
            BY <1>1, <2>1, <3>1 DEF Sized, Pending, MessageState
        <3>3. message' = [message EXCEPT ![n] = r]
            BY <1>0, <2>4, <3>1
        <3>4. Pending(r) \in Nat /\ Pending(r) <= Pending(m)
            BY <2>2, <3>2
        <3>. QED BY <1>5, <2>1, <2>4, <3>2, <3>3, <3>4
    <2>. QED BY <1>0, <1>8, <2>3, <2>4 DEF DecideAppeared
<1>9. CASE DecideLocalized(n)
    <2>1. m.pc = "decide" /\ m.localized /\ UNCHANGED <<received, appeared_backup, sem_appeared_pokemon>>
        BY <1>0, <1>9 DEF DecideLocalized, listVars
    <2>2. PICK k : k = ToCatch(n) /\ k \in 0..m.size
        BY <1>0, CountsAreNat
    <2>3. PICK r : r = [m EXCEPT !.pc = IF k > 0 THEN "add" ELSE "backup",
                                 !.size = k, !.rest = m.size - k]
        OBVIOUS
    <2>4. message' = [message EXCEPT ![n] = r]
        BY <1>0, <1>9, <2>2, <2>3 DEF DecideLocalized
    <2>5. /\ r.pc = (IF k > 0 THEN "add" ELSE "backup") /\ r.localized /\ r.size = k
          /\ r.rest = m.size - k
        BY <2>1, <2>3 DEF MessageState
    <2>6. Pending(m) = m.size /\ m.size >= 1 /\ k \in Nat /\ k + (m.size - k) = m.size
        BY <1>1, <2>1, <2>2 DEF Sized, Pending
    <2>7. Sized(r) /\ Pending(r) \in Nat /\ Pending(r) <= Pending(m)
        BY <1>1, <2>2, <2>5, <2>6 DEF Sized, Pending
    <2>. QED BY <1>5, <2>1, <2>4, <2>7
<1>10. CASE AddLocalized(n)
    <2>1. m.pc = "add" /\ m.localized /\ m.pokemon \in Pokemons /\ m.size \in Nat
          /\ UNCHANGED appeared_backup
        BY <1>0, <1>1, <1>10 DEF AddLocalized, MessageState, Sized
    <2>2. PICK s : s = [i \in 1..m.size |-> m.pokemon]
        OBVIOUS
    <2>3. received' = received \o s /\ sem_appeared_pokemon' = sem_appeared_pokemon + m.size
        BY <1>0, <1>10, <2>2 DEF AddLocalized
    <2>4. s \in Seq(Pokemons) /\ Len(s) = m.size
        BY <2>1, <2>2
    <2>5. Len(received') = Len(received) + m.size
        <3>1. received \in Seq(Pokemons)
            OBVIOUS
        <3>2. Len(received \o s) = Len(received) + Len(s)
            BY <2>4, <3>1, ConcatProperties
        <3>. QED BY <2>3, <2>4, <3>2
    <2>6. PICK r : r = (IF m.rest > 0 THEN [m EXCEPT !.pc = "backup"] ELSE NoThread("done"))
        OBVIOUS
    <2>7. message' = [message EXCEPT ![n] = r]
        BY <1>0, <1>10, <2>6 DEF AddLocalized
    <2>8. Sized(r) /\ Pending(r) \in Nat /\ Pending(r) <= m.rest
        <3>1. CASE m.rest > 0
            BY <1>1, <2>1, <2>6, <3>1 DEF Sized, Pending, MessageState
        <3>2. CASE ~(m.rest > 0)
            BY <1>1, <1>3, <2>6, <3>2
        <3>. QED BY <3>1, <3>2
    <2>9. Pending(m) = m.size + m.rest
        BY <2>1 DEF Pending
    <2>10. message'[n] = r /\ \A k \in MessageThreads \ {n} : message'[k] = message[k]
        BY <1>4, <2>7
    <2>11. /\ Pending(r) + (Len(received) + m.size) + Len(appeared_backup)
                <= m.size + m.rest + Len(received) + Len(appeared_backup)
           /\ sem_appeared_pokemon + m.size + Len(received)
                = sem_appeared_pokemon + (Len(received) + m.size)
        BY <1>1, <1>2, <2>8, SMTT(30)
    <2>. QED BY <1>0, <2>1, <2>3, <2>5, <2>8, <2>9, <2>10, <2>11 DEF Advances
<1>11. CASE AddToBackup(n)
    <2>1. m.pc = "backup" /\ UNCHANGED <<received, sem_appeared_pokemon>> /\ Pending(m) = 1
        BY <1>0, <1>11 DEF AddToBackup, Pending
    <2>2. PICK r : r = [list |-> m.localized, pokemon |-> m.pokemon]
        OBVIOUS
    <2>3. r \in [list : BOOLEAN, pokemon : Pokemons]
        BY <2>2 DEF MessageState
    <2>4. appeared_backup' = Append(appeared_backup, r)
        BY <1>0, <1>11, <2>2 DEF AddToBackup
    <2>5. Len(appeared_backup') = Len(appeared_backup) + 1
        BY <2>3, <2>4, AppendProperties DEF OtherTypes
    <2>6. message'[n] = NoThread("done") /\ \A k \in MessageThreads \ {n} : message'[k] = message[k]
        BY <1>4, <1>11 DEF AddToBackup
    <2>7. 0 + Len(received) + (Len(appeared_backup) + 1) <= 1 + Len(received) + Len(appeared_backup)
        BY <1>2
    <2>. QED BY <1>0, <1>3, <2>1, <2>5, <2>6, <2>7 DEF Advances
<1>. QED BY <1>6, <1>7, <1>8, <1>9, <1>10, <1>11 DEF MessageStep

\* What a match, the trainer that is on its way, those that are being put back and the catches so
\* far have taken of them.
PromiseSum(adding, listed, planned, back, begun) == adding + listed + planned + back + begun

Promised ==
    PromiseSum(IF matcher.pc = "add" THEN 1 ELSE 0, Len(matches), IF mutex_planning THEN 1 ELSE 0,
               Cardinality(BeingPutBack), catches)

\* How it changes with what it is the sum of.
LEMMA PromiseMoves ==
    ASSUME NEW adding, adding \in {0, 1}, NEW listed \in Nat, NEW planned, planned \in {0, 1},
           NEW back \in Nat, NEW begun \in Nat
    PROVE  LET sum == PromiseSum(adding, listed, planned, back, begun)
           IN  /\ sum \in Nat /\ begun <= sum
               /\ PromiseSum(1, listed, planned, back, begun)
                    = PromiseSum(0, listed, planned, back, begun) + 1
               /\ PromiseSum(0, listed + 1, planned, back, begun)
                    = PromiseSum(1, listed, planned, back, begun)
               /\ PromiseSum(adding, listed - 1, 1, back, begun)
                    = PromiseSum(adding, listed, 0, back, begun)
               /\ PromiseSum(adding, listed, 0, back + 1, begun)
                    = PromiseSum(adding, listed, 1, back, begun)
               /\ PromiseSum(adding, listed, planned, back - 1, begun) = sum - 1
               /\ PromiseSum(adding, listed + 1, planned, back - 1, begun) = sum
               /\ PromiseSum(adding, listed, 0, back, begun + 1)
                    = PromiseSum(adding, listed, 1, back, begun)
BY DEF PromiseSum

\* A pokemon that appeared is at one place: no list and no counter gets more than there are.
PokemonsAccounted ==
    /\ appeared \in 0..MaxPokemons
    /\ Arrived + Promised <= appeared
    /\ \A p \in Pokemons : Arrived + being_caught[p] <= appeared

\* sem_appeared_pokemon counts the list, but for the pokemon that the matcher is about to take.
SemCounts == sem_appeared_pokemon + (IF matcher.pc = "choose" THEN 1 ELSE 0) = Len(received)

\* What is to come of a message that changes, and of all of them.
LEMMA ComingChanges ==
    ASSUME TeamTypes, TeamTypes', NEW n \in MessageThreads,
           \A k \in MessageThreads \ {n} : message'[k] = message[k]
    PROVE  Coming' + Pending(message[n]) = Coming + Pending(message'[n])
<1>1. PICK f : f = [k \in MessageThreads |-> Pending(message[k])]
    OBVIOUS
<1>2. PICK e : e = [k \in MessageThreads |-> Pending(message'[k])]
    OBVIOUS
<1>3. Coming = SumFunctionOnSet(f, MessageThreads) /\ Coming' = SumFunctionOnSet(e, MessageThreads)
    BY <1>1, <1>2 DEF Coming
<1>4. \A k \in MessageThreads : message[k] \in MessageState /\ message'[k] \in MessageState
    BY DEF TeamTypes, MessageTypes
<1>5. \A k \in MessageThreads : /\ f[k] = Pending(message[k]) /\ f[k] \in Nat
                                /\ e[k] = Pending(message'[k]) /\ e[k] \in Nat
    BY <1>1, <1>2, <1>4, PendingIsNat
<1>6. \A k \in MessageThreads : k # n => e[k] = f[k]
    BY <1>5
<1>7. IsFiniteSet(MessageThreads)
    BY BoundsAreNat, FS_Interval DEF MessageThreads
<1>8. SumFunctionOnSet(e, MessageThreads) + f[n] = SumFunctionOnSet(f, MessageThreads) + e[n]
    BY <1>5, <1>6, <1>7, SumWithChange
<1>. QED BY <1>3, <1>5, <1>8

\* Steps that put no pokemon anywhere, and of which no message is the cause.
LEMMA SamePlaces ==
    ASSUME UNCHANGED <<message, received, appeared_backup>>, Refilling' = Refilling
    PROVE  Arrived' = Arrived
<1>1. Coming' = Coming
    BY DEF Coming
<1>. QED BY <1>1 DEF Arrived

\* Messages, the matcher and the backup move the pokemons from one place to the next.
LEMMA MessagesMove ==
    ASSUME TeamTypes, OtherTypes, TeamTypes', OtherTypes', MessagesSized,
           NEW n \in MessageThreads, MessageStep(n), ~DecideOnNothing(n)
    PROVE  Arrived' <= Arrived /\ UNCHANGED appeared
<1>1. UNCHANGED <<appeared, catch>>
    BY DEF MessageStep, ReadRemaining, CountReceived, DecideAppeared, DecideLocalized,
        DecideOnNothing, AddLocalized, AddToBackup, MessageFrame, catchVars
<1>2. Advances(n)
    BY MessageSteps
<1>3. Coming' + Pending(message[n]) = Coming + Pending(message'[n])
    BY <1>2, ComingChanges DEF Advances
<1>4. /\ Coming \in Nat /\ Len(received) \in Nat /\ Len(appeared_backup) \in Nat
      /\ Cardinality(Refilling) \in Nat
    BY ArrivedIsNat DEF ArrivedNumbers
<1>5. /\ Coming' \in Nat /\ Len(received') \in Nat /\ Len(appeared_backup') \in Nat
    <2>1. ArrivedNumbers'
        BY ArrivedIsNat, PTL
    <2>. QED BY <2>1 DEF ArrivedNumbers
<1>6. Refilling' = Refilling
    BY <1>1 DEF Refilling
<1>7. Pending(message[n]) \in Nat /\ Pending(message'[n]) \in Nat
    <2>1. message[n] \in MessageState /\ message'[n] \in MessageState
        BY DEF TeamTypes, MessageTypes
    <2>. QED BY <2>1, PendingIsNat
<1>8. Pending(message'[n]) + Len(received') + Len(appeared_backup')
            <= Pending(message[n]) + Len(received) + Len(appeared_backup)
    BY <1>2 DEF Advances
<1>9. Coming' + Len(received') + Len(appeared_backup') + Cardinality(Refilling)
            <= Coming + Len(received) + Len(appeared_backup) + Cardinality(Refilling)
    <2>1. \A a, b, c, d, e, f, x, y, z \in Nat :
            a + x = b + y /\ y + c + d <= x + e + f => a + c + d + z <= b + e + f + z
        OBVIOUS
    <2>. HIDE DEF Coming, Refilling
    <2>. QED BY <1>3, <1>4, <1>5, <1>7, <1>8, <2>1
<1>. QED BY <1>1, <1>6, <1>9 DEF Arrived

\* A message that comes in.
LEMMA ReceiveMoves ==
    ASSUME TeamTypes, OtherTypes, TeamTypes', OtherTypes', MessagesSized, NEW n \in MessageThreads,
           NEW p \in Pokemons, NEW localized \in BOOLEAN, NEW size \in 1..MaxPokemons,
           ReceiveMessage(n, p, localized, size), ~localized => size = 1
    PROVE  /\ Arrived' + appeared = Arrived + appeared' /\ appeared' \in 0..MaxPokemons
           /\ MessagesSized'
<1>1. /\ message[n].pc = "none" /\ appeared + size <= MaxPokemons /\ appeared' = appeared + size
      /\ UNCHANGED <<received, appeared_backup, catch>>
    BY DEF ReceiveMessage, MessageFrame, listVars, catchVars
<1>2. message[n] \in MessageState /\ size \in Nat /\ size >= 1 /\ appeared \in Nat
    BY BoundsAreNat DEF TeamTypes, MessageTypes
<1>3. PICK r : r = [message[n] EXCEPT !.pc = "remaining", !.localized = localized,
                                      !.pokemon = p, !.size = size]
    OBVIOUS
<1>4. message' = [message EXCEPT ![n] = r]
    BY <1>3 DEF ReceiveMessage
<1>5. message'[n] = r /\ \A k \in MessageThreads \ {n} : message'[k] = message[k]
    BY <1>4 DEF TeamTypes, MessageTypes
<1>6. r.pc = "remaining" /\ r.size = size /\ r.localized = localized
    BY <1>2, <1>3 DEF MessageState
<1>7. Pending(message[n]) = 0 /\ Pending(r) = size
    BY <1>1, <1>6 DEF Pending
<1>8. Coming' + 0 = Coming + size
    BY <1>5, <1>7, ComingChanges
<1>9. /\ Coming \in Nat /\ Len(received) \in Nat /\ Len(appeared_backup) \in Nat
      /\ Cardinality(Refilling) \in Nat
    BY ArrivedIsNat DEF ArrivedNumbers
<1>10. Coming' \in Nat
    <2>1. ArrivedNumbers'
        BY ArrivedIsNat, PTL
    <2>. QED BY <2>1 DEF ArrivedNumbers
<1>11. Refilling' = Refilling
    BY <1>1 DEF Refilling
<1>12. Arrived' = Arrived + size
    <2>1. Arrived' = Coming' + Len(received) + Len(appeared_backup) + Cardinality(Refilling)
        BY <1>1, <1>11 DEF Arrived
    <2>2. Arrived = Coming + Len(received) + Len(appeared_backup) + Cardinality(Refilling)
        BY DEF Arrived
    <2>. HIDE DEF Coming, Refilling
    <2>3. PICK a : a = Coming' /\ a \in Nat
        BY <1>10
    <2>4. PICK b, d, e, f : /\ b = Coming /\ d = Len(received) /\ e = Len(appeared_backup)
                            /\ f = Cardinality(Refilling) /\ b \in Nat /\ d \in Nat
                            /\ e \in Nat /\ f \in Nat
        BY <1>9
    <2>5. a + d + e + f = b + d + e + f + size
        <3>0. a + 0 = b + size
            BY <1>8, <2>3, <2>4, Zenon
        <3>1. a \in Nat /\ b \in Nat /\ d \in Nat /\ e \in Nat /\ f \in Nat /\ size \in Nat
            BY <1>2, <2>3, <2>4
        <3>2. a = b + size
            BY <3>0, <3>1
        <3>. QED BY <3>1, <3>2
    <2>. QED BY <2>1, <2>2, <2>3, <2>4, <2>5
<1>13. Arrived \in Nat
    BY ArrivedIsNat DEF ArrivedNumbers
<1>14. MessagesSized'
    <2>1. Sized(r)
        BY <1>2, <1>6 DEF Sized
    <2>. QED BY <1>5, <2>1 DEF MessagesSized
<1>. QED BY <1>1, <1>2, <1>12, <1>13, <1>14

\* The matcher takes one.
LEMMA ChooseMoves ==
    ASSUME TeamTypes, OtherTypes, ChooseMatch
    PROVE  /\ Arrived' = Arrived - 1 /\ Len(received') = Len(received) - 1 /\ UNCHANGED appeared
           /\ Arrived \in Nat /\ Arrived >= 1
<1>1. UNCHANGED <<message, appeared_backup, appeared, catch>>
    BY DEF ChooseMatch, MatcherFrame, messageVars, catchVars
<1>2. PICK i \in DOMAIN received : received' = RemoveAt(received, i)
    BY DEF ChooseMatch, Candidates
<1>3. received \in Seq(Pokemons)
    BY DEF TeamTypes, MessageTypes
<1>4. Len(received') = Len(received) - 1 /\ Len(received) >= 1
    BY <1>2, <1>3, RemoveAtProperties, LenProperties
<1>5. Coming' = Coming /\ Refilling' = Refilling
    BY <1>1 DEF Coming, Refilling
<1>6. /\ Coming \in Nat /\ Len(received) \in Nat /\ Len(appeared_backup) \in Nat
      /\ Cardinality(Refilling) \in Nat
    BY ArrivedIsNat DEF ArrivedNumbers
<1>7. Arrived = Coming + Len(received) + Len(appeared_backup) + Cardinality(Refilling)
    BY DEF Arrived
<1>8. Arrived' = Coming + (Len(received) - 1) + Len(appeared_backup) + Cardinality(Refilling)
    BY <1>1, <1>4, <1>5 DEF Arrived
<1>. HIDE DEF Coming, Refilling
<1>. QED BY <1>1, <1>4, <1>6, <1>7, <1>8

\* search_in_backup takes one out of the backup, ...
LEMMA TakeMoves ==
    ASSUME TeamTypes, OtherTypes, NEW c \in Catches, TakeFromBackup(c)
    PROVE  Arrived' = Arrived
<1>1. UNCHANGED <<message, received>>
    BY DEF TakeFromBackup, CatchFrame, messageVars
<1>2. PICK i : i = Min(Similar(c))
    OBVIOUS
<1>3. Similar(c) # {} /\ appeared_backup' = RemoveAt(appeared_backup, i)
    BY <1>2 DEF TakeFromBackup
<1>4. i \in DOMAIN appeared_backup
    BY <1>2, <1>3, FirstSimilar DEF OtherTypes
<1>5. Len(appeared_backup') = Len(appeared_backup) - 1 /\ Len(appeared_backup) >= 1
    BY <1>3, <1>4, RemoveAtProperties, LenProperties DEF OtherTypes
<1>6. Coming' = Coming
    BY <1>1 DEF Coming
<1>7. Refilling' = Refilling \cup {c} /\ c \notin Refilling
    <2>1. /\ catch[c].pc = "result"
          /\ catch' = [catch EXCEPT ![c] = [catch[c] EXCEPT !.pc = "refill", !.backup = Pokemon(c)]]
        BY DEF TakeFromBackup
    <2>2. catch \in [Catches -> CatchState] /\ catch[c] \in CatchState
        BY DEF TeamTypes, CatchTypes
    <2>3. catch'[c].pc = "refill" /\ \A d \in Catches \ {c} : catch'[d] = catch[d]
        BY <2>1, <2>2 DEF CatchState
    <2>. QED BY <2>1, <2>3 DEF Refilling
<1>8. /\ Coming \in Nat /\ Len(received) \in Nat /\ Len(appeared_backup) \in Nat
      /\ IsFiniteSet(Refilling) /\ Cardinality(Refilling) \in Nat
    BY ArrivedIsNat DEF ArrivedNumbers
<1>9. Cardinality(Refilling') = Cardinality(Refilling) + 1
    BY <1>7, <1>8, FS_AddElement
<1>10. Arrived = Coming + Len(received) + Len(appeared_backup) + Cardinality(Refilling)
    BY DEF Arrived
<1>11. Arrived' = Coming + Len(received) + (Len(appeared_backup) - 1) + (Cardinality(Refilling) + 1)
    BY <1>1, <1>5, <1>6, <1>9 DEF Arrived
<1>. HIDE DEF Coming, Refilling
<1>. QED BY <1>8, <1>10, <1>11

\* ... and puts it into the list of those to catch.
LEMMA RefillMoves ==
    ASSUME TeamTypes, OtherTypes, NEW c \in Catches, Refill(c)
    PROVE  Arrived' = Arrived /\ Len(received') = Len(received) + 1
<1>1. UNCHANGED <<message, appeared_backup>>
    BY DEF Refill, CatchFrame, messageVars
<1>2. Len(received') = Len(received) + 1
    <2>1. received \in Seq(Pokemons) /\ catch[c].backup \in Pokemons
        BY DEF TeamTypes, MessageTypes, CatchTypes, CatchState
    <2>. QED BY <2>1, AppendProperties DEF Refill
<1>3. Coming' = Coming
    BY <1>1 DEF Coming
<1>4. Refilling' = Refilling \ {c} /\ c \in Refilling
    <2>1. catch[c].pc = "refill" /\ catch' = [catch EXCEPT ![c].pc = "being caught"]
        BY DEF Refill
    <2>2. catch \in [Catches -> CatchState] /\ catch[c] \in CatchState
        BY DEF TeamTypes, CatchTypes
    <2>3. catch'[c].pc = "being caught" /\ \A d \in Catches \ {c} : catch'[d] = catch[d]
        BY <2>1, <2>2 DEF CatchState
    <2>. QED BY <2>1, <2>3 DEF Refilling
<1>5. /\ Coming \in Nat /\ Len(received) \in Nat /\ Len(appeared_backup) \in Nat
      /\ IsFiniteSet(Refilling) /\ Cardinality(Refilling) \in Nat
    BY ArrivedIsNat DEF ArrivedNumbers
<1>6. Cardinality(Refilling') = Cardinality(Refilling) - 1
    BY <1>4, <1>5, FS_RemoveElement
<1>7. Arrived = Coming + Len(received) + Len(appeared_backup) + Cardinality(Refilling)
    BY DEF Arrived
<1>8. Arrived' = Coming + (Len(received) + 1) + Len(appeared_backup) + (Cardinality(Refilling) - 1)
    BY <1>1, <1>2, <1>3, <1>6 DEF Arrived
<1>. HIDE DEF Coming, Refilling
<1>. QED BY <1>2, <1>5, <1>7, <1>8

\* Every step of a message's thread leaves the sizes in order.
LEMMA NextMessagesSized ==
    ASSUME TeamTypes, OtherTypes, TeamTypes', OtherTypes', MessagesSized, [Next]_vars
    PROVE  MessagesSized'
<1>1. ASSUME NEW n \in MessageThreads, MessageStep(n), ~DecideOnNothing(n)
      PROVE  MessagesSized'
    BY <1>1, MessageSteps DEF MessagesSized, Advances
<1>2. ASSUME NEW n \in MessageThreads, NEW p \in Pokemons, ReceiveMessage(n, p, FALSE, 1)
      PROVE  MessagesSized'
    <2>1. 1 \in 1..MaxPokemons
        <3>1. appeared \in Nat /\ appeared + 1 <= MaxPokemons
            BY <1>2 DEF ReceiveMessage, TeamTypes, MessageTypes
        <3>. QED BY <3>1, BoundsAreNat
    <2>. QED BY <1>2, <2>1, ReceiveMoves
<1>3. ASSUME NEW n \in MessageThreads, NEW p \in Pokemons, NEW size \in 1..MaxPokemons,
             ReceiveMessage(n, p, TRUE, size)
      PROVE  MessagesSized'
    BY <1>3, ReceiveMoves
<1>4. CASE UNCHANGED message
    BY <1>4 DEF MessagesSized
<1>5. CASE ~ \E n \in MessageThreads :
                \/ MessageStep(n)
                \/ \E p \in Pokemons : \/ ReceiveMessage(n, p, FALSE, 1)
                                       \/ \E size \in 1..MaxPokemons : ReceiveMessage(n, p, TRUE, size)
    <2>1. UNCHANGED message
        BY <1>5 DEF Next, vars, MatcherStep, LookForMatch, ChooseMatch, ChooseNothing, AddMatch, Plan,
            TrainerStep, Start, StepAndGoOn, StepAndPreempt,
            BecomeReady, CheckExec, Requeue, Resume, SendCatch, WaitCatch, CatchByDefault, DealWithDefault,
            ReceiveMessageId, CatchStep, Answered, Answer, HandleCaught, CountCaught, NoneInBackup,
            TakeFromBackup, MisreadBackup, Refill, NoLongerBeingCaught, BecomeFull, WakeMain,
            BecomeNew, BecomeAvailable, MatcherFrame, TrainerFrame, CatchFrame, Die, messageVars
    <2>. QED BY <1>4, <2>1
<1>6. ASSUME NEW n \in MessageThreads, DecideOnNothing(n) PROVE UNCHANGED message
    BY <1>6 DEF DecideOnNothing, Die, messageVars
<1>. QED BY <1>1, <1>2, <1>3, <1>4, <1>5, <1>6

\* The steps that move no pokemon.
LEMMA OtherPlaces ==
    ASSUME TeamTypes, [Next]_vars,
           ~ \E n \in MessageThreads :
                \/ MessageStep(n)
                \/ \E p \in Pokemons : \/ ReceiveMessage(n, p, FALSE, 1)
                                       \/ \E size \in 1..MaxPokemons : ReceiveMessage(n, p, TRUE, size),
           ~ChooseMatch, ~ \E c \in Catches : TakeFromBackup(c) \/ Refill(c)
    PROVE  Arrived' = Arrived /\ UNCHANGED <<received, appeared>>
<1>. USE DEF TeamTypes
<1>0. catch \in [Catches -> CatchState] /\ \A c \in Catches : catch[c] \in CatchState
    BY DEF CatchTypes
<1>1. UNCHANGED <<message, appeared, received, appeared_backup>>
    BY DEF Next, vars, MatcherStep, LookForMatch, ChooseNothing, AddMatch, Plan,
        TrainerStep, Start, StepAndGoOn, StepAndPreempt,
            BecomeReady, CheckExec, Requeue, Resume, SendCatch, WaitCatch, CatchByDefault, DealWithDefault,
        ReceiveMessageId, CatchStep, Answered, Answer, HandleCaught, CountCaught, NoneInBackup,
        MisreadBackup, NoLongerBeingCaught, BecomeFull, WakeMain,
        BecomeNew, BecomeAvailable, MatcherFrame, TrainerFrame, CatchFrame, Die, messageVars, listVars
<1>2. ASSUME \A c \in Catches : catch'[c].pc = "refill" <=> catch[c].pc = "refill"
      PROVE  Refilling' = Refilling
    BY <1>2 DEF Refilling
<1>3. ASSUME NEW c \in Catches, NEW pc, catch' = [catch EXCEPT ![c].pc = pc],
             catch[c].pc # "refill", pc # "refill"
      PROVE  Refilling' = Refilling
    <2>1. \A d \in Catches : catch'[d].pc = "refill" <=> catch[d].pc = "refill"
        BY <1>0, <1>3 DEF CatchState
    <2>. QED BY <1>2, <2>1
<1>4. ASSUME NEW c \in Catches, CatchStep(c) PROVE Refilling' = Refilling
    <2>1. CASE Answered(c)
        <3>1. catch[c].pc # "refill" /\ catch' = [catch EXCEPT ![c].pc = "result"]
            BY <2>1 DEF Answered
        <3>. QED BY <1>3, <3>1
    <2>2. CASE CountCaught(c) \/ NoneInBackup(c)
        <3>1. catch[c].pc # "refill" /\ catch' = [catch EXCEPT ![c].pc = "being caught"]
            BY <2>2 DEF CountCaught, NoneInBackup
        <3>. QED BY <1>3, <3>1
    <2>3. CASE NoLongerBeingCaught(c)
        <3>1. catch[c].pc # "refill" /\ catch' = [catch EXCEPT ![c].pc = "full?"]
            BY <2>3 DEF NoLongerBeingCaught
        <3>. QED BY <1>3, <3>1
    <2>4. CASE BecomeFull(c)
        <3>1. catch[c].pc # "refill" /\ catch' = [catch EXCEPT ![c].pc = "all full?"]
            BY <2>4 DEF BecomeFull
        <3>. QED BY <1>3, <3>1
    <2>5. CASE BecomeNew(c)
        <3>1. catch[c].pc # "refill" /\ catch' = [catch EXCEPT ![c].pc = "block"]
            BY <2>5 DEF BecomeNew
        <3>. QED BY <1>3, <3>1
    <2>6. CASE WakeMain(c) \/ BecomeAvailable(c)
        <3>1. catch[c].pc # "refill" /\ catch' = [catch EXCEPT ![c].pc = "done"]
            BY <2>6 DEF WakeMain, BecomeAvailable
        <3>. QED BY <1>3, <3>1
    <2>7. CASE MisreadBackup(c)
        BY <2>7 DEF MisreadBackup, Die, catchVars, Refilling
    <2>. QED BY <1>4, <2>1, <2>2, <2>3, <2>4, <2>5, <2>6, <2>7 DEF CatchStep
<1>5. ASSUME NEW t \in Trainers, SendCatch(t) \/ CatchByDefault(t) PROVE Refilling' = Refilling
    <2>1. Begun(t)
        BY <1>5, BegunSteps
    <2>2. \A d \in Catches : d = catches + 1 => catch[d].pc = "none"
        BY BoundsAreNat DEF CatchTypes, CatchesBegun, Catches
    <2>. QED BY <1>2, <2>1, <2>2 DEF Begun
<1>9. ASSUME NEW t \in Trainers, DealWithDefault(t) PROVE Refilling' = Refilling
    <2>1. PICK c \in Catches : DealtByDefault(t, c) /\ To(c, "result")
        BY <1>9, DefaultStep
    <2>. QED BY <1>2, <2>1 DEF DealtByDefault, To
<1>6. ASSUME NEW c \in Catches, ReceiveMessageId(c) PROVE Refilling' = Refilling
    BY <1>0, <1>2, <1>6 DEF ReceiveMessageId, CatchState
<1>7. ASSUME ~ \/ \E c \in Catches : CatchStep(c) \/ ReceiveMessageId(c)
               \/ \E t \in Trainers : SendCatch(t) \/ CatchByDefault(t) \/ DealWithDefault(t)
      PROVE  Refilling' = Refilling
    <2>1. UNCHANGED catch
        BY <1>7 DEF Next, vars, MatcherStep, LookForMatch, ChooseNothing, AddMatch, Plan,
            TrainerStep, Start, StepAndGoOn, StepAndPreempt, BecomeReady, CheckExec,
            Requeue, Resume, WaitCatch, Answer, HandleCaught,
            MatcherFrame, TrainerFrame, CatchFrame, Die, catchVars
    <2>. QED BY <2>1 DEF Refilling
<1>8. Refilling' = Refilling
    BY <1>4, <1>5, <1>6, <1>7, <1>9
<1>. QED BY <1>1, <1>8, SamePlaces

\* Only desalojar has trainers to put back, or puts them back.
LEMMA SameBack ==
    ASSUME TeamTypes,
           \/ AddMatch \/ Plan \/ UNCHANGED trainer
           \/ \E t \in Trainers :
                \/ Start(t) \/ StepAndGoOn(t) \/ Resume(t) \/ BecomeReady(t)
                \/ SendCatch(t) \/ CatchByDefault(t) \/ WaitCatch(t) \/ DealWithDefault(t)
           \/ \E c \in Catches : ReceiveMessageId(c) \/ CatchStep(c)
           \/ \E c \in Catches, result \in {0, 1} : Answer(c, result)
           \/ \E m \in caught_messages : HandleCaught(m)
    PROVE  BeingPutBack' = BeingPutBack
<1>. USE DEF TeamTypes
<1>1. CASE AddMatch
    <2>. DEFINE t == matcher.match.trainer
    <2>1. t \in Trainers
        BY <1>1 DEF AddMatch, MatchTypes
    <2>2. Turned(t, trainer[t].pc, trainer[t].sem, "READY", trainer[t].pcb)
        BY <1>1, <2>1, TrainerSteps
    <2>. HIDE DEF t
    <2>. QED BY <2>1, <2>2, PutBackSteps
<1>2. CASE Plan
    <2>1. PICK i \in DOMAIN matches :
            trainer' = [trainer EXCEPT ![matches[i].trainer] =
                            [@ EXCEPT !.pokemon_to_catch = matches[i].pokemon,
                                      !.status = "EXEC", !.sem = 1]]
        BY <1>2 DEF Plan, NextToExec
    <2>. DEFINE t == matches[i].trainer
    <2>2. matches[i] \in PlannedMatch
        BY ElementOfSeq, LenProperties DEF MatchTypes
    <2>3. t \in Trainers
        BY <2>2 DEF PlannedMatch
    <2>4. Turned(t, trainer[t].pc, 1, "EXEC", trainer[t].pcb)
        BY <2>1, <2>3, TrainerSteps
    <2>. HIDE DEF t
    <2>. QED BY <2>3, <2>4, PutBackSteps
<1>3. ASSUME NEW t \in Trainers, NEW pc, NEW sem, NEW status, NEW pcb,
             Turned(t, pc, sem, status, pcb), pc \notin {"preempt", "ready", "requeue"},
             trainer[t].pc \notin {"preempt", "ready", "requeue"}
      PROVE  BeingPutBack' = BeingPutBack
    BY <1>3, PutBackSteps
<1>4. ASSUME NEW t \in Trainers, Start(t) \/ StepAndGoOn(t) \/ Resume(t)
      PROVE  BeingPutBack' = BeingPutBack
    <2>1. trainer[t].pc \in {"loop", "move", "preempted", "stranded"}
        BY <1>4 DEF Start, StepAndGoOn, Resume
    <2>2. \E pc \in {"loop", "move", "preempted", "stranded"} :
            \E sem, status, pcb : Turned(t, pc, sem, status, pcb)
        BY <1>4, <2>1, TrainerSteps
    <2>. QED BY <1>3, <2>1, <2>2
<1>5. ASSUME NEW t \in Trainers, BecomeReady(t) PROVE BeingPutBack' = BeingPutBack
    <2>1. trainer[t].pc = "preempt" /\ Turned(t, "ready", trainer[t].sem, "READY", trainer[t].pcb)
        BY <1>5, TrainerSteps DEF BecomeReady
    <2>. QED BY <2>1, PutBackSteps
<1>6. ASSUME NEW t \in Trainers, SendCatch(t) \/ CatchByDefault(t) PROVE BeingPutBack' = BeingPutBack
    <2>1. trainer[t].pc = "move"
        BY <1>6 DEF SendCatch, CatchByDefault
    <2>2. \E pc \in {"catch", "default"} : \E sem, status, pcb : Turned(t, pc, sem, status, pcb)
        BY <1>6, TrainerSteps
    <2>. QED BY <1>3, <2>1, <2>2
<1>7. ASSUME NEW t \in Trainers, WaitCatch(t) \/ DealWithDefault(t) PROVE BeingPutBack' = BeingPutBack
    <2>1. trainer[t].pc \in {"catch", "default"}
        BY <1>7 DEF WaitCatch, DealWithDefault
    <2>2. \E pc \in {"caught", "loop"} : \E sem, status, pcb : Turned(t, pc, sem, status, pcb)
        BY <1>7, TrainerSteps
    <2>. QED BY <1>3, <2>1, <2>2
<1>8. CASE \/ \E c \in Catches : ReceiveMessageId(c) \/ CatchStep(c)
           \/ \E c \in Catches, result \in {0, 1} : Answer(c, result)
           \/ \E m \in caught_messages : HandleCaught(m)
    BY <1>8, OutcomeFrames
<1>9. CASE UNCHANGED trainer
    BY <1>9 DEF BeingPutBack
<1>. QED BY <1>1, <1>2, <1>4, <1>5, <1>6, <1>7, <1>8, <1>9

\* What the matcher, the planner and the trainers promise is what the list has lost.
LEMMA PromisedSteps ==
    ASSUME TeamTypes, OnePlanned, [Next]_vars
    PROVE  /\ Promised \in Nat /\ Promised' \in Nat
           /\ Promised' <= Promised \/ (ChooseMatch /\ Promised' = Promised + 1)
           /\ \/ \A p \in Pokemons : being_caught'[p] <= being_caught[p]
              \/ ChooseMatch /\ \A p \in Pokemons : being_caught'[p] <= being_caught[p] + 1
<1>. USE DEF TeamTypes
<1>0. /\ Len(matches) \in Nat /\ catches \in Nat /\ \A p \in Pokemons : being_caught[p] \in Nat
      /\ \A i \in DOMAIN matches : matches[i] \in PlannedMatch
    BY LenProperties, ElementOfSeq DEF MatchTypes, CatchTypes
<1>1. Cardinality(BeingPutBack) \in Nat
    BY FiniteCounts
<1>. DEFINE adding == IF matcher.pc = "add" THEN 1 ELSE 0
            planned == IF mutex_planning THEN 1 ELSE 0
            listed == Len(matches)
            back == Cardinality(BeingPutBack)
<1>2. /\ adding \in {0, 1} /\ planned \in {0, 1} /\ listed \in Nat /\ back \in Nat
      /\ Promised = PromiseSum(adding, listed, planned, back, catches)
      /\ Promised' = PromiseSum(adding', listed', planned', back', catches')
    BY <1>0, <1>1 DEF Promised
<1>. HIDE DEF back
<1>3. Promised \in Nat
    BY <1>0, <1>2, PromiseMoves
<1>4. Promised' \in Nat
    <2>1. TeamTypes'
        BY NextTeamTypes
    <2>2. Len(matches') \in Nat /\ catches' \in Nat
        BY <2>1, LenProperties DEF MatchTypes, CatchTypes
    <2>3. (Cardinality(BeingPutBack) \in Nat)'
        BY <2>1, FiniteCounts, PTL
    <2>4. adding' \in {0, 1} /\ planned' \in {0, 1} /\ back' \in Nat
        BY <2>3 DEF back
    <2>. QED BY <1>2, <2>2, <2>4, PromiseMoves
<1>5. ASSUME Promised' = Promised, UNCHANGED being_caught
      PROVE  /\ Promised' <= Promised
             /\ \A p \in Pokemons : being_caught'[p] <= being_caught[p]
    BY <1>0, <1>3, <1>5
<1>6. CASE LookForMatch
    <2>1. /\ matcher.pc = "wait" /\ UNCHANGED <<matches, mutex_planning, catches, being_caught, trainer>>
        BY <1>6 DEF LookForMatch, MatcherFrame, catchVars
    <2>2. matcher'.pc = "choose"
        BY <1>6 DEF LookForMatch, MatchTypes
    <2>3. back' = back
        BY <2>1, SameBack DEF back
    <2>. QED BY <1>2, <1>3, <1>5, <2>1, <2>2, <2>3
<1>7. CASE ChooseMatch
    <2>1. matcher.pc = "choose" /\ UNCHANGED <<matches, mutex_planning, catches, trainer>>
        BY <1>7 DEF ChooseMatch, MatcherFrame, catchVars
    <2>2. matcher'.pc = "add"
        BY <1>7 DEF ChooseMatch, MatchTypes
    <2>3. back' = back
        BY <2>1, SameBack DEF back
    <2>4. Promised' = Promised + 1
        BY <1>0, <1>2, <2>1, <2>2, <2>3, PromiseMoves
    <2>5. PICK i \in DOMAIN received :
            being_caught' = [being_caught EXCEPT ![received[i]] = being_caught[received[i]] + 1]
        BY <1>7 DEF ChooseMatch, Candidates
    <2>6. \A p \in Pokemons : being_caught'[p] <= being_caught[p] + 1
        BY <1>0, <2>5 DEF MatchTypes
    <2>. QED BY <1>3, <1>4, <1>7, <2>4, <2>6
<1>8. CASE AddMatch
    <2>1. matcher.pc = "add" /\ UNCHANGED <<mutex_planning, catches, being_caught>>
          /\ matches' = Append(matches, matcher.match)
        BY <1>8 DEF AddMatch, MatcherFrame, catchVars
    <2>2. matcher'.pc = "wait"
        BY <1>8 DEF AddMatch, MatchTypes
    <2>3. matcher.match \in PlannedMatch
        BY <2>1 DEF MatchTypes, Match, PlannedMatch
    <2>4. listed' = listed + 1
        BY <2>1, <2>3, AppendProperties DEF MatchTypes
    <2>5. back' = back
        BY <1>8, SameBack DEF back
    <2>6. adding = 1 /\ adding' = 0
        BY <2>1, <2>2
    <2>. HIDE DEF adding, planned, listed
    <2>7. planned' = planned
        BY <2>1 DEF planned
    <2>8. Promised' = Promised
        BY <1>0, <1>2, <2>1, <2>4, <2>5, <2>6, <2>7, PromiseMoves
    <2>. QED BY <1>3, <1>4, <1>5, <2>1, <2>8
<1>9. CASE Plan
    <2>1. PICK i \in DOMAIN matches : matches' = RemoveAt(matches, i)
        BY <1>9 DEF Plan, NextToExec
    <2>2. ~mutex_planning /\ mutex_planning' = TRUE /\ UNCHANGED <<matcher, being_caught, catches>>
        BY <1>9 DEF Plan, MayPlan, TrainerFrame, counterVars, catchVars
    <2>3. listed' = listed - 1
        BY <2>1, RemoveAtProperties DEF MatchTypes
    <2>4. back' = back
        BY <1>9, SameBack DEF back
    <2>5. planned = 0 /\ planned' = 1 /\ adding' = adding
        BY <2>2
    <2>. HIDE DEF adding, planned, listed
    <2>6. Promised' = Promised
        BY <1>0, <1>2, <2>2, <2>3, <2>4, <2>5, PromiseMoves
    <2>. QED BY <1>3, <1>4, <1>5, <2>2, <2>6
<1>10. ASSUME NEW t \in Trainers, StepAndPreempt(t)
       PROVE  Promised' = Promised /\ UNCHANGED being_caught
    <2>1. mutex_planning /\ ~mutex_planning' /\ UNCHANGED <<matcher, matches, catches, being_caught>>
        BY <1>10, UnlockSteps DEF StepAndPreempt, TrainerFrame, counterVars, catchVars
    <2>2. trainer[t].pc = "move" /\ Turned(t, "preempt", trainer[t].sem, trainer[t].status, trainer[t].pcb)
        BY <1>10, TrainerSteps DEF StepAndPreempt
    <2>3. back' = back + 1
        BY <2>2, PutBackSteps DEF back
    <2>4. planned = 1 /\ planned' = 0 /\ adding' = adding /\ listed' = listed
        BY <2>1
    <2>. HIDE DEF adding, planned, listed
    <2>. QED BY <1>0, <1>2, <2>1, <2>3, <2>4, PromiseMoves
<1>11. ASSUME NEW t \in Trainers, CheckExec(t)
       PROVE  Promised' <= Promised /\ UNCHANGED being_caught
    <2>1. UNCHANGED <<matcher, matches, catches, being_caught, mutex_planning>> /\ trainer[t].pc = "ready"
        BY <1>11 DEF CheckExec, TrainerFrame, counterVars, catchVars
    <2>2. PICK pc \in {"requeue", "stranded"} :
                Turned(t, pc, trainer[t].sem, trainer[t].status, trainer[t].pcb)
        BY <1>11, TrainerSteps
    <2>3. back' = back \/ back' = back - 1
        BY <2>1, <2>2, PutBackSteps DEF back
    <2>4. planned' = planned /\ adding' = adding /\ listed' = listed
        BY <2>1
    <2>. HIDE DEF adding, planned, listed
    <2>5. Promised' = Promised \/ Promised' = Promised - 1
        BY <1>0, <1>2, <2>1, <2>3, <2>4, PromiseMoves
    <2>. QED BY <1>3, <1>4, <2>1, <2>5
<1>12. ASSUME NEW t \in Trainers, Requeue(t)
       PROVE  Promised' = Promised /\ UNCHANGED being_caught
    <2>1. /\ UNCHANGED <<matcher, catches, being_caught, mutex_planning>> /\ trainer[t].pc = "requeue"
          /\ matches' = matches \o Requeued(t)
        BY <1>12 DEF Requeue, TrainerFrame, counterVars, catchVars
    <2>2. Requeued(t) \in Seq(PlannedMatch) /\ Len(Requeued(t)) = 1
        <3>1. trainer[t].pokemon_to_catch \in Pokemons
            BY DEF CatchTypes, TrainerState
        <3>2. [trainer |-> t, pokemon |-> trainer[t].pokemon_to_catch] \in PlannedMatch
            BY <3>1 DEF PlannedMatch
        <3>. QED BY <3>2 DEF Requeued
    <2>3. listed' = listed + 1
        <3>1. PICK r : r = Requeued(t)
            OBVIOUS
        <3>2. matches \in Seq(PlannedMatch) /\ r \in Seq(PlannedMatch)
            BY <2>2, <3>1 DEF MatchTypes
        <3>3. Len(matches \o r) = Len(matches) + Len(r)
            BY <3>2, ConcatProperties
        <3>. QED BY <2>1, <2>2, <3>1, <3>3
    <2>4. Turned(t, "preempted", trainer[t].sem, trainer[t].status, trainer[t].pcb)
        BY <1>12, TrainerSteps
    <2>5. back' = back - 1
        BY <2>1, <2>4, PutBackSteps DEF back
    <2>6. planned' = planned /\ adding' = adding
        BY <2>1
    <2>. HIDE DEF adding, planned, listed
    <2>. QED BY <1>0, <1>2, <2>1, <2>3, <2>5, <2>6, PromiseMoves
<1>13. ASSUME NEW t \in Trainers, SendCatch(t) \/ CatchByDefault(t)
       PROVE  Promised' = Promised /\ UNCHANGED being_caught
    <2>1. mutex_planning /\ ~mutex_planning' /\ UNCHANGED <<matcher, matches, being_caught>>
          /\ catches' = catches + 1
        BY <1>13, UnlockSteps DEF SendCatch, CatchByDefault, TrainerFrame, counterVars
    <2>2. back' = back
        BY <1>13, SameBack DEF back
    <2>3. planned = 1 /\ planned' = 0 /\ adding' = adding /\ listed' = listed
        BY <2>1
    <2>. HIDE DEF adding, planned, listed
    <2>. QED BY <1>0, <1>2, <2>1, <2>2, <2>3, PromiseMoves
<1>14. ASSUME NEW t \in Trainers,
              \/ Start(t) \/ StepAndGoOn(t) \/ Resume(t) \/ BecomeReady(t)
              \/ WaitCatch(t) \/ DealWithDefault(t)
       PROVE  Promised' = Promised /\ UNCHANGED being_caught
    <2>1. UNCHANGED <<matcher, matches, mutex_planning, catches, being_caught>>
        BY <1>14 DEF Start, StepAndGoOn, Resume, BecomeReady, WaitCatch, DealWithDefault,
            TrainerFrame, planVars, catchVars, counterVars
    <2>2. back' = back
        BY <1>14, SameBack DEF back
    <2>. QED BY <1>2, <2>1, <2>2
<1>15. ASSUME NEW c \in Catches, NoLongerBeingCaught(c)
       PROVE  \A p \in Pokemons : being_caught'[p] <= being_caught[p]
    <2>1. being_caught' = [being_caught EXCEPT ![Pokemon(c)] = Substract(being_caught[Pokemon(c)])]
        BY <1>15 DEF NoLongerBeingCaught, OneLess
    <2>2. \A n \in Nat : Substract(n) <= n
        BY DEF Substract
    <2>. QED BY <1>0, <2>1, <2>2 DEF MatchTypes
<1>16. ASSUME ~ \/ LookForMatch \/ ChooseMatch \/ AddMatch \/ Plan
                \/ \E t \in Trainers : TrainerStep(t)
       PROVE  Promised' = Promised
    <2>1. UNCHANGED <<matcher, matches, mutex_planning, catches>>
        BY <1>16, ZenonT(40) DEF Next, vars, MessageStep, ReceiveMessage, ReadRemaining, CountReceived,
            DecideAppeared, DecideLocalized, DecideOnNothing, AddLocalized, AddToBackup,
            MatcherStep, ChooseNothing,
            ReceiveMessageId, CatchStep, Answered, Answer, HandleCaught, CountCaught, NoneInBackup,
            TakeFromBackup, MisreadBackup, Refill, NoLongerBeingCaught, BecomeFull, WakeMain,
            BecomeNew, BecomeAvailable, MessageFrame, CatchFrame, Die, planVars, catchVars
    <2>2. CASE \/ \E c \in Catches : ReceiveMessageId(c) \/ CatchStep(c)
               \/ \E c \in Catches, result \in {0, 1} : Answer(c, result)
               \/ \E m \in caught_messages : HandleCaught(m)
        <3>1. back' = back
            BY <2>2, SameBack DEF back
        <3>. QED BY <1>2, <2>1, <3>1
    <2>3. CASE ~ \/ \E c \in Catches : ReceiveMessageId(c) \/ CatchStep(c)
                 \/ \E c \in Catches, result \in {0, 1} : Answer(c, result)
                 \/ \E m \in caught_messages : HandleCaught(m)
        <3>1. UNCHANGED trainer
            BY <1>16, <2>3 DEF Next, vars, MessageStep, ReceiveMessage, ReadRemaining, CountReceived,
                DecideAppeared, DecideLocalized, DecideOnNothing, AddLocalized, AddToBackup,
                MatcherStep, ChooseNothing, MessageFrame, Die
        <3>2. back' = back
            BY <3>1, SameBack DEF back
        <3>. QED BY <1>2, <2>1, <3>2
    <2>. QED BY <2>2, <2>3
<1>17. CASE ~ \/ LookForMatch \/ ChooseMatch \/ AddMatch \/ Plan
              \/ \E t \in Trainers : TrainerStep(t)
    <2>1. Promised' <= Promised
        BY <1>3, <1>16, <1>17
    <2>2. CASE \E c \in Catches : NoLongerBeingCaught(c)
        BY <1>3, <1>4, <1>15, <2>1, <2>2
    <2>3. CASE ~ \E c \in Catches : NoLongerBeingCaught(c)
        <3>1. UNCHANGED being_caught
            BY <1>17, <2>3, ZenonT(40) DEF Next, vars, MessageStep, ReceiveMessage, ReadRemaining, CountReceived,
            DecideAppeared, DecideLocalized, DecideOnNothing, AddLocalized, AddToBackup,
            MatcherStep, ChooseNothing,
            ReceiveMessageId, CatchStep, Answered, Answer, HandleCaught, CountCaught, NoneInBackup,
            TakeFromBackup, MisreadBackup, Refill, BecomeFull, WakeMain,
            BecomeNew, BecomeAvailable, MessageFrame, Die, counterVars
        <3>. QED BY <1>3, <1>4, <1>5, <1>16, <1>17, <3>1
    <2>. QED BY <2>2, <2>3
<1>18. ASSUME NEW t \in Trainers, TrainerStep(t)
       PROVE  Promised' <= Promised /\ \A p \in Pokemons : being_caught'[p] <= being_caught[p]
    <2>1. CASE CheckExec(t)
        BY <1>0, <1>11, <2>1
    <2>2. CASE ~CheckExec(t)
        BY <1>5, <1>10, <1>12, <1>13, <1>14, <1>18, <2>2 DEF TrainerStep
    <2>. QED BY <2>1, <2>2
<1>. QED BY <1>3, <1>4, <1>6, <1>7, <1>8, <1>9, <1>17, <1>18

\* No pokemon is ever at two places.
LEMMA NextPokemonsAccounted ==
    ASSUME TeamTypes, OtherTypes, TeamTypes', OtherTypes', MessagesSized, OnePlanned,
           PokemonsAccounted, [Next]_vars
    PROVE  PokemonsAccounted'
<1>1. Arrived \in Nat /\ appeared \in Nat /\ appeared <= MaxPokemons /\ MaxPokemons \in Nat
      /\ \A p \in Pokemons : being_caught[p] \in Nat
    BY ArrivedIsNat, BoundsAreNat DEF ArrivedNumbers, PokemonsAccounted, TeamTypes, MatchTypes
<1>2. Arrived' \in Nat /\ appeared' \in Nat /\ \A p \in Pokemons : being_caught'[p] \in Nat
    <2>1. ArrivedNumbers'
        BY ArrivedIsNat, PTL
    <2>. QED BY <2>1 DEF ArrivedNumbers, TeamTypes, MatchTypes, MessageTypes
<1>3. /\ Promised \in Nat /\ Promised' \in Nat
      /\ Promised' <= Promised \/ (ChooseMatch /\ Promised' = Promised + 1)
      /\ \/ \A p \in Pokemons : being_caught'[p] <= being_caught[p]
         \/ ChooseMatch /\ \A p \in Pokemons : being_caught'[p] <= being_caught[p] + 1
    BY PromisedSteps
<1>4. CASE ChooseMatch
    <2>1. Arrived' = Arrived - 1 /\ appeared' = appeared /\ Arrived >= 1
        BY <1>4, ChooseMoves
    <2>2. Promised' <= Promised + 1 /\ \A p \in Pokemons : being_caught'[p] <= being_caught[p] + 1
        BY <1>1, <1>2, <1>3
    <2>3. Arrived + Promised <= appeared /\ \A p \in Pokemons : Arrived + being_caught[p] <= appeared
        BY DEF PokemonsAccounted
    <2>4. ASSUME NEW a \in Nat, NEW b \in Nat, b <= a + 1, Arrived + a <= appeared
          PROVE  Arrived' + b <= appeared'
        BY <1>1, <2>1, <2>4
    <2>5. Arrived' + Promised' <= appeared'
        BY <1>3, <2>2, <2>3, <2>4
    <2>6. ASSUME NEW p \in Pokemons PROVE Arrived' + being_caught'[p] <= appeared'
        BY <1>1, <1>2, <2>2, <2>3, <2>4
    <2>7. appeared' \in 0..MaxPokemons
        BY <1>1, <2>1
    <2>. QED BY <2>5, <2>6, <2>7 DEF PokemonsAccounted
<1>5. ASSUME ~ChooseMatch, Arrived' + appeared <= Arrived + appeared', appeared' \in 0..MaxPokemons
      PROVE  PokemonsAccounted'
    <2>1. Promised' <= Promised /\ \A p \in Pokemons : being_caught'[p] <= being_caught[p]
        BY <1>3, <1>5
    <2>2. Arrived + Promised <= appeared /\ \A p \in Pokemons : Arrived + being_caught[p] <= appeared
        BY DEF PokemonsAccounted
    <2>3. ASSUME NEW a \in Nat, NEW b \in Nat, b <= a, Arrived + a <= appeared
          PROVE  Arrived' + b <= appeared'
        <3>1. \A m, n, x, y \in Nat : n + x <= m + y /\ m + a <= x => n + b <= y
            BY <2>3
        <3>. QED BY <1>1, <1>2, <1>5, <2>3, <3>1
    <2>4. Arrived' + Promised' <= appeared'
        BY <1>3, <2>1, <2>2, <2>3
    <2>5. ASSUME NEW p \in Pokemons PROVE Arrived' + being_caught'[p] <= appeared'
        BY <1>1, <1>2, <2>1, <2>2, <2>3
    <2>. QED BY <1>5, <2>4, <2>5 DEF PokemonsAccounted
<1>6. ASSUME ~ChooseMatch, Arrived' <= Arrived, appeared' = appeared PROVE PokemonsAccounted'
    <2>1. \A m, n, x, y \in Nat : n <= m /\ y = x => n + x <= m + y
        OBVIOUS
    <2>2. Arrived' + appeared <= Arrived + appeared'
        BY <1>1, <1>2, <1>6, <2>1
    <2>3. appeared' \in 0..MaxPokemons
        BY <1>1, <1>6
    <2>. QED BY <1>5, <1>6, <2>2, <2>3
<1>7. CASE ~ChooseMatch
    <2>1. CASE \E n \in MessageThreads : MessageStep(n) /\ ~DecideOnNothing(n)
        BY <1>6, <1>7, <2>1, MessagesMove
    <2>2. CASE \E n \in MessageThreads : DecideOnNothing(n)
        <3>1. UNCHANGED <<message, received, appeared_backup, appeared, catch>>
            BY <2>2 DEF DecideOnNothing, Die, messageVars, listVars, catchVars
        <3>2. Refilling' = Refilling
            BY <3>1 DEF Refilling
        <3>3. Arrived' = Arrived
            BY <3>1, <3>2, SamePlaces
        <3>. QED BY <1>1, <1>6, <1>7, <3>1, <3>3
    <2>3. ASSUME NEW n \in MessageThreads, NEW p \in Pokemons, ReceiveMessage(n, p, FALSE, 1)
          PROVE  PokemonsAccounted'
        <3>1. 1 \in 1..MaxPokemons
            <4>1. appeared + 1 <= MaxPokemons
                BY <2>3 DEF ReceiveMessage
            <4>. QED BY <1>1, <4>1
        <3>2. Arrived' + appeared = Arrived + appeared' /\ appeared' \in 0..MaxPokemons
            BY <2>3, <3>1, ReceiveMoves
        <3>3. Arrived' + appeared <= Arrived + appeared'
            <4>1. \A j, k, x, y \in Nat : k + x = j + y => k + x <= j + y
                OBVIOUS
            <4>. QED BY <1>1, <1>2, <3>2, <4>1, Zenon
        <3>. QED BY <1>5, <1>7, <3>2, <3>3
    <2>4. ASSUME NEW n \in MessageThreads, NEW p \in Pokemons, NEW size \in 1..MaxPokemons,
                 ReceiveMessage(n, p, TRUE, size)
          PROVE  PokemonsAccounted'
        <3>1. Arrived' + appeared = Arrived + appeared' /\ appeared' \in 0..MaxPokemons
            BY <2>4, ReceiveMoves
        <3>2. Arrived' + appeared <= Arrived + appeared'
            <4>1. \A j, k, x, y \in Nat : k + x = j + y => k + x <= j + y
                OBVIOUS
            <4>. QED BY <1>1, <1>2, <3>1, <4>1, Zenon
        <3>. QED BY <1>5, <1>7, <3>1, <3>2
    <2>5. CASE \E c \in Catches : TakeFromBackup(c) \/ Refill(c)
        <3>1. Arrived' = Arrived /\ appeared' = appeared
            BY <2>5, TakeMoves, RefillMoves DEF TakeFromBackup, Refill, CatchFrame, messageVars
        <3>. QED BY <1>1, <1>6, <1>7, <3>1
    <2>6. CASE ~ \/ \E n \in MessageThreads :
                        \/ MessageStep(n)
                        \/ \E p \in Pokemons : \/ ReceiveMessage(n, p, FALSE, 1)
                                               \/ \E size \in 1..MaxPokemons : ReceiveMessage(n, p, TRUE, size)
                 \/ \E c \in Catches : TakeFromBackup(c) \/ Refill(c)
        <3>1. Arrived' = Arrived /\ appeared' = appeared
            BY <1>7, <2>6, OtherPlaces
        <3>. QED BY <1>1, <1>6, <1>7, <3>1
    <2>. QED BY <2>1, <2>2, <2>3, <2>4, <2>5, <2>6
<1>. QED BY <1>4, <1>7

\* The list grows with its semaphore and shrinks after it.
LEMMA NextSemCounts ==
    ASSUME TeamTypes, OtherTypes, MessagesSized, SemCounts, [Next]_vars
    PROVE  SemCounts'
<1>. USE DEF TeamTypes
<1>0. /\ Len(received) \in Nat /\ sem_appeared_pokemon \in Nat
      /\ matcher.pc \in {"wait", "choose", "add"}
    BY LenProperties DEF MessageTypes, MatchTypes
<1>1. TeamTypes'
    BY NextTeamTypes
<1>2. Len(received') \in Nat /\ sem_appeared_pokemon' \in Nat
    BY <1>1, LenProperties DEF MessageTypes
<1>3. ASSUME UNCHANGED matcher,
             sem_appeared_pokemon' + Len(received) = sem_appeared_pokemon + Len(received')
      PROVE  SemCounts'
    <2>1. PICK one : one = (IF matcher.pc = "choose" THEN 1 ELSE 0) /\ one \in Nat
        OBVIOUS
    <2>2. sem_appeared_pokemon + one = Len(received)
        BY <2>1 DEF SemCounts
    <2>3. sem_appeared_pokemon' + one = Len(received')
        <3>2. PICK a, b, x, y : /\ a = sem_appeared_pokemon /\ b = sem_appeared_pokemon'
                                /\ x = Len(received) /\ y = Len(received')
            OBVIOUS
        <3>3. a \in Nat /\ b \in Nat /\ x \in Nat /\ y \in Nat
            BY <1>0, <1>2, <3>2
        <3>4. b + x = a + y /\ a + one = x
            BY <1>3, <2>2, <3>2
        <3>5. b + one = y
            BY <2>1, <3>3, <3>4
        <3>. QED BY <3>2, <3>5
    <2>. QED BY <1>3, <2>1, <2>3 DEF SemCounts
<1>4. ASSUME NEW n \in MessageThreads, MessageStep(n), ~DecideOnNothing(n) PROVE SemCounts'
    <2>1. UNCHANGED matcher
        BY <1>4 DEF MessageStep, ReadRemaining, CountReceived, DecideAppeared, DecideLocalized,
            AddLocalized, AddToBackup, MessageFrame
    <2>. QED BY <1>3, <1>4, <2>1, MessageSteps DEF Advances
<1>5. CASE LookForMatch
    <2>1. /\ matcher.pc = "wait" /\ sem_appeared_pokemon > 0
          /\ sem_appeared_pokemon' = sem_appeared_pokemon - 1 /\ UNCHANGED received
        BY <1>5 DEF LookForMatch, SemWait
    <2>2. matcher'.pc = "choose"
        BY <1>5 DEF LookForMatch, MatchTypes
    <2>. QED BY <1>0, <2>1, <2>2 DEF SemCounts
<1>6. CASE ChooseMatch
    <2>1. matcher.pc = "choose" /\ UNCHANGED sem_appeared_pokemon
        BY <1>6 DEF ChooseMatch
    <2>2. matcher'.pc = "add"
        BY <1>6 DEF ChooseMatch, MatchTypes
    <2>3. Len(received') = Len(received) - 1
        BY <1>6, ChooseMoves
    <2>. QED BY <1>0, <2>1, <2>2, <2>3 DEF SemCounts
<1>7. CASE AddMatch
    <2>1. matcher.pc = "add" /\ UNCHANGED <<sem_appeared_pokemon, received>>
        BY <1>7 DEF AddMatch
    <2>2. matcher'.pc = "wait"
        BY <1>7 DEF AddMatch, MatchTypes
    <2>. QED BY <2>1, <2>2 DEF SemCounts
<1>8. ASSUME NEW c \in Catches, Refill(c) PROVE SemCounts'
    <2>1. sem_appeared_pokemon' = sem_appeared_pokemon + 1 /\ UNCHANGED matcher
        BY <1>8 DEF Refill, CatchFrame
    <2>2. Len(received') = Len(received) + 1
        BY <1>8, RefillMoves
    <2>. QED BY <1>0, <1>3, <2>1, <2>2
<1>9. CASE UNCHANGED <<sem_appeared_pokemon, received, matcher>>
    BY <1>9 DEF SemCounts
<1>10. CASE \E n \in MessageThreads : DecideOnNothing(n)
    BY <1>9, <1>10 DEF DecideOnNothing, Die, listVars
<1>11. CASE ~ \/ \E n \in MessageThreads : MessageStep(n)
              \/ LookForMatch \/ ChooseMatch \/ AddMatch \/ \E c \in Catches : Refill(c)
    <2>1. UNCHANGED <<sem_appeared_pokemon, received, matcher>>
        BY <1>11, ZenonT(40) DEF Next, vars, ReceiveMessage, MatcherStep, ChooseNothing, Plan,
            TrainerStep, Start, StepAndGoOn, StepAndPreempt,
            BecomeReady, CheckExec, Requeue, Resume, SendCatch, WaitCatch, CatchByDefault, DealWithDefault,
            ReceiveMessageId, CatchStep, Answered, Answer, HandleCaught, CountCaught, NoneInBackup,
            TakeFromBackup, MisreadBackup, NoLongerBeingCaught, BecomeFull, WakeMain,
            BecomeNew, BecomeAvailable, MessageFrame, TrainerFrame, CatchFrame, Die, listVars
    <2>. QED BY <1>9, <2>1
<1>. QED BY <1>4, <1>5, <1>6, <1>7, <1>8, <1>10, <1>11

-----------------------------------------------------------------------------
(* sem_all_pokemons_caught: the permits of the trainers that were full.     *)

\* The catches whose thread is about to ask whether every trainer is full.
Asking == {c \in Catches : catch[c].pc = "all full?"}

\* Each post that wakes main was a trainer's permit first, then a catch of its own.
PostsAccounted ==
    Permits + Cardinality(Undone) + Cardinality(Asking) + sem_all_pokemons_caught
        <= Cardinality(Trainers)

\* Its size is a number.
LEMMA AskingIsFinite == IsFiniteSet(Asking) /\ Cardinality(Asking) \in Nat
<1>1. IsFiniteSet(Catches)
    BY BoundsAreNat, FS_Interval DEF Catches
<1>2. Asking \in SUBSET Catches
    BY DEF Asking
<1>. QED BY <1>2, <1>1, FS_Subset, FS_CardinalityType

\* A catch comes to that point when its trainer is full, and leaves it when main was woken.
LEMMA AskingSteps ==
    ASSUME TeamTypes, [Next]_vars
    PROVE  /\ \A c \in Catches : BecomeFull(c) => Asking' = Asking \cup {c} /\ c \notin Asking
           /\ \A c \in Catches : WakeMain(c) => Asking' = Asking \ {c} /\ c \in Asking
           /\ ~(\E c \in Catches : BecomeFull(c) \/ WakeMain(c)) => Asking' = Asking
<1>. USE DEF TeamTypes
<1>0. catch \in [Catches -> CatchState] /\ \A c \in Catches : catch[c] \in CatchState
    BY DEF CatchTypes
<1>1. ASSUME NEW c \in Catches, BecomeFull(c) PROVE Asking' = Asking \cup {c} /\ c \notin Asking
    <2>1. catch[c].pc = "full?" /\ To(c, "all full?")
        BY <1>1, CatchSteps
    <2>. QED BY <2>1 DEF Asking, To
<1>2. ASSUME NEW c \in Catches, WakeMain(c) PROVE Asking' = Asking \ {c} /\ c \in Asking
    <2>1. catch[c].pc = "all full?" /\ To(c, "done")
        BY <1>2, CatchSteps
    <2>. QED BY <2>1 DEF Asking, To
<1>3. ASSUME ~(\E c \in Catches : BecomeFull(c) \/ WakeMain(c)) PROVE Asking' = Asking
    <2>1. ASSUME \A c \in Catches : catch'[c].pc = "all full?" <=> catch[c].pc = "all full?"
          PROVE  Asking' = Asking
        BY <2>1 DEF Asking
    <2>2. ASSUME NEW c \in Catches, CatchStep(c) PROVE Asking' = Asking
        <3>1. CASE \/ Answered(c) \/ CountCaught(c) \/ NoneInBackup(c) \/ TakeFromBackup(c)
                   \/ Refill(c) \/ NoLongerBeingCaught(c)
            <4>1. PICK pc \in BeforeFull : catch[c].pc \in BeforeFull /\ To(c, pc)
                BY <3>1, CatchSteps
            <4>. QED BY <2>1, <4>1 DEF To, BeforeFull
        <3>2. CASE BecomeNew(c)
            <4>1. catch[c].pc = "full?" /\ To(c, "block")
                BY <3>2, CatchSteps
            <4>. QED BY <2>1, <4>1 DEF To
        <3>3. CASE BecomeAvailable(c)
            <4>1. catch[c].pc = "block" /\ To(c, "done")
                BY <3>3, CatchSteps
            <4>. QED BY <2>1, <4>1 DEF To
        <3>4. CASE MisreadBackup(c)
            BY <3>4 DEF MisreadBackup, Die, catchVars, Asking
        <3>. QED BY <1>3, <2>2, <3>1, <3>2, <3>3, <3>4 DEF CatchStep
    <2>3. ASSUME NEW t \in Trainers, SendCatch(t) \/ CatchByDefault(t) PROVE Asking' = Asking
        <3>1. Begun(t)
            BY <2>3, BegunSteps
        <3>2. \A d \in Catches : d = catches + 1 => catch[d].pc = "none"
            BY BoundsAreNat DEF CatchTypes, CatchesBegun, Catches
        <3>. QED BY <2>1, <3>1, <3>2 DEF Begun
    <2>6. ASSUME NEW t \in Trainers, DealWithDefault(t) PROVE Asking' = Asking
        <3>1. PICK c \in Catches : DealtByDefault(t, c) /\ To(c, "result")
            BY <2>6, DefaultStep
        <3>3. catch[c].pc = "none" /\ To(c, "result")
            BY <3>1 DEF DealtByDefault
        <3>2. \A d \in Catches : catch'[d].pc = "all full?" <=> catch[d].pc = "all full?"
            BY <3>3 DEF To
        <3>. QED BY <2>1, <3>2
    <2>4. ASSUME NEW c \in Catches, ReceiveMessageId(c) PROVE Asking' = Asking
        BY <1>0, <2>1, <2>4 DEF ReceiveMessageId, CatchState
    <2>5. ASSUME ~ \/ \E c \in Catches : CatchStep(c) \/ ReceiveMessageId(c)
                   \/ \E t \in Trainers : SendCatch(t) \/ CatchByDefault(t) \/ DealWithDefault(t)
          PROVE  Asking' = Asking
        <3>1. UNCHANGED catch
            BY <2>5 DEF Next, vars, MessageStep, ReceiveMessage, ReadRemaining, CountReceived,
                DecideAppeared, DecideLocalized, DecideOnNothing, AddLocalized, AddToBackup,
                MatcherStep, LookForMatch, ChooseMatch, ChooseNothing, AddMatch, Plan,
                TrainerStep, Start, StepAndGoOn, StepAndPreempt, BecomeReady, CheckExec,
            Requeue, Resume, WaitCatch, Answer, HandleCaught,
                MessageFrame, MatcherFrame, TrainerFrame, CatchFrame, Die, catchVars
        <3>. QED BY <3>1 DEF Asking
    <2>. QED BY <2>2, <2>3, <2>4, <2>5, <2>6
<1>. QED BY <1>1, <1>2, <1>3

\* No step has more permits and catches at the end than at the start; one whose trainer is full has less.
LEMMA PermitsSteps ==
    ASSUME TeamTypes, OnePlanned, [Next]_vars
    PROVE  /\ \A c \in Catches : BecomeFull(c) =>
                Permits' = Permits /\ Cardinality(Undone') = Cardinality(Undone) - 1
           /\ ~(\E c \in Catches : BecomeFull(c)) =>
                Permits' + Cardinality(Undone') <= Permits + Cardinality(Undone)
<1>1. IsFiniteSet(Undone) /\ Cardinality(Undone) \in Nat /\ Permits \in Nat
    BY FiniteCounts
<1>2. ASSUME NEW c \in Catches, BecomeFull(c)
      PROVE  Permits' = Permits /\ Cardinality(Undone') = Cardinality(Undone) - 1
    <2>1. UNCHANGED mutex_planning /\ ~Plan
               /\ ~ \E t \in Trainers : StepAndPreempt(t) \/ SendCatch(t) \/ CatchByDefault(t)
        <3>1. UNCHANGED <<mutex_planning, catches>>
            BY <1>2, OutcomeFrames DEF CatchStep
        <3>2. ~Plan
            BY <3>1 DEF Plan, MayPlan
        <3>3. ~ \E t \in Trainers : StepAndPreempt(t) \/ SendCatch(t) \/ CatchByDefault(t)
            BY <3>1, UnlockSteps DEF Unlocks
        <3>. QED BY <3>1, <3>2, <3>3
    <2>2. SameExecution
        BY <2>1, ExecutionSteps
    <2>3. Permits' = Permits /\ c \in Undone /\ Undone' = Undone \ {c}
        BY <1>2, <2>2, FullSteps
    <2>. QED BY <1>1, <2>3, FS_RemoveElement
<1>. DEFINE Less == Permits' + Cardinality(Undone') <= Permits + Cardinality(Undone)
<1>3. CASE Kept
    <2>1. Permits' + Cardinality(Undone') = Permits + Cardinality(Undone)
        BY <1>3 DEF Kept
    <2>2. \A k \in Nat : k <= k
        OBVIOUS
    <2>3. Permits + Cardinality(Undone) \in Nat
        BY <1>1
    <2>. QED BY <1>2, <2>1, <2>2, <2>3
<1>4. ASSUME NEW t \in Trainers, BecomeReady(t) \/ CheckExec(t), SameExecution PROVE Less
    <2>1. Undone' = Undone /\ (Permits' = Permits \/ Permits' = Permits - 1)
        BY <1>4, PutBackKeeps
    <2>2. \A k, n \in Nat : n + k <= n + k /\ n - 1 + k <= n + k
        OBVIOUS
    <2>. QED BY <1>1, <2>1, <2>2
<1>5. ASSUME NEW t \in Trainers, SendCatch(t) \/ CatchByDefault(t) PROVE Less
    <2>1. /\ Permits' = Permits - 1
          /\ \/ Undone' = Undone
             \/ Undone' = Undone \cup {catches + 1} /\ catches + 1 \notin Undone
        BY <1>5, BeginCatchSteps
    <2>2. Cardinality(Undone') = Cardinality(Undone) \/ Cardinality(Undone') = Cardinality(Undone) + 1
        BY <1>1, <2>1, FS_AddElement
    <2>3. \A k, n \in Nat : n - 1 + k <= n + k /\ n - 1 + (k + 1) <= n + k
        OBVIOUS
    <2>. QED BY <1>1, <2>1, <2>2, <2>3
<1>6. ASSUME NEW c \in Catches, BecomeAvailable(c), SameExecution PROVE Less
    <2>1. Permits' = Permits + 1 /\ c \in Undone /\ Undone' = Undone \ {c}
        BY <1>6, AvailableSteps
    <2>2. Cardinality(Undone') = Cardinality(Undone) - 1
        BY <1>1, <2>1, FS_RemoveElement
    <2>3. \A k, n \in Nat : n + 1 + (k - 1) <= n + k
        OBVIOUS
    <2>. QED BY <1>1, <2>1, <2>2, <2>3
<1>7. ASSUME ~(\E c \in Catches : BecomeFull(c)), ~Kept PROVE Less
    <2>1. CASE LookForMatch \/ ChooseMatch \/ AddMatch \/ Plan
        BY <1>7, <2>1, MatchSteps
    <2>2. CASE ~Plan /\ ~ \E t \in Trainers : StepAndPreempt(t) \/ SendCatch(t) \/ CatchByDefault(t)
        <3>1. SameExecution
            BY <2>2, ExecutionSteps
        <3>2. CASE \E t \in Trainers : TrainerStep(t)
            BY <1>4, <1>7, <2>2, <3>1, <3>2, WalkSteps, RequeueSteps, CatchingSteps DEF TrainerStep
        <3>3. CASE \/ \E c \in Catches : ReceiveMessageId(c) \/ CatchStep(c)
                   \/ \E c \in Catches, result \in {0, 1} : Answer(c, result)
                   \/ \E m \in caught_messages : HandleCaught(m)
            BY <1>6, <1>7, <3>1, <3>3, NewSteps, AnswerSteps
        <3>4. CASE ~ \/ LookForMatch \/ ChooseMatch \/ AddMatch \/ Plan
                     \/ \E t \in Trainers : TrainerStep(t)
                     \/ \E c \in Catches : ReceiveMessageId(c) \/ CatchStep(c)
                     \/ \E c \in Catches, result \in {0, 1} : Answer(c, result)
                     \/ \E m \in caught_messages : HandleCaught(m)
            <4>1. UNCHANGED <<matches, mutex_planning, matcher, catch, catches, trainer,
                              sem_trainer_available>>
                BY <3>4 DEF Next, vars, MessageStep, ReceiveMessage, ReadRemaining, CountReceived,
                    DecideAppeared, DecideLocalized, DecideOnNothing, AddLocalized, AddToBackup,
                    MatcherStep, ChooseNothing, MessageFrame, Die, planVars, catchVars
            <4>2. Kept
                BY <4>1 DEF Kept, Permits, Undone, Out, IsOut, Matched, Executes, Catching, Begins,
                    Starting, BeingPutBack
            <4>. QED BY <1>7, <4>2
        <3>. QED BY <2>1, <3>2, <3>3, <3>4
    <2>3. CASE \E t \in Trainers : StepAndPreempt(t) \/ SendCatch(t) \/ CatchByDefault(t)
        BY <1>5, <1>7, <2>3, PreemptSteps
    <2>. QED BY <2>1, <2>2, <2>3
<1>. QED BY <1>2, <1>3, <1>7

\* main is never woken more often than there are trainers.
LEMMA NextPostsAccounted ==
    ASSUME TeamTypes, OtherTypes, OnePlanned, PostsAccounted, [Next]_vars
    PROVE  PostsAccounted'
<1>1. /\ Cardinality(Undone) \in Nat /\ Permits \in Nat /\ IsFiniteSet(Asking)
      /\ Cardinality(Asking) \in Nat /\ sem_all_pokemons_caught \in Nat
    BY FiniteCounts, AskingIsFinite DEF OtherTypes
<1>2. /\ Cardinality(Undone') \in Nat /\ Permits' \in Nat /\ sem_all_pokemons_caught' \in Nat
    <2>1. TeamTypes' /\ OtherTypes'
        BY NextTeamTypes, NextOtherTypes
    <2>2. (Cardinality(Undone) \in Nat /\ Cardinality(Out) \in Nat /\ Permits \in Nat)'
        BY <2>1, NaturalCounts, PTL
    <2>. QED BY <2>1, <2>2 DEF OtherTypes
<1>3. PICK total : total = Cardinality(Trainers) /\ total \in Nat
    BY ObjectivesAreSet, FS_CardinalityType
<1>4. PICK p, u, a, s : /\ p = Permits /\ u = Cardinality(Undone) /\ a = Cardinality(Asking)
                        /\ s = sem_all_pokemons_caught
                        /\ p \in Nat /\ u \in Nat /\ a \in Nat /\ s \in Nat
    BY <1>1
<1>5. PICK q, v, t : /\ q = Permits' /\ v = Cardinality(Undone') /\ t = sem_all_pokemons_caught'
                     /\ q \in Nat /\ v \in Nat /\ t \in Nat
    BY <1>2
<1>6. p + u + a + s <= total
    BY <1>3, <1>4 DEF PostsAccounted
<1>7. CASE \E c \in Catches : BecomeFull(c)
    <2>1. PICK c \in Catches : BecomeFull(c)
        BY <1>7
    <2>2. q = p /\ v = u - 1
        BY <1>4, <1>5, <2>1, PermitsSteps
    <2>3. Cardinality(Asking') = a + 1
        BY <1>1, <1>4, <2>1, AskingSteps, FS_AddElement
    <2>4. t = s
        BY <1>4, <1>5, <2>1 DEF BecomeFull, answerVars
    <2>5. q + v + (a + 1) + t <= total
        BY <1>3, <1>4, <1>5, <1>6, <2>2, <2>4
    <2>. QED BY <1>3, <1>5, <2>3, <2>5 DEF PostsAccounted
<1>8. CASE ~(\E c \in Catches : BecomeFull(c))
    <2>1. q + v <= p + u
        BY <1>4, <1>5, <1>8, PermitsSteps
    <2>2. CASE \E c \in Catches : WakeMain(c)
        <3>1. PICK c \in Catches : WakeMain(c)
            BY <2>2
        <3>2. Cardinality(Asking') = a - 1 /\ a >= 1
            <4>1. Asking' = Asking \ {c} /\ c \in Asking
                BY <3>1, AskingSteps
            <4>2. Cardinality(Asking') = a - 1
                BY <1>1, <1>4, <4>1, FS_RemoveElement
            <4>3. Cardinality(Asking') \in Nat
                <5>1. IsFiniteSet(Asking \ {c})
                    BY <1>1, FS_Subset
                <5>. QED BY <4>1, <5>1, FS_CardinalityType
            <4>. QED BY <1>4, <4>2, <4>3
        <3>3. t = s \/ t = s + 1
            <4>1. (IF AllFull THEN 1 ELSE 0) \in {0, 1}
                OBVIOUS
            <4>2. PICK one \in {0, 1} : sem_all_pokemons_caught' = sem_all_pokemons_caught + one
                BY <3>1, <4>1 DEF WakeMain
            <4>. QED BY <1>4, <1>5, <4>2
        <3>4. q + v + (a - 1) + t <= total
            <4>1. CASE t = s
                BY <1>3, <1>4, <1>5, <1>6, <2>1, <4>1
            <4>2. CASE t = s + 1
                BY <1>3, <1>4, <1>5, <1>6, <2>1, <4>2
            <4>. QED BY <3>3, <4>1, <4>2
        <3>. QED BY <1>3, <1>5, <3>2, <3>4 DEF PostsAccounted
    <2>3. CASE ~ \E c \in Catches : WakeMain(c)
        <3>1. Cardinality(Asking') = a
            BY <1>4, <1>8, <2>3, AskingSteps
        <3>2. t = s
            <4>1. UNCHANGED sem_all_pokemons_caught
                BY <2>3, ZenonT(40) DEF Next, vars, MessageStep, ReceiveMessage, ReadRemaining, CountReceived,
                DecideAppeared, DecideLocalized, DecideOnNothing, AddLocalized, AddToBackup,
                MatcherStep, LookForMatch, ChooseMatch, ChooseNothing, AddMatch, Plan,
                TrainerStep, Start, StepAndGoOn, StepAndPreempt,
            BecomeReady, CheckExec, Requeue, Resume, SendCatch, WaitCatch, CatchByDefault, DealWithDefault,
                ReceiveMessageId, CatchStep, Answered, Answer, HandleCaught, CountCaught, NoneInBackup,
                TakeFromBackup, MisreadBackup, Refill, NoLongerBeingCaught, BecomeFull,
                BecomeNew, BecomeAvailable, MessageFrame, MatcherFrame, TrainerFrame, Die, answerVars
            <4>. QED BY <1>4, <1>5, <4>1
        <3>3. q + v + a + t <= total
            BY <1>3, <1>4, <1>5, <1>6, <2>1, <3>2
        <3>. QED BY <1>3, <1>5, <3>1, <3>3 DEF PostsAccounted
    <2>. QED BY <2>2, <2>3
<1>. QED BY <1>7, <1>8

-----------------------------------------------------------------------------
(* Type correctness.                                                       *)

TeamInv ==
    /\ TeamTypes /\ OtherTypes /\ OnePlanned /\ PermitsAccounted
    /\ MessagesSized /\ PokemonsAccounted /\ SemCounts /\ PostsAccounted

\* It holds when the Team starts: nothing has appeared yet.
LEMMA InitTeamInv == Init => TeamInv
<1>. SUFFICES ASSUME Init PROVE TeamInv
    OBVIOUS
<1>1. TeamTypes /\ OnePlanned /\ PermitsAccounted
    BY InitTeamTypes, InitOnePlanned, InitPermitsAccounted
<1>2. OtherTypes
    <2>1. ASSUME NEW bags, bags \in [Trainers -> [Pokemons -> Nat]], NEW p \in Pokemons
          PROVE  TeamTotal(bags, p) \in Nat
        <3>1. PICK f : f = [t \in Trainers |-> bags[t][p]]
            OBVIOUS
        <3>2. \A t \in Trainers : f[t] \in Nat
            BY <2>1, <3>1
        <3>3. SumFunctionOnSet(f, Trainers) \in Nat
            BY <3>2, ObjectivesAreSet, SumOnSet
        <3>. QED BY <3>1, <3>3 DEF TeamTotal
    <2>2. remaining \in [Pokemons -> Nat]
        <3>1. ASSUME NEW p \in Pokemons
              PROVE  TeamTotal(Objective, p) - TeamTotal(Caught, p) \in Nat
            <4>1. PICK n, k : n = TeamTotal(Objective, p) /\ k = TeamTotal(Caught, p)
                OBVIOUS
            <4>2. n \in Nat /\ k \in Nat /\ k <= n
                BY <2>1, <4>1, ObjectivesAreSet
            <4>3. n - k \in Nat
                BY <4>2
            <4>. QED BY <4>1, <4>3
        <3>. QED BY <3>1 DEF Init
    <2>3. appeared_backup \in Seq([list : BOOLEAN, pokemon : Pokemons])
        BY EmptySeq DEF Init
    <2>4. /\ algorithm \in Algorithms /\ crashed = FALSE /\ sem_all_pokemons_caught = 0
          /\ answered = {} /\ duplicates = 0 /\ lost = {} /\ misled = {}
        BY DEF Init
    <2>5. 0 \in 0..MaxDuplicates
        BY BoundsAreNat
    <2>. QED BY <2>2, <2>3, <2>4, <2>5 DEF OtherTypes
<1>3. MessagesSized
    BY DEF Init, MessagesSized, Sized, NoThread
<1>4. Len(received) = 0 /\ Len(appeared_backup) = 0 /\ Len(matches) = 0
    BY EmptySeq DEF Init
<1>5. Refilling = {} /\ Asking = {}
    BY DEF Init, Refilling, Asking
<1>6. Cardinality(Refilling) = 0 /\ Cardinality(Asking) = 0
    BY <1>5, FS_EmptySet
<1>7. Coming = 0
    <2>1. PICK f : f = [n \in MessageThreads |-> Pending(message[n])]
        OBVIOUS
    <2>2. \A n \in MessageThreads : f[n] = 0
        BY <2>1 DEF Init, Pending, NoThread
    <2>3. IsFiniteSet(MessageThreads)
        BY BoundsAreNat, FS_Interval DEF MessageThreads
    <2>4. SumFunctionOnSet(f, MessageThreads) = 0
        BY <2>2, <2>3, SumOfNothing
    <2>. QED BY <2>1, <2>4 DEF Coming
<1>8. PokemonsAccounted
    <2>1. Arrived = 0
        BY <1>4, <1>6, <1>7 DEF Arrived
    <2>3. Cardinality(BeingPutBack) = 0
        <3>1. BeingPutBack = {}
            BY DEF Init, BeingPutBack
        <3>. QED BY <3>1, FS_EmptySet
    <2>2. Promised = 0
        BY <1>4, <2>3 DEF Promised, PromiseSum, Init
    <2>. QED BY <2>1, <2>2, BoundsAreNat DEF Init, PokemonsAccounted
<1>9. SemCounts
    BY <1>4 DEF Init, SemCounts
<1>10. PostsAccounted
    <2>1. Permits + Cardinality(Undone) <= Cardinality(Trainers)
        <3>1. /\ Permits \in Nat /\ Cardinality(Undone) \in Nat /\ Cardinality(Out) \in Nat
              /\ Cardinality(Trainers) \in Nat
            BY <1>1, FiniteCounts, ObjectivesAreSet, FS_CardinalityType
        <3>. QED BY <1>1, <3>1 DEF PermitsAccounted
    <2>2. /\ Permits \in Nat /\ Cardinality(Undone) \in Nat /\ sem_all_pokemons_caught = 0
        BY <1>1, FiniteCounts DEF Init
    <2>. QED BY <1>6, <2>1, <2>2 DEF PostsAccounted
<1>. QED BY <1>1, <1>2, <1>3, <1>8, <1>9, <1>10 DEF TeamInv

\* Every step of any thread keeps it.
LEMMA NextTeamInv == TeamInv /\ [Next]_vars => TeamInv'
<1>. SUFFICES ASSUME TeamInv, [Next]_vars PROVE TeamInv'
    OBVIOUS
<1>. USE DEF TeamInv
<1>1. TeamTypes' /\ OtherTypes'
    BY NextTeamTypes, NextOtherTypes
<1>2. OnePlanned' /\ PermitsAccounted'
    BY NextOnePlanned, NextPermitsAccounted
<1>3. MessagesSized' /\ PokemonsAccounted'
    BY <1>1, NextMessagesSized, NextPokemonsAccounted
<1>4. SemCounts' /\ PostsAccounted'
    BY NextSemCounts, NextPostsAccounted
<1>. QED BY <1>1, <1>2, <1>3, <1>4

\* What is accounted for fits its bounds.
LEMMA AccountedFits == TeamInv => TypeOK
<1>. SUFFICES ASSUME TeamInv PROVE TypeOK
    OBVIOUS
<1>. USE DEF TeamInv, TeamTypes
<1>1. /\ Coming \in Nat /\ Len(received) \in Nat /\ Len(appeared_backup) \in Nat
      /\ Cardinality(Refilling) \in Nat /\ Arrived \in Nat /\ appeared \in Nat /\ MaxPokemons \in Nat
      /\ appeared <= MaxPokemons
    BY ArrivedIsNat, BoundsAreNat DEF ArrivedNumbers, PokemonsAccounted
<1>2. Arrived = Coming + Len(received) + Len(appeared_backup) + Cardinality(Refilling)
    BY DEF Arrived
<1>3. Promised \in Nat /\ catches \in Nat /\ catches <= Promised
    <2>1. Len(matches) \in Nat /\ catches \in Nat /\ Cardinality(BeingPutBack) \in Nat
        BY LenProperties, FiniteCounts DEF MatchTypes, CatchTypes
    <2>2. (IF matcher.pc = "add" THEN 1 ELSE 0) \in {0, 1} /\ (IF mutex_planning THEN 1 ELSE 0) \in {0, 1}
        OBVIOUS
    <2>. QED BY <2>1, <2>2, PromiseMoves DEF Promised
<1>4. Arrived + Promised <= appeared /\ \A p \in Pokemons : Arrived + being_caught[p] <= appeared
    BY DEF PokemonsAccounted
<1>5. Len(received) <= MaxPokemons
    <2>1. \A a, b, c, d \in Nat : b <= a + b + c + d
        OBVIOUS
    <2>2. Len(received) <= Arrived
        BY <1>1, <1>2, <2>1
    <2>. QED BY <1>1, <1>3, <1>4, <2>2
<1>6. catches \in 0..MaxPokemons
    BY <1>1, <1>3, <1>4
<1>7. being_caught \in [Pokemons -> 0..MaxPokemons]
    <2>1. being_caught \in [Pokemons -> Nat]
        BY DEF MatchTypes
    <2>2. ASSUME NEW p \in Pokemons PROVE being_caught[p] \in 0..MaxPokemons
        <3>1. being_caught[p] \in Nat /\ Arrived + being_caught[p] <= appeared
            BY <1>4, <2>1
        <3>. QED BY <1>1, <3>1
    <2>. QED BY <2>1, <2>2
<1>8. sem_appeared_pokemon \in 0..Len(received)
    <2>1. PICK one \in {0, 1} : sem_appeared_pokemon + one = Len(received)
        BY DEF SemCounts
    <2>2. sem_appeared_pokemon \in Nat
        BY DEF MessageTypes
    <2>. QED BY <1>1, <2>1, <2>2
<1>9. /\ sem_all_pokemons_caught \in 0..Cardinality(Trainers)
      /\ sem_trainer_available \in 0..Cardinality(Trainers)
    <2>1. /\ Permits \in Nat /\ Cardinality(Undone) \in Nat /\ Cardinality(Asking) \in Nat
          /\ sem_all_pokemons_caught \in Nat /\ sem_trainer_available \in Nat /\ Len(matches) \in Nat
          /\ Cardinality(Trainers) \in Nat /\ Cardinality(BeingPutBack) \in Nat
        BY FiniteCounts, AskingIsFinite, ObjectivesAreSet, FS_CardinalityType DEF OtherTypes
    <2>2. sem_trainer_available <= Permits
        <3>1. \A a, n, k \in Nat : \A b, d \in BOOLEAN :
                a <= a + (IF b THEN 0 ELSE 1) + n + (IF d THEN 1 ELSE 0) + k
            OBVIOUS
        <3>2. (matcher.pc = "wait") \in BOOLEAN /\ mutex_planning \in BOOLEAN
            BY DEF MatchTypes
        <3>. QED BY <2>1, <3>1, <3>2 DEF Permits
    <2>3. Permits + Cardinality(Undone) + Cardinality(Asking) + sem_all_pokemons_caught
            <= Cardinality(Trainers)
        BY DEF PostsAccounted
    <2>4. \A p, u, a, s, n \in Nat : p + u + a + s <= n => p <= n /\ s <= n
        OBVIOUS
    <2>5. Permits <= Cardinality(Trainers) /\ sem_all_pokemons_caught <= Cardinality(Trainers)
        BY <2>1, <2>3, <2>4
    <2>. QED BY <2>1, <2>2, <2>5
<1>10. matches \in Seq(Match)
    <2>1. PlannedMatch \subseteq Match
        BY DEF PlannedMatch, Match
    <2>2. \A i \in 1..Len(matches) : matches[i] \in Match
        BY <2>1, ElementOfSeq, LenProperties DEF MatchTypes
    <2>. QED BY <2>1, <2>2, LenProperties DEF MatchTypes
<1>. QED BY <1>1, <1>5, <1>6, <1>7, <1>8, <1>9, <1>10
     DEF TypeOK, OtherTypes, MessageTypes, MatchTypes, CatchTypes, PokemonsAccounted

\* No counter of a Team wraps around and no semaphore stands at more than there are to wait for:
\* a pokemon that appeared is in one list, in one match or one catch, and a trainer's permit
\* wakes main once.
THEOREM TeamTyped == Spec => []TypeOK
BY InitTeamInv, NextTeamInv, AccountedFits, PTL DEF Spec

-----------------------------------------------------------------------------
(* What being_caught_pokemons counts.                                       *)

\* The places of a sequence that are of species p.
Of(s, p) == {i \in DOMAIN s : s[i].pokemon = p}

\* Adding an element to a sequence, or taking one out, changes how many of them are of species p.
LEMMA SpeciesCounts ==
    ASSUME NEW S, NEW s \in Seq(S), NEW p
    PROVE  /\ IsFiniteSet(Of(s, p)) /\ Cardinality(Of(s, p)) \in Nat
           /\ \A m \in S : Cardinality(Of(Append(s, m), p))
                                = Cardinality(Of(s, p)) + (IF m.pokemon = p THEN 1 ELSE 0)
           /\ \A k \in DOMAIN s : Cardinality(Of(s, p)) = Cardinality(Of(RemoveAt(s, k), p))
                                                            + (IF s[k].pokemon = p THEN 1 ELSE 0)
<1>. DEFINE A == {i \in DOMAIN s : s[i].pokemon = p}
<1>1. Len(s) \in Nat /\ DOMAIN s = 1..Len(s)
    BY LenProperties
<1>2. IsFiniteSet(A) /\ Cardinality(A) \in Nat
    <2>1. IsFiniteSet(1..Len(s))
        BY <1>1, FS_Interval
    <2>. QED BY <1>1, <2>1, FS_Subset, FS_CardinalityType
<1>3. ASSUME NEW m \in S
      PROVE  Cardinality({i \in DOMAIN Append(s, m) : Append(s, m)[i].pokemon = p})
                = Cardinality(A) + (IF m.pokemon = p THEN 1 ELSE 0)
    <2>. DEFINE r == Append(s, m)
                B == {i \in DOMAIN r : r[i].pokemon = p}
    <2>1. /\ r \in Seq(S) /\ Len(r) = Len(s) + 1 /\ r[Len(s) + 1] = m
          /\ \A i \in 1..Len(s) : r[i] = s[i]
        BY AppendProperties
    <2>2. DOMAIN r = 1..(Len(s) + 1)
        BY <2>1, LenProperties
    <2>. HIDE DEF r
    <2>3. CASE m.pokemon = p
        <3>1. B = A \cup {Len(s) + 1} /\ Len(s) + 1 \notin A
            BY <1>1, <2>1, <2>2, <2>3
        <3>2. Cardinality(B) = Cardinality(A) + 1
            BY <1>2, <3>1, SetSizes
        <3>. QED BY <2>3, <3>2 DEF r
    <2>4. CASE m.pokemon # p
        <3>1. B = A
            BY <1>1, <2>1, <2>2, <2>4
        <3>2. Cardinality(B) = Cardinality(A) + 0
            <4>. HIDE DEF A, B
            <4>. QED BY <1>2, <3>1
        <3>. QED BY <2>4, <3>2 DEF r
    <2>. QED BY <2>3, <2>4
<1>4. ASSUME NEW k \in DOMAIN s
      PROVE  Cardinality(A)
                = Cardinality({i \in DOMAIN RemoveAt(s, k) : RemoveAt(s, k)[i].pokemon = p})
                    + (IF s[k].pokemon = p THEN 1 ELSE 0)
    <2>. DEFINE r == RemoveAt(s, k)
                B == {i \in DOMAIN r : r[i].pokemon = p}
                f == [i \in B |-> IF i < k THEN i ELSE i + 1]
    <2>1. /\ DOMAIN r = 1..(Len(s) - 1)
          /\ \A j \in 1..(Len(s) - 1) : r[j] = IF j < k THEN s[j] ELSE s[j + 1]
        <3>1. r \in Seq(S) /\ Len(r) = Len(s) - 1
            BY RemoveAtProperties
        <3>2. \A j \in 1..(Len(s) - 1) : r[j] = IF j <= k - 1 THEN s[j] ELSE s[j + 1]
            BY RemoveAtProperties
        <3>3. DOMAIN r = 1..(Len(s) - 1)
            BY <3>1, LenProperties
        <3>. HIDE DEF r
        <3>4. \A j \in 1..(Len(s) - 1) : j <= k - 1 <=> j < k
            BY <1>1
        <3>. QED BY <3>2, <3>3, <3>4
    <2>. HIDE DEF r
    <2>2. IsFiniteSet(B)
        <3>1. IsFiniteSet(1..(Len(s) - 1))
            BY <1>1, FS_Interval
        <3>. QED BY <2>1, <3>1, FS_Subset
    <2>3. f \in [B -> A \ {k}]
        BY <1>1, <2>1
    <2>4. \A i, j \in B : f[i] = f[j] => i = j
        BY <1>1, <2>1
    <2>5. \A j \in A \ {k} : \E i \in B : f[i] = j
        <3>. TAKE j \in A \ {k}
        <3>1. CASE j < k
            BY <1>1, <2>1, <3>1
        <3>2. CASE j > k
            <4>1. j - 1 \in B /\ f[j - 1] = j
                BY <1>1, <2>1, <3>2
            <4>. QED BY <4>1
        <3>. QED BY <1>1, <3>1, <3>2
    <2>6. ExistsBijection(B, A \ {k})
        <3>1. f \in Bijection(B, A \ {k})
            BY <2>3, <2>4, <2>5, Zenon DEF Bijection, Injection, Surjection, IsInjective
        <3>. QED BY <3>1 DEF ExistsBijection
    <2>7. Cardinality(A \ {k}) = Cardinality(B)
        BY <2>2, <2>6, FS_Bijection
    <2>8. CASE s[k].pokemon = p
        <3>1. k \in A
            BY <2>8
        <3>2. Cardinality(A \ {k}) = Cardinality(A) - 1
            BY <1>2, <3>1, SetSizes
        <3>. QED BY <1>2, <2>7, <2>8, <3>2 DEF r
    <2>9. CASE s[k].pokemon # p
        <3>1. A \ {k} = A
            BY <2>9
        <3>2. Cardinality(A) = Cardinality(B) + 0
            <4>1. Cardinality(A) = Cardinality(B)
                BY <2>7, <3>1, Zenon
            <4>. HIDE DEF A, B
            <4>. QED BY <1>2, <4>1
        <3>. QED BY <2>9, <3>2 DEF r
    <2>. QED BY <2>8, <2>9
<1>. QED BY <1>2, <1>3, <1>4 DEF Of

Counted == {"none", "result", "refill", "being caught"}

\* Only the planner tells a trainer what to catch.
LEMMA PokemonSteps ==
    ASSUME TeamTypes, [Next]_vars, ~Plan
    PROVE  \A u \in Trainers : trainer'[u].pokemon_to_catch = trainer[u].pokemon_to_catch
<1>. DEFINE Same == \A u \in Trainers : trainer'[u].pokemon_to_catch = trainer[u].pokemon_to_catch
<1>0. trainer \in [Trainers -> TrainerState]
    BY DEF TeamTypes, CatchTypes
<1>1. CASE AddMatch
    BY <1>0, <1>1 DEF AddMatch, TrainerState
<1>2. ASSUME NEW t \in Trainers, TrainerStep(t) PROVE Same
    <2>1. Start(t) => Same
        BY <1>0 DEF Start, TrainerState
    <2>2. StepAndGoOn(t) => Same
        BY <1>0 DEF StepAndGoOn, TrainerState
    <2>3. StepAndPreempt(t) => Same
        BY <1>0 DEF StepAndPreempt, TrainerState
    <2>4. Resume(t) => Same
        BY <1>0 DEF Resume, TrainerState
    <2>5. SendCatch(t) => Same
        BY <1>0 DEF SendCatch, TrainerState
    <2>6. CatchByDefault(t) => Same
        BY <1>0 DEF CatchByDefault, TrainerState
    <2>7. BecomeReady(t) => Same
        BY <1>0 DEF BecomeReady, TrainerState
    <2>8. ASSUME NEW pc, trainer' = [trainer EXCEPT ![t].pc = pc] PROVE Same
        BY <1>0, <2>8 DEF TrainerState
    <2>9. CheckExec(t) \/ Requeue(t) => Same
        BY <2>8 DEF CheckExec, Requeue
    <2>10. WaitCatch(t) => Same
        BY <1>0 DEF WaitCatch, TrainerState
    <2>11. DealWithDefault(t) => Same
        BY <1>0 DEF DealWithDefault, TrainerState
    <2>. QED BY <1>2, <2>1, <2>2, <2>3, <2>4, <2>5, <2>6, <2>7, <2>9, <2>10, <2>11 DEF TrainerStep
<1>3. ASSUME NEW c \in Catches, ReceiveMessageId(c) \/ CatchStep(c) PROVE Same
    <2>1. ReceiveMessageId(c) => Same
        BY <1>0 DEF ReceiveMessageId, TrainerState
    <2>2. Answered(c) => Same
        BY <1>0 DEF Answered, TrainerState
    <2>3. CountCaught(c) => Same
        <3>1. ASSUME NEW t, NEW p, trainer' = [trainer EXCEPT ![t].caught[p] = @ + 1] PROVE Same
            BY <1>0, <3>1 DEF TrainerState
        <3>. QED BY <3>1 DEF CountCaught
    <2>4. BecomeFull(c) => Same
        <3>1. ASSUME NEW t, NEW status, trainer' = [trainer EXCEPT ![t].status = status] PROVE Same
            BY <1>0, <3>1 DEF TrainerState
        <3>. QED BY <3>1 DEF BecomeFull
    <2>5. BecomeNew(c) => Same
        BY <1>0 DEF BecomeNew, TrainerState
    <2>6. BecomeAvailable(c) => Same
        BY <1>0 DEF BecomeAvailable, TrainerState
    <2>7. NoneInBackup(c) \/ TakeFromBackup(c) \/ MisreadBackup(c) \/ Refill(c)
            \/ NoLongerBeingCaught(c) \/ WakeMain(c) => Same
        BY DEF NoneInBackup, TakeFromBackup, MisreadBackup, Refill, NoLongerBeingCaught, WakeMain, Die
    <2>. QED BY <1>3, <2>1, <2>2, <2>3, <2>4, <2>5, <2>6, <2>7 DEF CatchStep
<1>4. ASSUME NEW m \in caught_messages, HandleCaught(m) PROVE Same
    <2>1. \/ trainer' = trainer
          \/ \E u \in Trainers :
                trainer' = [trainer EXCEPT ![u] = [@ EXCEPT !.result_catch = m.result, !.sem_caught = 1]]
        BY <1>4 DEF HandleCaught, Named
    <2>2. ASSUME NEW u \in Trainers,
                 trainer' = [trainer EXCEPT ![u] = [@ EXCEPT !.result_catch = m.result, !.sem_caught = 1]]
          PROVE  Same
        BY <1>0, <2>2 DEF TrainerState
    <2>. QED BY <2>1, <2>2
<1>5. CASE ~ \/ AddMatch \/ \E t \in Trainers : TrainerStep(t)
             \/ \E m \in caught_messages : HandleCaught(m)
             \/ \E c \in Catches : ReceiveMessageId(c) \/ CatchStep(c)
    <2>1. UNCHANGED trainer
        BY <1>5 DEF Next, vars, MessageStep, ReceiveMessage, ReadRemaining, CountReceived,
            DecideAppeared, DecideLocalized, DecideOnNothing, AddLocalized, AddToBackup,
            MatcherStep, LookForMatch, ChooseMatch, ChooseNothing, Answer, MessageFrame,
            MatcherFrame, CatchFrame, Die
    <2>. QED BY <2>1
<1>. QED BY <1>1, <1>2, <1>3, <1>4, <1>5

\* What a catch is counted for ends in one step, and its trainer never changes.
LEMMA CountedSteps ==
    ASSUME TeamTypes, [Next]_vars, ~ \E t \in Trainers : SendCatch(t) \/ CatchByDefault(t)
    PROVE  /\ catches' = catches
           /\ \A c \in Catches : catch'[c].trainer = catch[c].trainer
           /\ \A c \in Catches : \/ catch'[c].pc \in Counted <=> catch[c].pc \in Counted
                                 \/ NoLongerBeingCaught(c)
<1>. DEFINE Same == \A d \in Catches : /\ catch'[d].trainer = catch[d].trainer
                                       /\ \/ catch'[d].pc \in Counted <=> catch[d].pc \in Counted
                                          \/ NoLongerBeingCaught(d)
<1>0. catch \in [Catches -> CatchState]
    BY DEF TeamTypes, CatchTypes
<1>1. ASSUME NEW c \in Catches, NEW pc, To(c, pc),
             (pc \in Counted <=> catch[c].pc \in Counted) \/ NoLongerBeingCaught(c)
      PROVE  Same /\ catches' = catches
    BY <1>1 DEF To
<1>2. ASSUME NEW c \in Catches, CatchStep(c), ~MisreadBackup(c) PROVE Same /\ catches' = catches
    <2>1. CASE BecomeFull(c) \/ WakeMain(c) \/ BecomeNew(c) \/ BecomeAvailable(c)
        <3>1. PICK pc : To(c, pc) /\ pc \notin Counted /\ catch[c].pc \notin Counted
            BY <2>1, CatchSteps DEF Counted
        <3>. QED BY <1>1, <3>1
    <2>2. CASE NoLongerBeingCaught(c)
        BY <1>1, <2>2, CatchSteps
    <2>3. CASE Answered(c) \/ CountCaught(c) \/ NoneInBackup(c) \/ TakeFromBackup(c) \/ Refill(c)
        <3>1. catch[c].pc \in Counted /\ UNCHANGED catches
            BY <2>3 DEF Answered, CountCaught, NoneInBackup, TakeFromBackup, Refill, Counted, CatchFrame
        <3>2. ASSUME NEW pc \in Counted, catch' = [catch EXCEPT ![c].pc = pc] PROVE Same
            BY <1>0, <3>1, <3>2 DEF CatchState
        <3>3. ASSUME NEW pc \in Counted, NEW p, catch' = [catch EXCEPT ![c] = [@ EXCEPT !.pc = pc, !.backup = p]]
              PROVE  Same
            BY <1>0, <3>1, <3>3 DEF CatchState
        <3>4. Answered(c) \/ CountCaught(c) \/ NoneInBackup(c) \/ Refill(c)
                => \E pc \in Counted : catch' = [catch EXCEPT ![c].pc = pc]
            BY DEF Answered, CountCaught, NoneInBackup, Refill, Counted
        <3>5. TakeFromBackup(c) => \E pc \in Counted : \E p :
                                        catch' = [catch EXCEPT ![c] = [@ EXCEPT !.pc = pc, !.backup = p]]
            BY DEF TakeFromBackup, Counted
        <3>. QED BY <2>3, <3>1, <3>2, <3>3, <3>4, <3>5
    <2>. QED BY <1>2, <2>1, <2>2, <2>3 DEF CatchStep
<1>3. ASSUME NEW c \in Catches, ReceiveMessageId(c) PROVE Same /\ catches' = catches
    BY <1>0, <1>3 DEF ReceiveMessageId, CatchFrame, CatchState
<1>5. ASSUME NEW t \in Trainers, DealWithDefault(t) PROVE Same /\ catches' = catches
    <2>1. PICK c \in Catches : DealtByDefault(t, c) /\ To(c, "result")
        BY <1>5, DefaultStep
    <2>2. catch[c].pc \in Counted /\ "result" \in Counted
        BY <2>1 DEF DealtByDefault, Counted
    <2>. QED BY <1>1, <2>1, <2>2
<1>4. CASE ~ \/ \E c \in Catches : ReceiveMessageId(c) \/ (CatchStep(c) /\ ~MisreadBackup(c))
             \/ \E t \in Trainers : DealWithDefault(t)
    <2>1. UNCHANGED <<catch, catches>>
        BY <1>4 DEF Next, vars, MessageStep, ReceiveMessage, ReadRemaining, CountReceived,
            DecideAppeared, DecideLocalized, DecideOnNothing, AddLocalized, AddToBackup,
            MatcherStep, LookForMatch, ChooseMatch, ChooseNothing, AddMatch, Plan, TrainerStep, Start,
            StepAndGoOn, StepAndPreempt, BecomeReady, CheckExec, Requeue, Resume, WaitCatch,
            CatchStep, MisreadBackup, Answer, HandleCaught,
            MessageFrame, MatcherFrame, TrainerFrame, CatchFrame, catchVars, Die
    <2>. QED BY <2>1
<1>. QED BY <1>2, <1>3, <1>4, <1>5

\* The equation for one species.
SpeciesSum(adding, listed, walking, back, sent) == adding + listed + walking + back + sent

SpeciesAccounted(p) ==
    being_caught[p] = SpeciesSum(Adding(p), Cardinality(Listed(p)), Cardinality(Walking(p)),
                                 Cardinality(Returning(p)), Cardinality(Sent(p)))

\* What it relates are numbers.
LEMMA SpeciesNumbers ==
    TeamTypes => \A p \in Pokemons :
                    /\ being_caught[p] \in Nat /\ Adding(p) \in {0, 1} /\ Adding(p) \in Nat
                    /\ Cardinality(Listed(p)) \in Nat
                    /\ IsFiniteSet(Walking(p)) /\ Cardinality(Walking(p)) \in Nat
                    /\ IsFiniteSet(Returning(p)) /\ Cardinality(Returning(p)) \in Nat
                    /\ IsFiniteSet(Sent(p)) /\ Cardinality(Sent(p)) \in Nat
<1>. SUFFICES ASSUME TeamTypes, NEW p \in Pokemons
              PROVE  /\ being_caught[p] \in Nat /\ Adding(p) \in {0, 1} /\ Adding(p) \in Nat
                     /\ Cardinality(Listed(p)) \in Nat
                     /\ IsFiniteSet(Walking(p)) /\ Cardinality(Walking(p)) \in Nat
                     /\ IsFiniteSet(Returning(p)) /\ Cardinality(Returning(p)) \in Nat
                     /\ IsFiniteSet(Sent(p)) /\ Cardinality(Sent(p)) \in Nat
    OBVIOUS
<1>1. being_caught[p] \in Nat /\ Adding(p) \in {0, 1} /\ Adding(p) \in Nat
    BY DEF TeamTypes, MatchTypes, Adding
<1>2. Cardinality(Listed(p)) \in Nat
    <2>1. matches \in Seq(PlannedMatch)
        BY DEF TeamTypes, MatchTypes
    <2>2. Cardinality(Of(matches, p)) \in Nat
        BY <2>1, SpeciesCounts
    <2>. QED BY <2>2 DEF Listed, Of
<1>3. /\ IsFiniteSet(Walking(p)) /\ Cardinality(Walking(p)) \in Nat
      /\ IsFiniteSet(Returning(p)) /\ Cardinality(Returning(p)) \in Nat
    <2>1. Walking(p) \subseteq Trainers /\ Returning(p) \subseteq Trainers
        BY DEF Walking, Executing, Returning, BeingPutBack
    <2>. QED BY <2>1, ObjectivesAreSet, FS_Subset, FS_CardinalityType
<1>4. IsFiniteSet(Sent(p)) /\ Cardinality(Sent(p)) \in Nat
    <2>1. Sent(p) \subseteq Catches /\ IsFiniteSet(Catches)
        BY BoundsAreNat, FS_Interval DEF Sent, Catches
    <2>. QED BY <2>1, FS_Subset, FS_CardinalityType
<1>. QED BY <1>1, <1>2, <1>3, <1>4

\* What is walked for, what is put back and what was sent depend on these alone.
LEMMA SameSent ==
    ASSUME NEW p, \A t \in Trainers : trainer'[t].pokemon_to_catch = trainer[t].pokemon_to_catch
    PROVE  /\ (\A t \in Trainers : Executes(t)' <=> Executes(t)) => Walking(p)' = Walking(p)
           /\ BeingPutBack' = BeingPutBack => Returning(p)' = Returning(p)
           /\ (\A c \in Catches : /\ catch'[c].trainer = catch[c].trainer
                                  /\ catch'[c].pc \in Counted <=> catch[c].pc \in Counted)
                => Sent(p)' = Sent(p)
<1>1. (\A t \in Trainers : Executes(t)' <=> Executes(t)) => Walking(p)' = Walking(p)
    BY DEF Walking, Executing
<1>2. BeingPutBack' = BeingPutBack => Returning(p)' = Returning(p)
    BY DEF Returning, BeingPutBack
<1>3. (\A c \in Catches : /\ catch'[c].trainer = catch[c].trainer
                          /\ catch'[c].pc \in Counted <=> catch[c].pc \in Counted)
        => Sent(p)' = Sent(p)
    BY DEF Sent, UnderWay, Counted
<1>. QED BY <1>1, <1>2, <1>3

\* Steps that begin nothing and end nothing.
LEMMA OtherSpeciesSteps ==
    ASSUME TeamTypes, OnePlanned, [Next]_vars, ~Plan, ~ChooseMatch, ~AddMatch,
           ~ \E t \in Trainers : StepAndPreempt(t) \/ SendCatch(t) \/ CatchByDefault(t),
           ~ \E t \in Trainers : CheckExec(t) \/ Requeue(t),
           ~ \E c \in Catches : NoLongerBeingCaught(c),
           NEW p \in Pokemons, SpeciesAccounted(p)
    PROVE  SpeciesAccounted(p)'
<1>1. UNCHANGED <<being_caught, matches>> /\ (UNCHANGED matcher \/ LookForMatch)
    BY DEF Next, vars, MessageStep, ReceiveMessage, ReadRemaining, CountReceived, DecideAppeared,
        DecideLocalized, DecideOnNothing, AddLocalized, AddToBackup, MatcherStep, LookForMatch,
        ChooseNothing, TrainerStep, Start, StepAndGoOn, BecomeReady, Resume, WaitCatch,
        DealWithDefault, ReceiveMessageId, CatchStep,
        Answered, Answer, HandleCaught, CountCaught, NoneInBackup, TakeFromBackup, MisreadBackup,
        Refill, BecomeFull, WakeMain, BecomeNew, BecomeAvailable, MessageFrame, MatcherFrame,
        TrainerFrame, CatchFrame, counterVars, planVars, Die
<1>6. Adding(p)' = Adding(p)
    <2>1. CASE UNCHANGED matcher
        BY <2>1 DEF Adding
    <2>2. CASE LookForMatch
        <3>1. matcher.pc = "wait" /\ matcher'.pc = "choose"
            BY <2>2 DEF LookForMatch, TeamTypes, MatchTypes
        <3>. QED BY <3>1 DEF Adding
    <2>. QED BY <1>1, <2>1, <2>2
<1>2. \A t \in Trainers : Executes(t)' <=> Executes(t)
    BY ExecutionSteps DEF SameExecution
<1>3. Walking(p)' = Walking(p)
    BY <1>2, PokemonSteps, SameSent
<1>4. Sent(p)' = Sent(p)
    BY PokemonSteps, CountedSteps, SameSent
<1>5. Listed(p)' = Listed(p)
    BY <1>1 DEF Listed
<1>7. BeingPutBack' = BeingPutBack
    <2>1. CASE ~ \/ \E t \in Trainers : TrainerStep(t)
                 \/ \E c \in Catches : ReceiveMessageId(c) \/ CatchStep(c)
                 \/ \E c \in Catches, result \in {0, 1} : Answer(c, result)
                 \/ \E m \in caught_messages : HandleCaught(m)
        <3>1. UNCHANGED trainer
            BY <2>1 DEF Next, vars, MessageStep, ReceiveMessage, ReadRemaining, CountReceived,
                DecideAppeared, DecideLocalized, DecideOnNothing, AddLocalized, AddToBackup,
                MatcherStep, LookForMatch, ChooseNothing, MessageFrame, Die
        <3>. QED BY <3>1, SameBack
    <2>2. CASE \E t \in Trainers : TrainerStep(t)
        BY <2>2, SameBack DEF TrainerStep
    <2>. QED BY <2>1, <2>2, SameBack
<1>8. Returning(p)' = Returning(p)
    BY <1>7, PokemonSteps, SameSent
<1>. QED BY <1>1, <1>3, <1>4, <1>5, <1>6, <1>8 DEF SpeciesAccounted

\* The matcher counts one more, and then puts it into the list.
LEMMA MatcherSpeciesSteps ==
    ASSUME TeamTypes, TeamTypes', OnePlanned, [Next]_vars, ChooseMatch \/ AddMatch,
           NEW p \in Pokemons, SpeciesAccounted(p)
    PROVE  SpeciesAccounted(p)'
<1>. USE DEF TeamTypes, MatchTypes
<1>1. ~Plan /\ ~ \E t \in Trainers : StepAndPreempt(t) \/ SendCatch(t) \/ CatchByDefault(t)
    BY DEF ChooseMatch, AddMatch, Plan, StepAndPreempt, SendCatch, CatchByDefault, TrainerFrame
<1>2. UNCHANGED catch
    BY DEF ChooseMatch, AddMatch, MatcherFrame, catchVars
<1>3. Walking(p)' = Walking(p) /\ Returning(p)' = Returning(p) /\ Sent(p)' = Sent(p)
    <2>1. \A t \in Trainers : Executes(t)' <=> Executes(t)
        BY <1>1, ExecutionSteps DEF SameExecution
    <2>2. BeingPutBack' = BeingPutBack
        BY SameBack DEF ChooseMatch
    <2>3. \A t \in Trainers : trainer'[t].pokemon_to_catch = trainer[t].pokemon_to_catch
        BY <1>1, PokemonSteps
    <2>. QED BY <1>2, <2>1, <2>2, <2>3, SameSent
<1>4. /\ being_caught[p] \in Nat /\ being_caught'[p] \in Nat /\ Cardinality(Listed(p)) \in Nat
      /\ Cardinality(Walking(p)) \in Nat /\ Cardinality(Returning(p)) \in Nat
      /\ Cardinality(Sent(p)) \in Nat /\ Adding(p) \in Nat
    BY SpeciesNumbers
<1>7. PICK b \in Nat, a \in Nat, l \in Nat, w \in Nat, r \in Nat, s \in Nat :
        /\ b = being_caught[p] /\ a = Adding(p) /\ l = Cardinality(Listed(p))
        /\ w = Cardinality(Walking(p)) /\ r = Cardinality(Returning(p)) /\ s = Cardinality(Sent(p))
    BY <1>4
<1>8. b = a + l + w + r + s
    BY <1>7 DEF SpeciesAccounted, SpeciesSum
<1>5. CASE ChooseMatch
    <2>1. PICK i \in DOMAIN received :
            /\ being_caught' = [being_caught EXCEPT ![received[i]] = @ + 1]
            /\ matcher'.pc = "add" /\ matcher'.match.pokemon = received[i]
        <3>1. PICK i \in DOMAIN received, t \in Trainers :
                /\ being_caught' = [being_caught EXCEPT ![received[i]] = @ + 1]
                /\ matcher' = [matcher EXCEPT !.pc = "add",
                                    !.match = [trainer |-> t, pokemon |-> received[i]]]
            BY <1>5 DEF ChooseMatch, Candidates
        <3>2. matcher'.pc = "add" /\ matcher'.match.pokemon = received[i]
            BY <3>1
        <3>. QED BY <3>1, <3>2
    <2>2. matcher.pc = "choose" /\ UNCHANGED matches
        BY <1>5 DEF ChooseMatch
    <2>3. Adding(p) = 0 /\ Listed(p)' = Listed(p)
        BY <2>2 DEF Adding, Listed
    <2>4. CASE received[i] = p
        <3>1. being_caught'[p] = being_caught[p] + 1 /\ Adding(p)' = Adding(p) + 1
            BY <2>1, <2>3, <2>4 DEF Adding
        <3>2. b + 1 = (a + 1) + l + w + r + s
            BY ONLY <1>8, a \in Nat, l \in Nat, w \in Nat, r \in Nat, s \in Nat
        <3>. QED BY <1>3, <1>7, <2>3, <3>1, <3>2 DEF SpeciesAccounted, SpeciesSum
    <2>5. CASE received[i] # p
        <3>1. being_caught'[p] = being_caught[p] /\ Adding(p)' = Adding(p)
            BY <2>1, <2>3, <2>5 DEF Adding
        <3>. QED BY <1>3, <2>3, <3>1 DEF SpeciesAccounted
    <2>. QED BY <2>4, <2>5
<1>6. CASE AddMatch
    <2>1. /\ matcher.pc = "add" /\ matches' = Append(matches, matcher.match) /\ matcher'.pc = "wait"
          /\ UNCHANGED being_caught /\ matcher.match \in PlannedMatch
        BY <1>6 DEF AddMatch, Match, PlannedMatch
    <2>2. Cardinality(Listed(p))' = Cardinality(Listed(p)) + Adding(p)
        <3>1. matches \in Seq(PlannedMatch)
            OBVIOUS
        <3>2. Cardinality(Of(Append(matches, matcher.match), p))
                = Cardinality(Of(matches, p)) + (IF matcher.match.pokemon = p THEN 1 ELSE 0)
            BY <2>1, <3>1, SpeciesCounts
        <3>. QED BY <2>1, <3>2 DEF Listed, Adding, Of
    <2>3. Adding(p)' = 0
        BY <2>1 DEF Adding
    <2>4. b = 0 + (l + a) + w + r + s
        BY ONLY <1>8, a \in Nat, l \in Nat, w \in Nat, r \in Nat, s \in Nat
    <2>. QED BY <1>3, <1>7, <2>1, <2>2, <2>3, <2>4 DEF SpeciesAccounted, SpeciesSum
<1>. QED BY <1>5, <1>6

\* The planner moves a match to the trainer that is to execute it, which nobody does.
LEMMA PlanSpeciesStep ==
    ASSUME TeamTypes, TeamTypes', OnePlanned, Plan, misled' = {},
           NEW p \in Pokemons, SpeciesAccounted(p)
    PROVE  SpeciesAccounted(p)'
<1>1. trainer \in [Trainers -> TrainerState] /\ matches \in Seq(PlannedMatch)
    BY DEF TeamTypes, CatchTypes, MatchTypes
<1>2. PICK i \in DOMAIN matches :
        /\ matches' = RemoveAt(matches, i)
        /\ misled' = misled \cup Overwritten(matches[i].trainer, matches[i].pokemon)
        /\ trainer' = [trainer EXCEPT ![matches[i].trainer] =
                            [@ EXCEPT !.pokemon_to_catch = matches[i].pokemon,
                                      !.status = "EXEC", !.sem = 1]]
    BY DEF Plan, NextToExec
<1>3. PICK m : m = matches[i]
    OBVIOUS
<1>4. m \in PlannedMatch /\ m.trainer \in Trainers /\ m.pokemon \in Pokemons
    <2>1. m \in PlannedMatch
        BY <1>1, <1>3, ElementOfSeq, LenProperties
    <2>. QED BY <2>1 DEF PlannedMatch
<1>5. PICK t \in Trainers, q \in Pokemons : t = m.trainer /\ q = m.pokemon
    BY <1>4
<1>6. trainer' = [trainer EXCEPT ![t] = [@ EXCEPT !.pokemon_to_catch = q,
                                                  !.status = "EXEC", !.sem = 1]]
    BY <1>2, <1>3, <1>5
<1>7. /\ trainer'[t].pokemon_to_catch = q /\ trainer'[t].sem = 1
      /\ \A u \in Trainers \ {t} : trainer'[u] = trainer[u]
    BY <1>1, <1>6 DEF TrainerState
<1>8. UNCHANGED <<catch, being_caught, matcher>>
    BY DEF Plan, TrainerFrame, catchVars, counterVars
<1>9. (UnderWay(t) = {} /\ t \notin BeingPutBack) \/ trainer[t].pokemon_to_catch = q
    BY <1>2, <1>3, <1>5 DEF Overwritten
<1>10. Sent(p)' = Sent(p)
    <2>1. \A u \in Trainers : UnderWay(u)' = UnderWay(u)
        BY <1>8 DEF UnderWay
    <2>2. \A u \in Trainers, c \in Catches :
            c \in UnderWay(u) => trainer'[u].pokemon_to_catch = trainer[u].pokemon_to_catch
        BY <1>7, <1>9
    <2>. QED BY <2>1, <2>2 DEF Sent
<1>18. Returning(p)' = Returning(p)
    <2>1. BeingPutBack' = BeingPutBack
        BY SameBack
    <2>2. \A u \in BeingPutBack : trainer'[u].pokemon_to_catch = trainer[u].pokemon_to_catch
        BY <1>7, <1>9 DEF BeingPutBack
    <2>. QED BY <2>1, <2>2 DEF Returning
<1>11. Walking(p) = {}
    <2>1. ~mutex_planning
        BY DEF Plan, MayPlan
    <2>. QED BY <2>1 DEF Walking, Executing, OnePlanned
<1>12. Walking(p)' = IF q = p THEN {t} ELSE {}
    <2>1. \A u \in Trainers : ~Executes(u)
        BY DEF Plan, MayPlan, OnePlanned
    <2>2. \A u \in Trainers : Executes(u)' <=> u = t
        BY <1>7, <2>1 DEF Executes
    <2>. QED BY <1>7, <2>2 DEF Walking, Executing
<1>17. PICK one \in {0, 1} : one = IF q = p THEN 1 ELSE 0
    OBVIOUS
<1>13. Cardinality(Walking(p)) = 0 /\ Cardinality(Walking(p))' = one
    <2>1. Cardinality({}) = 0 /\ Cardinality({t}) = 1
        BY FS_EmptySet, FS_Singleton
    <2>. QED BY <1>11, <1>12, <1>17, <2>1
<1>14. Cardinality(Listed(p)) = Cardinality(Listed(p))' + one
    <2>1. Cardinality(Of(matches, p)) = Cardinality(Of(RemoveAt(matches, i), p))
                                            + (IF matches[i].pokemon = p THEN 1 ELSE 0)
        BY <1>1, SpeciesCounts
    <2>2. Listed(p) = Of(matches, p) /\ Listed(p)' = Of(RemoveAt(matches, i), p)
        BY <1>2 DEF Listed, Of
    <2>. QED BY <1>3, <1>5, <1>17, <2>1, <2>2
<1>15. Adding(p)' = Adding(p) /\ being_caught'[p] = being_caught[p]
    BY <1>8 DEF Adding
<1>16. PICK a \in Nat, l \in Nat, r \in Nat, s \in Nat :
            /\ a = Adding(p) /\ l = Cardinality(Listed(p))'
            /\ r = Cardinality(Returning(p)) /\ s = Cardinality(Sent(p))
    <2>1. matches' \in Seq(PlannedMatch)
        BY DEF TeamTypes, MatchTypes
    <2>2. Cardinality(Of(matches', p)) \in Nat
        BY <2>1, SpeciesCounts
    <2>3. Listed(p)' = Of(matches', p)
        BY DEF Listed, Of
    <2>4. Cardinality(Listed(p))' \in Nat
        BY <2>2, <2>3
    <2>. QED BY <2>4, SpeciesNumbers
<1>19. being_caught[p] = SpeciesSum(a, l + one, 0, r, s)
    BY <1>13, <1>14, <1>16 DEF SpeciesAccounted
<1>20. being_caught[p] = SpeciesSum(a, l, one, r, s)
    BY ONLY <1>19, a \in Nat, l \in Nat, r \in Nat, s \in Nat, one \in {0, 1} DEF SpeciesSum
<1>. QED BY <1>10, <1>13, <1>15, <1>16, <1>18, <1>20 DEF SpeciesAccounted

\* A preempted trainer walks no more, and desalojar is to put it back with what it was to catch.
LEMMA PreemptSpeciesStep ==
    ASSUME TeamTypes, OnePlanned, NEW t \in Trainers, StepAndPreempt(t),
           [Next]_vars, ~Plan, NEW p \in Pokemons, SpeciesAccounted(p)
    PROVE  SpeciesAccounted(p)'
<1>1. PICK q : q = trainer[t].pokemon_to_catch
    OBVIOUS
<1>2. PICK one \in {0, 1} : one = IF q = p THEN 1 ELSE 0
    OBVIOUS
<1>3. UNCHANGED <<catch, being_caught, matcher, matches>>
    BY DEF StepAndPreempt, TrainerFrame, catchVars, counterVars
<1>4. \A u \in Trainers : trainer'[u].pokemon_to_catch = trainer[u].pokemon_to_catch
    BY PokemonSteps
<1>5. Sent(p)' = Sent(p) /\ Listed(p)' = Listed(p) /\ Adding(p)' = Adding(p)
    BY <1>3, <1>4, SameSent DEF Listed, Adding
<1>6. /\ Executes(t) /\ \A u \in Trainers : Executes(u) => u = t
      /\ \A u \in Trainers : ~Executes(u)'
    BY UnlockSteps DEF Unlocks, OnePlanned, Executes
<1>7. Walking(p) = (IF q = p THEN {t} ELSE {}) /\ Walking(p)' = {}
    BY <1>1, <1>6 DEF Walking, Executing
<1>8. Cardinality(Walking(p)) = one /\ Cardinality(Walking(p))' = 0
    <2>1. Cardinality({}) = 0 /\ Cardinality({t}) = 1
        BY FS_EmptySet, FS_Singleton
    <2>. QED BY <1>2, <1>7, <2>1
<1>9. BeingPutBack' = BeingPutBack \cup {t} /\ t \notin BeingPutBack
    <2>1. trainer[t].pc = "move" /\ Turned(t, "preempt", trainer[t].sem, trainer[t].status, trainer[t].pcb)
        BY TrainerSteps DEF StepAndPreempt
    <2>. QED BY <2>1 DEF BeingPutBack, Turned
<1>10. Returning(p)' = (IF q = p THEN Returning(p) \cup {t} ELSE Returning(p)) /\ t \notin Returning(p)
    BY <1>1, <1>4, <1>9 DEF Returning, BeingPutBack
<1>11. IsFiniteSet(Returning(p)) /\ Cardinality(Returning(p)) \in Nat
    BY SpeciesNumbers
<1>12. Cardinality(Returning(p))' = Cardinality(Returning(p)) + one
    <2>1. CASE q = p
        BY <1>2, <1>10, <1>11, <2>1, SetSizes
    <2>2. CASE q # p
        <3>1. Cardinality(Returning(p))' = Cardinality(Returning(p))
            BY <1>10, <2>2
        <3>. QED BY <1>2, <1>11, <2>2, <3>1
    <2>. QED BY <2>1, <2>2
<1>13. PICK a \in Nat, l \in Nat, r \in Nat, s \in Nat :
            /\ a = Adding(p) /\ l = Cardinality(Listed(p))
            /\ r = Cardinality(Returning(p)) /\ s = Cardinality(Sent(p))
    BY SpeciesNumbers
<1>14. being_caught[p] = SpeciesSum(a, l, one, r, s)
    BY <1>8, <1>13 DEF SpeciesAccounted
<1>15. being_caught[p] = SpeciesSum(a, l, 0, r + one, s)
    BY ONLY <1>14, a \in Nat, l \in Nat, r \in Nat, s \in Nat, one \in {0, 1} DEF SpeciesSum
<1>. QED BY <1>3, <1>5, <1>8, <1>12, <1>13, <1>15 DEF SpeciesAccounted

\* desalojar finds the pcb of a trainer that is not stranded as it left it: nothing changes place.
LEMMA CheckSpeciesStep ==
    ASSUME TeamTypes, OnePlanned, NEW t \in Trainers, CheckExec(t),
           [Next]_vars, ~Plan, misled' = {}, NEW p \in Pokemons, SpeciesAccounted(p)
    PROVE  SpeciesAccounted(p)'
<1>1. UNCHANGED <<catch, being_caught, matcher, matches, mutex_planning>>
    BY DEF CheckExec, TrainerFrame, catchVars, counterVars
<1>2. /\ trainer \in [Trainers -> TrainerState] /\ trainer[t].pc = "ready"
      /\ trainer' = [trainer EXCEPT ![t].pc = "requeue"]
    BY DEF CheckExec, TeamTypes, CatchTypes
<1>3. /\ trainer'[t].pc = "requeue" /\ trainer'[t].sem = trainer[t].sem
      /\ trainer'[t].pokemon_to_catch = trainer[t].pokemon_to_catch
      /\ \A u \in Trainers \ {t} : trainer'[u] = trainer[u]
    BY <1>2 DEF TrainerState
<1>4. BeingPutBack' = BeingPutBack /\ \A u \in Trainers : Executes(u)' <=> Executes(u)
    BY <1>2, <1>3 DEF BeingPutBack, Executes
<1>5. \A u \in Trainers : trainer'[u].pokemon_to_catch = trainer[u].pokemon_to_catch
    BY <1>3
<1>6. /\ Sent(p)' = Sent(p) /\ Walking(p)' = Walking(p) /\ Returning(p)' = Returning(p)
    BY <1>1, <1>4, <1>5, SameSent
<1>7. Listed(p)' = Listed(p) /\ Adding(p)' = Adding(p)
    BY <1>1 DEF Listed, Adding
<1>. QED BY <1>1, <1>6, <1>7 DEF SpeciesAccounted

\* A trainer that is put back goes into the list with what it is to catch.
LEMMA RequeueSpeciesStep ==
    ASSUME TeamTypes, NEW t \in Trainers, Requeue(t),
           [Next]_vars, ~Plan, NEW p \in Pokemons, SpeciesAccounted(p)
    PROVE  SpeciesAccounted(p)'
<1>1. PICK q \in Pokemons : q = trainer[t].pokemon_to_catch
    BY DEF TeamTypes, CatchTypes, TrainerState
<1>2. PICK m \in PlannedMatch : m = [trainer |-> t, pokemon |-> q]
    BY DEF PlannedMatch
<1>3. PICK one \in {0, 1} : one = IF q = p THEN 1 ELSE 0
    OBVIOUS
<1>4. matches \in Seq(PlannedMatch) /\ matches' = Append(matches, m)
    <2>1. matches \in Seq(PlannedMatch)
        BY DEF TeamTypes, MatchTypes
    <2>2. matches' = matches \o <<m>>
        BY <1>1, <1>2 DEF Requeue, Requeued
    <2>. QED BY <1>2, <2>1, <2>2, AppendIsConcat
<1>5. UNCHANGED <<catch, being_caught, matcher, mutex_planning>>
    BY DEF Requeue, TrainerFrame, catchVars, counterVars
<1>6. /\ trainer \in [Trainers -> TrainerState] /\ trainer[t].pc = "requeue"
      /\ trainer' = [trainer EXCEPT ![t].pc = "preempted"]
    BY DEF Requeue, TeamTypes, CatchTypes
<1>7. /\ trainer'[t].pc = "preempted" /\ trainer'[t].sem = trainer[t].sem
      /\ trainer'[t].pokemon_to_catch = trainer[t].pokemon_to_catch
      /\ \A u \in Trainers \ {t} : trainer'[u] = trainer[u]
    BY <1>6 DEF TrainerState
<1>8. \A u \in Trainers : Executes(u)' <=> Executes(u)
    BY <1>6, <1>7 DEF Executes
<1>9. \A u \in Trainers : trainer'[u].pokemon_to_catch = trainer[u].pokemon_to_catch
    BY <1>7
<1>10. Sent(p)' = Sent(p) /\ Walking(p)' = Walking(p) /\ Adding(p)' = Adding(p)
    BY <1>5, <1>8, <1>9, SameSent DEF Adding
<1>11. BeingPutBack' = BeingPutBack \ {t} /\ t \in BeingPutBack
    BY <1>6, <1>7 DEF BeingPutBack
<1>12. Returning(p)' = Returning(p) \ {t} /\ (t \in Returning(p) <=> q = p)
    BY <1>1, <1>9, <1>11 DEF Returning, BeingPutBack
<1>13. IsFiniteSet(Returning(p)) /\ Cardinality(Returning(p)) \in Nat /\ IsFiniteSet(Returning(p) \ {t})
    BY SpeciesNumbers, FS_Subset
<1>14. PICK r \in Nat : r = Cardinality(Returning(p))'
    BY <1>12, <1>13, FS_CardinalityType
<1>15. Cardinality(Returning(p)) = r + one
    <2>1. CASE q = p
        <3>1. Cardinality(Returning(p) \ {t}) = Cardinality(Returning(p)) - 1
            BY <1>12, <1>13, <2>1, SetSizes
        <3>. QED BY <1>3, <1>12, <1>13, <1>14, <2>1, <3>1
    <2>2. CASE q # p
        <3>1. Returning(p)' = Returning(p)
            BY <1>12, <2>2
        <3>2. Cardinality(Returning(p)) = r
            BY <1>14, <3>1
        <3>. QED BY <1>3, <1>14, <2>2, <3>2
    <2>. QED BY <2>1, <2>2
<1>16. Cardinality(Listed(p))' = Cardinality(Listed(p)) + one
    <2>1. m.pokemon = q
        BY <1>2
    <2>2. Cardinality(Of(Append(matches, m), p)) = Cardinality(Of(matches, p)) + (IF m.pokemon = p THEN 1 ELSE 0)
        BY <1>4, SpeciesCounts
    <2>3. Listed(p) = Of(matches, p) /\ Listed(p)' = Of(Append(matches, m), p)
        BY <1>4 DEF Listed, Of
    <2>. QED BY <1>3, <2>1, <2>2, <2>3
<1>17. PICK a \in Nat, l \in Nat, w \in Nat, s \in Nat :
            /\ a = Adding(p) /\ l = Cardinality(Listed(p))
            /\ w = Cardinality(Walking(p)) /\ s = Cardinality(Sent(p))
    BY SpeciesNumbers
<1>18. being_caught[p] = SpeciesSum(a, l, w, r + one, s)
    BY <1>15, <1>17 DEF SpeciesAccounted
<1>19. being_caught[p] = SpeciesSum(a, l + one, w, r, s)
    BY ONLY <1>18, a \in Nat, l \in Nat, w \in Nat, r \in Nat, s \in Nat, one \in {0, 1}
    DEF SpeciesSum
<1>. QED BY <1>5, <1>10, <1>14, <1>16, <1>17, <1>19 DEF SpeciesAccounted

\* A trainer that begins a catch executes no more, and handle_catch is to deal with it.
LEMMA BeginSpeciesStep ==
    ASSUME TeamTypes, OtherTypes, OnePlanned, PokemonsAccounted, NEW t \in Trainers,
           SendCatch(t) \/ CatchByDefault(t), [Next]_vars, ~Plan,
           NEW p \in Pokemons, SpeciesAccounted(p)
    PROVE  SpeciesAccounted(p)'
<1>. DEFINE q == trainer[t].pokemon_to_catch
            d == catches + 1
<1>1. /\ Executes(t) /\ mutex_planning /\ \A u \in Trainers : Executes(u) => u = t
      /\ \A u \in Trainers : ~Executes(u)'
    BY UnlockSteps DEF Unlocks, OnePlanned, Executes
<1>2. d \in Catches
    <2>1. /\ Arrived \in Nat /\ appeared \in Nat /\ MaxPokemons \in Nat /\ appeared <= MaxPokemons
          /\ catches \in Nat /\ Len(matches) \in Nat /\ Cardinality(BeingPutBack) \in Nat
        BY ArrivedIsNat, BoundsAreNat, LenProperties, FiniteCounts
        DEF ArrivedNumbers, PokemonsAccounted, TeamTypes, CatchTypes, MatchTypes
    <2>2. PICK one \in {0, 1}, l \in Nat, r \in Nat : Promised = one + l + 1 + r + catches
        <3>1. PICK one \in {0, 1} : one = IF matcher.pc = "add" THEN 1 ELSE 0
            OBVIOUS
        <3>. QED BY <1>1, <2>1, <3>1 DEF Promised, PromiseSum
    <2>3. Arrived + Promised <= appeared
        BY DEF PokemonsAccounted
    <2>4. catches + 1 \in 1..MaxPokemons
        BY <2>1, <2>2, <2>3
    <2>. QED BY <2>4 DEF Catches
<1>3. Begun(t)
    BY BegunSteps
<1>4. UNCHANGED <<matches, being_caught, matcher>>
    BY DEF SendCatch, CatchByDefault, TrainerFrame, counterVars
<1>5. \A u \in Trainers : trainer'[u].pokemon_to_catch = trainer[u].pokemon_to_catch
    BY PokemonSteps
<1>6. /\ Walking(p) = (IF q = p THEN {t} ELSE {}) /\ Walking(p)' = {}
      /\ Listed(p)' = Listed(p)
    BY <1>1, <1>4 DEF Walking, Executing, Listed
<1>17. Returning(p)' = Returning(p)
    BY <1>5, SameBack, SameSent
<1>7. Cardinality(Walking(p)) = (IF q = p THEN 1 ELSE 0) /\ Cardinality(Walking(p))' = 0
    <2>1. Cardinality({}) = 0 /\ Cardinality({t}) = 1
        BY FS_EmptySet, FS_Singleton
    <2>. QED BY <1>6, <2>1
<1>8. d \notin Sent(p)
    <2>1. d > catches
        BY DEF TeamTypes, CatchTypes
    <2>2. catch[d].trainer = Nobody
        BY <1>2, <2>1 DEF TeamTypes, CatchesBegun
    <2>3. Nobody \notin Trainers
        BY ObjectivesAreSet DEF Nobody
    <2>. QED BY <2>2, <2>3 DEF Sent, UnderWay
<1>9. Sent(p)' = IF q = p THEN Sent(p) \cup {d} ELSE Sent(p)
    <2>1. ASSUME NEW c \in Catches \ {d}
          PROVE  c \in Sent(p)' <=> c \in Sent(p)
        <3>1. catch'[c] = catch[c]
            BY <1>3 DEF Begun
        <3>. QED BY <1>5, <3>1 DEF Sent, UnderWay
    <2>2. d \in Sent(p)' <=> q = p
        <3>1. catch'[d].trainer = t /\ catch'[d].pc \in Counted
            BY <1>2, <1>3 DEF Begun, Counted
        <3>. QED BY <1>2, <1>5, <3>1 DEF Sent, UnderWay, Counted
    <2>3. Sent(p) \subseteq Catches /\ Sent(p)' \subseteq Catches
        BY DEF Sent
    <2>. HIDE DEF d, q
    <2>. QED BY <1>2, <1>8, <2>1, <2>2, <2>3
<1>. HIDE DEF d, q
<1>10. Cardinality(Sent(p))' = Cardinality(Sent(p)) + (IF q = p THEN 1 ELSE 0)
    <2>1. IsFiniteSet(Sent(p)) /\ Cardinality(Sent(p)) \in Nat
        BY SpeciesNumbers
    <2>2. CASE q = p
        BY <1>8, <1>9, <2>1, <2>2, SetSizes
    <2>3. CASE q # p
        <3>1. Cardinality(Sent(p))' = Cardinality(Sent(p))
            BY <1>9, <2>3
        <3>. QED BY <2>1, <2>3, <3>1
    <2>. QED BY <2>2, <2>3
<1>11. Adding(p)' = Adding(p) /\ being_caught'[p] = being_caught[p]
    BY <1>4 DEF Adding
<1>12. PICK a \in Nat, l \in Nat, r \in Nat, s \in Nat :
            /\ a = Adding(p) /\ l = Cardinality(Listed(p))
            /\ r = Cardinality(Returning(p)) /\ s = Cardinality(Sent(p))
    BY SpeciesNumbers
<1>14. PICK one \in {0, 1} : one = IF q = p THEN 1 ELSE 0
    OBVIOUS
<1>15. being_caught[p] = SpeciesSum(a, l, one, r, s)
    BY <1>7, <1>12, <1>14 DEF SpeciesAccounted
<1>16. being_caught[p] = SpeciesSum(a, l, 0, r, s + one)
    BY ONLY <1>15, a \in Nat, l \in Nat, r \in Nat, s \in Nat, one \in {0, 1} DEF SpeciesSum
<1>. QED BY <1>6, <1>7, <1>10, <1>11, <1>12, <1>14, <1>16, <1>17 DEF SpeciesAccounted

\* The counter is lowered with the catch it was raised for: it is never 0 then.
LEMMA EndSpeciesStep ==
    ASSUME TeamTypes, OnePlanned, [Next]_vars, NEW c \in Catches, NoLongerBeingCaught(c),
           NEW p \in Pokemons, \A r \in Pokemons : SpeciesAccounted(r)
    PROVE  SpeciesAccounted(p)'
<1>1. /\ catch \in [Catches -> CatchState] /\ trainer \in [Trainers -> TrainerState]
      /\ being_caught \in [Pokemons -> Nat]
    BY DEF TeamTypes, CatchTypes, MatchTypes
<1>2. catch[c].pc = "being caught" /\ catch' = [catch EXCEPT ![c].pc = "full?"]
    BY DEF NoLongerBeingCaught
<1>3. PICK t \in Trainers : t = catch[c].trainer
    <2>1. ~(c > catches)
        BY <1>2 DEF TeamTypes, CatchesBegun
    <2>. QED BY <2>1 DEF TeamTypes, CatchesBegun
<1>4. PICK q \in Pokemons : q = trainer[t].pokemon_to_catch
    BY <1>1 DEF TrainerState
<1>5. being_caught' = [being_caught EXCEPT ![q] = OneLess(@)]
    BY <1>3, <1>4 DEF NoLongerBeingCaught, Pokemon
<1>6. UNCHANGED <<matches, matcher, trainer>>
    BY DEF NoLongerBeingCaught, CatchFrame, planVars
<1>7. /\ Adding(p)' = Adding(p) /\ Listed(p)' = Listed(p) /\ Walking(p)' = Walking(p)
      /\ Returning(p)' = Returning(p)
    BY <1>6 DEF Adding, Listed, Walking, Executing, Executes, Returning, BeingPutBack
<1>8. /\ catch'[c].pc = "full?"
      /\ \A d \in Catches \ {c} : catch'[d] = catch[d]
    BY <1>1, <1>2 DEF CatchState
<1>9. c \in Sent(p) <=> p = q
    BY <1>2, <1>3, <1>4 DEF Sent, UnderWay
<1>10. Sent(p)' = Sent(p) \ {c}
    <2>1. c \notin Sent(p)'
        BY <1>8 DEF Sent, UnderWay
    <2>2. ASSUME NEW d \in Catches \ {c} PROVE d \in Sent(p)' <=> d \in Sent(p)
        BY <1>6, <1>8 DEF Sent, UnderWay
    <2>3. Sent(p) \subseteq Catches /\ Sent(p)' \subseteq Catches
        BY DEF Sent
    <2>. QED BY <2>1, <2>2, <2>3
<1>11. PICK b \in Nat, a \in Nat, l \in Nat, w \in Nat, r \in Nat, s \in Nat :
        /\ b = being_caught[p] /\ a = Adding(p) /\ l = Cardinality(Listed(p))
        /\ w = Cardinality(Walking(p)) /\ r = Cardinality(Returning(p)) /\ s = Cardinality(Sent(p))
    BY SpeciesNumbers
<1>12. b = SpeciesSum(a, l, w, r, s)
    BY <1>11 DEF SpeciesAccounted
<1>13. CASE p = q
    <2>1. Cardinality(Sent(p))' = s - 1 /\ s # 0
        <3>1. c \in Sent(p) /\ IsFiniteSet(Sent(p))
            BY <1>9, <1>13, SpeciesNumbers
        <3>2. Cardinality(Sent(p) \ {c}) = s - 1
            BY <1>11, <3>1, SetSizes
        <3>3. s # 0
            BY <1>11, <3>1, FS_EmptySet
        <3>. QED BY <1>10, <3>2, <3>3
    <2>2. b > 0 /\ b - 1 = SpeciesSum(a, l, w, r, s - 1)
        <3>1. s # 0 /\ b = a + l + w + r + s
            BY <1>12, <2>1 DEF SpeciesSum
        <3>2. b > 0 /\ b - 1 = a + l + w + r + (s - 1)
            BY ONLY <3>1, a \in Nat, l \in Nat, w \in Nat, r \in Nat, s \in Nat, b \in Nat
        <3>. QED BY <3>2 DEF SpeciesSum
    <2>3. being_caught'[p] = b - 1
        BY <1>1, <1>5, <1>11, <1>13, <2>2 DEF OneLess, Substract
    <2>. QED BY <1>7, <1>11, <2>1, <2>2, <2>3 DEF SpeciesAccounted
<1>14. CASE p # q
    <2>1. Sent(p)' = Sent(p)
        BY <1>9, <1>10, <1>14
    <2>2. being_caught'[p] = b
        BY <1>1, <1>5, <1>11, <1>14
    <2>. QED BY <1>7, <1>11, <1>12, <2>1, <2>2 DEF SpeciesAccounted
<1>. QED BY <1>13, <1>14

\* What no step forgets.
LEMMA MisledStays ==
    ASSUME [Next]_vars
    PROVE  misled \subseteq misled'
BY ZenonT(40) DEF Next, vars, MessageStep, ReceiveMessage, ReadRemaining, CountReceived,
    DecideAppeared, DecideLocalized, DecideOnNothing, AddLocalized, AddToBackup,
    MatcherStep, LookForMatch, ChooseMatch, ChooseNothing, AddMatch, Plan,
    TrainerStep, Start, StepAndGoOn, StepAndPreempt,
            BecomeReady, CheckExec, Requeue, Resume, SendCatch, WaitCatch, CatchByDefault, DealWithDefault,
    ReceiveMessageId, CatchStep, Answered, Answer, HandleCaught, CountCaught, NoneInBackup,
    TakeFromBackup, MisreadBackup, Refill, NoLongerBeingCaught, BecomeFull, WakeMain,
    BecomeNew, BecomeAvailable, MessageFrame, MatcherFrame, TrainerFrame, CatchFrame,
    planVars, Die

\* Every step keeps the counters and the catches under way equal.
LEMMA NextBeingCaught ==
    BeingCaughtAccounted /\ TeamInv /\ TeamInv' /\ [Next]_vars => BeingCaughtAccounted'
<1>. SUFFICES ASSUME BeingCaughtAccounted, TeamInv, TeamInv', [Next]_vars, misled' = {},
                     NEW p \in Pokemons
              PROVE  SpeciesAccounted(p)'
    BY DEF BeingCaughtAccounted, SpeciesAccounted, SpeciesSum
<1>1. \A r \in Pokemons : SpeciesAccounted(r)
    BY MisledStays DEF BeingCaughtAccounted, SpeciesAccounted, SpeciesSum
<1>. USE DEF TeamInv
<1>2. CASE Plan
    BY <1>1, <1>2, PlanSpeciesStep
<1>3. ASSUME NEW t \in Trainers, StepAndPreempt(t), ~Plan PROVE SpeciesAccounted(p)'
    BY <1>1, <1>3, PreemptSpeciesStep
<1>4. ASSUME NEW t \in Trainers, SendCatch(t) \/ CatchByDefault(t), ~Plan
      PROVE  SpeciesAccounted(p)'
    BY <1>1, <1>4, BeginSpeciesStep
<1>5. ASSUME NEW c \in Catches, NoLongerBeingCaught(c) PROVE SpeciesAccounted(p)'
    BY <1>1, <1>5, EndSpeciesStep
<1>6. CASE ChooseMatch \/ AddMatch
    BY <1>1, <1>6, MatcherSpeciesSteps
<1>7. ASSUME NEW t \in Trainers, CheckExec(t) \/ Requeue(t), ~Plan PROVE SpeciesAccounted(p)'
    BY <1>1, <1>7, CheckSpeciesStep, RequeueSpeciesStep
<1>. QED BY <1>1, <1>2, <1>3, <1>4, <1>5, <1>6, <1>7, OtherSpeciesSteps

\* For each species, being_caught_pokemons counts the catches under way and no other, through
\* preemptions, trainers with two catches at once and answers that come twice: until a trainer
\* is given another pokemon before handle_catch, or desalojar, has read the last one, or a
\* preempted trainer is stranded.
THEOREM BeingCaughtCounted == Spec => []BeingCaughtAccounted
<1>1. Init => TeamInv /\ BeingCaughtAccounted
    <2>. SUFFICES ASSUME Init PROVE BeingCaughtAccounted
        BY InitTeamInv
    <2>2. ASSUME NEW p \in Pokemons PROVE SpeciesAccounted(p)
        <3>1. Listed(p) = {} /\ Walking(p) = {} /\ Returning(p) = {} /\ Sent(p) = {}
            <4>1. Nobody \notin Trainers
                BY ObjectivesAreSet DEF Nobody
            <4>2. Sent(p) = {}
                BY <4>1 DEF Init, Sent, UnderWay
            <4>3. Walking(p) = {} /\ Returning(p) = {}
                BY DEF Init, Walking, Executing, Executes, Returning, BeingPutBack
            <4>4. Listed(p) = {}
                BY EmptySeq DEF Init, Listed
            <4>. QED BY <4>2, <4>3, <4>4
        <3>2. being_caught[p] = 0 /\ Adding(p) = 0
            BY DEF Init, Adding
        <3>. QED BY <3>1, <3>2, FS_EmptySet DEF SpeciesAccounted, SpeciesSum
    <2>. QED BY <2>2 DEF BeingCaughtAccounted, SpeciesAccounted, SpeciesSum
<1>2. TeamInv /\ [Next]_vars => TeamInv'
    BY NextTeamInv
<1>. QED BY <1>1, <1>2, NextBeingCaught, PTL DEF Spec
=============================================================================
