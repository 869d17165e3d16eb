-------------------------- MODULE PokemonExchange --------------------------
(***************************************************************************)
(* What the exchanges of a Team promise: every step that moves pokemons is   *)
(* one exchange, in which two trainers that have them swap one pokemon each. *)
(* So no pokemon appears or disappears, and every trainer keeps as many as   *)
(* it had.  The promise is off once sound is FALSE.                          *)
(***************************************************************************)
EXTENDS Naturals

CONSTANTS Trainers, Pokemons

VARIABLES caught, \* how many pokemons of each species each trainer has
          sound

vars == <<caught, sound>>

Init == /\ caught \in [Trainers -> [Pokemons -> Nat]]
        /\ sound = TRUE

\* t gives p to u and u gives q to t.
Exchange(t, u, p, q) ==
    /\ t # u /\ p # q
    /\ caught[t][p] > 0 /\ caught[u][q] > 0
    /\ caught' = [caught EXCEPT ![t][p] = @ - 1, ![t][q] = @ + 1,
                                ![u][q] = @ - 1, ![u][p] = @ + 1]

Sound ==
    /\ sound
    /\ \E t, u \in Trainers, p, q \in Pokemons : Exchange(t, u, p, q)
    /\ sound' \in BOOLEAN

BecomeUnsound == sound /\ ~sound' /\ caught' = caught

Unsound == ~sound /\ ~sound' /\ caught' \in [Trainers -> [Pokemons -> Nat]]

Next == Sound \/ BecomeUnsound \/ Unsound

Spec == Init /\ [][Next]_vars
=============================================================================
