-------------------------- MODULE MCTeamCatching --------------------------
(* TeamCatching with two trainers of one species that want two and one; and with  *)
(* three of two species: one wants one of each, one wants one of the first, and   *)
(* one has what it wants by the configuration.                                    *)
EXTENDS TeamCatching

Two == [t \in {1, 2} |-> [p \in {"Pikachu"} |-> IF t = 1 THEN 2 ELSE 1]]

Nothing == [t \in {1, 2} |-> [p \in {"Pikachu"} |-> 0]]

TwoSpecies ==
    [t \in {1, 2, 3} |-> [p \in {"Pikachu", "Charmander"} |->
        IF p = "Charmander" \/ t = 1 THEN 1 ELSE 0]]

ThirdHas ==
    [t \in {1, 2, 3} |-> [p \in {"Pikachu", "Charmander"} |->
        IF p = "Charmander" /\ t = 3 THEN 1 ELSE 0]]
=============================================================================
