---------------------------- MODULE MCTallGrass ----------------------------
(* TallGrass on a small instance: two pokemons, two positions.              *)
EXTENDS TallGrass

CONSTANTS Pikachu, Onix

Message(code, pokemon, pos, count) ==
    [code |-> code, pokemon |-> pokemon, pos |-> pos, count |-> count]

\* Both positions of a file whose text takes three cells.
Spread == <<[pos |-> 1, count |-> 1], [pos |-> 2, count |-> 2]>>

NoContent == [b \in Blocks \cup {NoBlock} |-> <<>>]

\* As create_tall_grass leaves it.
FreshDisk ==
    [files |-> [p \in {} |-> NoOne], content |-> NoContent,
     population |-> [p \in Pokemons |-> [x \in Positions |-> 0]]]

\* Two files grew into a second block while a third took the last free one for
\* its first: both were given NoBlock, and the last cell is the second writer's.
WornDisk ==
    [files |-> [p \in Pokemons |->
        [BLOCKS |-> IF p = Pikachu THEN <<0, NoBlock>> ELSE <<1, NoBlock>>, SIZE |-> 3, OPEN |-> "N"]],
     content |-> [NoContent EXCEPT ![0] = DataOf(Text(Spread), 1), ![1] = DataOf(Text(Spread), 1),
                                   ![NoBlock] = DataOf(Text(Spread), 2)],
     population |-> [p \in Pokemons |-> [x \in Positions |-> x]]]

MCDisks == {FreshDisk, WornDisk}

MCRequests ==
    {Message("NEW_POKEMON", Pikachu, 1, 1), Message("NEW_POKEMON", Pikachu, 2, 2),
     Message("NEW_POKEMON", Pikachu, 1, 0),
     Message("CATCH_POKEMON", Pikachu, 1, 0),
     Message("GET_POKEMON", Pikachu, 1, 0),
     Message("NEW_POKEMON", Onix, 1, 2)}
=============================================================================
