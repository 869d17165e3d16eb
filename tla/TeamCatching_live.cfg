SPECIFICATION FairSpec
CONSTANTS
    Trainers = {1, 2}
    Pokemons = {"Pikachu"}
    Objective <- Two
    Caught <- Nothing
    Algorithms = {"RR", "SJF-CD"}
    QUANTUM = 1
    MaxPokemons = 2
    MaxMessages = 2
    MaxDistance = 1
    MaxDuplicates = 1
    Garbage = {0, 1}
CHECK_DEADLOCK FALSE
PROPERTY MatchedCatches
