SPECIFICATION Spec
CONSTANTS
    Trainers = {1, 2, 3}
    Pokemons = {"Pikachu", "Charmander"}
    Objective <- TwoSpecies
    Caught <- ThirdHas
    Algorithms = {"RR", "SJF-CD"}
    QUANTUM = 1
    MaxPokemons = 3
    MaxMessages = 2
    MaxDistance = 1
    MaxDuplicates = 0
    Garbage = {0}
CHECK_DEADLOCK FALSE
INVARIANTS TypeOK OneExecutes AvailableCanBeMatched BeingCaughtAccounted
