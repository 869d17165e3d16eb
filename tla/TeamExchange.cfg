CONSTANTS
    a = a  b = b  c = c
    Pokemons = {a, b, c}
    NumTrainers = 4
    Starts <- SmallTeams
    Algorithms = {"RR", "SJF-CD"}
    QUANTUM = 2
    MaxDistance = 0
SPECIFICATION FairSpec
INVARIANTS TypeOK ExitHasObjective EverybodySatisfied EveryMatchOnce
PROPERTIES ImplementsExchange TeamFinishes
CHECK_DEADLOCK FALSE
