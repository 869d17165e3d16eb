SPECIFICATION FairSpec
CONSTANTS
    Pikachu = Pikachu
    Onix = Onix
    Pokemons = {Pikachu, Onix}
    Positions = {1, 2}
    BLOCKS = 8
    Reserved = {2, 3, 4, 5, 6, 7}
    BLOCK_SIZE = 2
    Ten = 2
    Disks <- MCDisks
    Requests <- MCRequests
    MaxMessages = 3
    MaxCrashes = 1
    NoOne = NoOne
INVARIANTS TypeOK StoredIsPopulation ClosedFilesOwnBlocks AvailableIsExact NothingLeaks
PROPERTIES HandlerEnds
