SPECIFICATION FairSpec
CONSTANTS
    Publishers = {p1, p2}
    TAMANO_MEMORIA = 5
    TAMANO_MINIMO_PARTICION = 2
    Frequencies = {1, 2}
    Sizes = {1, 4}
    MaxMessages = 3
    MaxTime = 2
    NoOne = NoOne
INVARIANTS TypeOK Tiled DanglingOnlyIfEarly
PROPERTIES EvictsByPolicy EvictsOnlyWhenFull StoreEnds ImplementsCache
