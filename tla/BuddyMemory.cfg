SPECIFICATION Spec
CONSTANTS
    Publishers = {p1, p2}
    TAMANO_MEMORIA = 9
    TAMANO_MINIMO_PARTICION = 2
    Frequencies = {1}
    Sizes = {1, 3, 5}
    MaxMessages = 3
    MaxTime = 2
    NoOne = NoOne
INVARIANTS TypeOK Tiled BuddiesMerged QueuedIsReadable
PROPERTIES ImplementsCache
