SPECIFICATION Spec
CONSTANTS
    Publishers = {p1, p2}
    TAMANO_MEMORIA = 4
    TAMANO_MINIMO_PARTICION = 2
    Frequencies = {1}
    Sizes = {4}
    MaxMessages = 4
    MaxTime = 1
    NoOne = NoOne
PROPERTY DeletesAssociated
