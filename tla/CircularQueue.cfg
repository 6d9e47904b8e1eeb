SPECIFICATION Spec
CONSTANTS
    Elements = {f1, f2, f3}
    MaxSize = 3
    null = null
INVARIANTS
    TypeOK
    RingConsistent
    VacatedSlotsAreNull
PROPERTY ImplementsFifo
