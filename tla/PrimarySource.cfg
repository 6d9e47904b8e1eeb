SPECIFICATION Spec
CONSTANTS
    Paths = {speed, aton}
    Reloaded = {speed}
    DatetimePaths = {speed}
    Sources = {n2k, nmea}
    NoSource = NoSource
    Savers = {t1, t2}
    Loaders = {l1}
    Fields = 2
    SystemClock = FALSE
INVARIANTS
    TypeOK
    SolePrimary
    ValueOfOneKind
    SecondaryHasPrimary
SYMMETRY Symmetric
