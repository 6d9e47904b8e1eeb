SPECIFICATION Spec
CONSTANTS
    DEBUG = FALSE
    Supported <- MCSupported
    Lines <- MCLines
    Start <- MCStart
    MaxTicks = 3
INVARIANTS
    TypeOK
    PublishedIsTrue
    NothingElseIsLost
    DatedToTheDay
    DepthsAddUp
    SourceIsNamed
    MessageIsConsistent
    OnlyKnownLosses
    VoidIsHeldBack
