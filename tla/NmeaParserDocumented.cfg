SPECIFICATION Spec
CONSTANTS
    DEBUG = FALSE
    Supported <- MCSupported
    Lines <- MCLines
    Start <- MCStart
    MaxTicks = 1
INVARIANT
    EveryFactIsPublished
