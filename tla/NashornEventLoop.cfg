SPECIFICATION FairSpec
CONSTANTS
    Threads = {t1, t2}
    Pool = {p1, p2}
    Lines = {l1, l2}
    NoLine = NoLine
    Capacity = 4
    MaxScheduled = 1
INVARIANTS
    TypeOK
    AnswerIsOwn
    NoCallbackIsStranded
    AloneIsServed
PROPERTY
    CallbacksAreRun
CHECK_DEADLOCK FALSE
