SPECIFICATION Spec
CONSTANTS
    Enqueuers = {extractor}
    Dequeuers = {producer}
    MaxSize = 2
    MaxItems = 4
    null = null
INVARIANTS
    TypeOK
    NoDuplicateDelivery
    ExactWithoutOverlap
