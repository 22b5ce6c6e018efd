SPECIFICATION FairSpec
CONSTANTS
    BufLen = 3
    ReadDepth = 2
    WriteDepth = 1
    ReadThreshold = 0
    WriteThreshold = 0
    Timeout = 1
    MaxRequest = 2
    MaxBytes = 4
    MaxPlugs = 1
INVARIANTS
    BytesInOrder
    Armed
PROPERTIES
    NobodyWaits
    ImplementsQueues
