CONSTANTS
    Byte = {0, 1}
    Zero = 0
    FileSize = 3
    RingSize = 2
    MaxLog = 4
    MaxOffset = 5
    ResetOffsets = {2}
    MaxFaults = 1
SPECIFICATION Spec
INVARIANTS
    ReplayFaithful
    CacheFaithful
    AcceptFaithful
PROPERTIES
    KeepsPromise
