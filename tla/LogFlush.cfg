SPECIFICATION Spec
CONSTANTS
    FlushModes <- MCFlushModes
    max_size_ = 2
    MaxBytes = 4
    MaxRestarts = 1
    Chunk <- MCChunk
    Clock <- MCClock
INVARIANTS
    
    
    RolledBounded
PROPERTY
    NothingOverwritten
