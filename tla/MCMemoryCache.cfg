CONSTANTS
    Writer <- TwoWriters
    CacheCount = 4
    MaxBatch = 4
    Load <- WriteOrRead
SPECIFICATION Spec
INVARIANTS
    TypeOK
    FreeCachesAreEmpty
    GetIsFresh
    CloseLosesNothing
PROPERTY WritesBehind
