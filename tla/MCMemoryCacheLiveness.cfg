CONSTANTS
    Writer <- OneWriter
    CacheCount = 4
    MaxBatch = 5
    Load <- WriteOnly
SPECIFICATION FairSpec
PROPERTIES
    BatchesEnd
    WritesAreStored
