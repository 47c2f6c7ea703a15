SPECIFICATION FairSpec
CONSTANTS
    Hash <- MCHash
    Chunk <- MCChunk
    ChunksOf <- MCChunksOf
    None = None
    Timer = {t}
    Worker = {w1}
    FileId = {f1, f2}
    ContentId = {k1, k2}
    BatchLimit = 1
    MaxFaults = 1
INVARIANTS DamageExplained
PROPERTIES RequestsFinish OrphansCollected
