SPECIFICATION Spec
CONSTANTS
    Hash <- MCHash
    Chunk <- MCChunk
    ChunksOf <- MCChunksOf
    None = None
    Timer = {t}
    Worker = {w1, w2}
    FileId = {f1, f2, f3}
    ContentId = {k1, k2}
    BatchLimit = 2
    MaxFaults = 0
SYMMETRY IdsAndWorkers
INVARIANTS LiveFilesReadable
