SPECIFICATION Spec
CONSTANTS
    Request = {r1, r2}
    Kind = {"part", "status", "complete", "abort"}
    ChunkCount = 2
    Version = {v1}
    Manner = {"serial", "patient", "any"}
    MaxFiles = 2
    MaxFaults = 1
    Failing <- MCFailing
    None = None
SYMMETRY Requests
CONSTRAINT Focus
INVARIANTS WholeOrEmpty  AckedKept
