\* One file of two chunks, nobody but the stream.
SPECIFICATION Spec
CONSTANTS
    ChunkSize = 2
    Replies <- MCReplies
    Scale = 4
    ConfidenceThreshold = 3
    FlagThreshold = 2
    Reviewers = {}
    Impatient = {}
    RowCounts = {3}
    RecursionLimit = 25
    MaxCrashes = 0
    Faults = {}
INVARIANTS
    NoChunkIsLost
CHECK_DEADLOCK FALSE
