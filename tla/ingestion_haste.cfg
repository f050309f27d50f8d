\* Two chunks, a reviewer who decides when asked and one who does not wait:
\* up to two runs of the thread beside the stream's.
SPECIFICATION Spec
CONSTANTS
    ChunkSize = 2
    Replies <- MCReplies
    Scale = 4
    ConfidenceThreshold = 3
    FlagThreshold = 2
    Reviewers = {r1, r2}
    Impatient = {r2}
    RowCounts = {0, 3}
    RecursionLimit = 5
    MaxCrashes = 1
    Faults = {"checkpointer", "disconnect"}
INVARIANTS
    EachChunkOnce
    WritesAreApproved
    SuccessMeansWritten
CHECK_DEADLOCK FALSE
