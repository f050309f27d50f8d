\* Reviewers who decide when asked, on files of none, two and three chunks;
\* the recursion limit fits two.  A restart, a client that leaves, a failing
\* checkpointer.
SPECIFICATION Spec
CONSTANTS
    ChunkSize = 2
    Replies <- MCAllReplies
    Scale = 4
    ConfidenceThreshold = 3
    FlagThreshold = 2
    Reviewers = {r1, r2}
    Impatient = {}
    RowCounts = {0, 3, 5}
    RecursionLimit = 5
    MaxCrashes = 1
    Faults = {"checkpointer", "disconnect"}
INVARIANTS
    TypeOK
    WrittenAsShown
    ExhaustedOnlyByLargeFiles
PROPERTIES
    EveryoneIsAnswered
CHECK_DEADLOCK FALSE
