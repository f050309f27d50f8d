SPECIFICATION Spec
CONSTANTS
    MaxRetryCount = 1
    Scale = 1
    EvaluatorThreshold = 1
    MapperMaxDistance = 1
    DeliveryMaxAttempts = 2
    Distances <- MCDistances
    MaxServices = 1
    Threads = {t1}
    Operators = {o1}
    MaxJobs = 1
    MaxSubmissions = 2
    MaxCrashes = 1
    Faults = {"timeout", "worker_crash", "api_crash", "checkpointer"}
INVARIANTS
    CompletedIsQuoted
    QuotesAreAccounted
    WorkerNeverStuck
CHECK_DEADLOCK FALSE
