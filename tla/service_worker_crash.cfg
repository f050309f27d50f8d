SPECIFICATION Spec
CONSTANTS
    MaxRetryCount = 1
    Scale = 1
    EvaluatorThreshold = 1
    MapperMaxDistance = 1
    DeliveryMaxAttempts = 2
    Distances <- MCDistances
    MaxServices = 1
    Threads = {t1}
    Operators = {}
    MaxJobs = 2
    MaxSubmissions = 2
    MaxCrashes = 1
    Faults = {"worker_crash"}
INVARIANTS
    NothingStranded
PROPERTIES
    LeadsAreAnswered
CHECK_DEADLOCK FALSE
