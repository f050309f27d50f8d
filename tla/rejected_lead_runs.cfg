SPECIFICATION Spec
CONSTANTS
    MaxRetryCount = 1
    Scale = 1
    EvaluatorThreshold = 1
    MapperMaxDistance = 1
    DeliveryMaxAttempts = 2
    Distances <- MCDistances
    MaxServices = 1
    Threads = {t1}
    Operators = {o1, o2}
    MaxJobs = 1
    MaxSubmissions = 1
    MaxCrashes = 0
    Faults = {}
INVARIANTS
    RejectionIsFinal
CHECK_DEADLOCK FALSE
