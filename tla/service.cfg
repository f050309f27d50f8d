SPECIFICATION Spec
CONSTANTS
    MaxRetryCount = 1
    Scale = 1
    EvaluatorThreshold = 1
    MapperMaxDistance = 1
    DeliveryMaxAttempts = 2
    Distances <- MCDistances
    MaxServices = 1
    Threads = {t1, t2}
    Operators = {o1}
    MaxJobs = 3
    MaxSubmissions = 1
    MaxCrashes = 0
    Faults = {}
INVARIANTS
    TypeOK
    NothingStranded
    OneWriterPerThread
    RejectionIsFinal
PROPERTIES
    DecisionSurvives
    ImplementsLifecycle
    LeadsAreAnswered
CHECK_DEADLOCK FALSE
