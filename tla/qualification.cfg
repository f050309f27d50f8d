\* Deployed settings: 2 retries, threshold 0.55, distance 0.80, 3 deliveries.
SPECIFICATION Spec
CONSTANTS
    MaxRetryCount = 2
    Scale = 20
    EvaluatorThreshold = 11
    MapperMaxDistance = 16
    DeliveryMaxAttempts = 3
    Distances <- MCDistances
    MaxServices = 3
    RecursionLimit = 25
INVARIANTS
    TypeOK
    ReviewAgreesWithRouting
    QuotedIffCompleted
    QuoteIsJustified
    RetriesAreAccounted
    ReviewIsLastResort
    DeliveriesAreBounded
    RecursionOnlyWithoutText
    ErrorIsExplained
PROPERTIES
    ImplementsLifecycle
    JobsEnd
