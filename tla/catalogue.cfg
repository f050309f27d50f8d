SPECIFICATION Spec
CONSTANTS
    Items = {i1}
    Services <- MCServices
    Prices <- MCPrices
    Descriptions <- MCDescriptions
    Bodies <- MCBodies
    Ingested <- MCIngested
    Clients = {c1, c2}
    Slots = {s1}
    MaxPatches = 3
    MaxUpserts = 2
    MaxWipes = 1
    MaxCrashes = 1
    Faults = {"request_lost", "embedding_fails"}
INVARIANTS
    TypeOK
    VectorFollowsRow
    AuditExplainsRows
PROPERTIES
    VectorCatchesUp
CHECK_DEADLOCK FALSE
