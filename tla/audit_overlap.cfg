\* Two sessions of a tenant edit one item; nothing fails.
SPECIFICATION Spec
CONSTANTS
    Items = {i1}
    Services <- MCServices
    Prices <- MCPrices
    Descriptions <- MCDescriptions
    Bodies <- MCBodies
    Ingested <- MCIngested
    Clients = {c1, c2}
    Slots = {s1}
    MaxPatches = 2
    MaxUpserts = 1
    MaxWipes = 0
    MaxCrashes = 0
    Faults = {}
PROPERTIES
    EveryChangeIsTracked
CHECK_DEADLOCK FALSE
