\* Two leads, one logout, reviews that are approved.
SPECIFICATION Spec
CONSTANTS
    MaxLeads = 2
    MaxLogouts = 1
    MaxChanges = 3
INVARIANTS
    TypeOK
    DoneOnce
    LoadingIsWatched
    ResultIsOfThread
PROPERTIES
    NoOlderStatus
    ViewIsReleased
CHECK_DEADLOCK FALSE
