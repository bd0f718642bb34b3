CONSTANTS
    Cases <- CasesDef
    MaxEntries = 24
SPECIFICATION Spec
INVARIANTS
    WalksAgree AllPointersSent QueriesAreReachability
CHECK_DEADLOCK FALSE
