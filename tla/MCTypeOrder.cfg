SPECIFICATION FairSpec
CONSTANTS
    Types <- MCTypes
    RootScope = "root"
    Programs <- MCPrograms
    NoType = NoType
INVARIANTS
    OrderIsLinear PrintedIsCycle ScopesAreKnown TypesAreDefinedFirst
CHECK_DEADLOCK FALSE
