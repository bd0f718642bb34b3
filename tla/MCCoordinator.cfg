SPECIFICATION MCSpec
CONSTANTS
    Packages <- MCPackages
    MaxName = 3
    Inners = {T}
    NoInner = NoInner
    BasePackage <- MCBasePackage
    RootA = RootA
    RootBase = RootBase
    Roots <- MCRoots
    NoRoot = NoRoot
    NoFile = NoFile
    Repos <- MCRepos
    Requests <- MCRequests
INVARIANTS
    RecursionIsGuarded
    AstsStayAlive
    VerdictsAreRight
    RulesHold
    FirstTargetIsIntact
PROPERTIES
    StickyVerdict
    Termination
