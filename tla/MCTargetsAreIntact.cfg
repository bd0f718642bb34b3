CONSTANTS
    Packages <- MCPackages
    MaxName = 3
    Inners = {T}
    NoInner = NoInner
    BasePackage <- MCBasePackage
    RootA = RootA
    RootBase = RootBase
    Roots <- MCRoots
    NoRoot = NoRoot
    NoFile = NoFile
    Repos <- MCRepos
    Requests <- OtherPackageLast
SPECIFICATION Spec
INVARIANT
    TargetsAreIntact
