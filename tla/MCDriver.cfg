SPECIFICATION MCSpec
CONSTANTS
    Spelling <- MCSpelling
    DirectPath <- MCDirectPath
    DefaultRoots <- MCDefaultRoots
    Directories <- MCDirectories
    Trees <- MCTrees
    CommandLines <- MCCommandLines
INVARIANTS
    OutputsAreComplete
    FailureLeavesOnePartial
    DepFileListsSources
    JavaIsJudged
CHECK_DEADLOCK FALSE
