SPECIFICATION FairSpec
CONSTANTS
    Width <- MCWidth
    Programs <- MCPrograms
    NoValue = NoValue
INVARIANTS
    TypeOK EvaluatedFirst AcyclicVerdict BackwardNamesMeanOwn ValuesAreRight
