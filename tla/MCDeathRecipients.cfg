CONSTANTS
    Threads = {t1, t2}
    Recipients = {r1, r2}
    MaxLinks = 4
SPECIFICATION Spec
INVARIANTS LinkedIsRecorded LinksAreBalanced
PROPERTY DeathIsReported
CHECK_DEADLOCK FALSE
