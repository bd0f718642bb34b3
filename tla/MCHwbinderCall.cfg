CONSTANTS
    Calls <- MCCalls
    Before <- MCBefore
    Requests <- MCRequests
    Threads = 2
SPECIFICATION FairSpec
INVARIANT
    OkIsFinished
PROPERTIES
    KeepsContract
    CallsAreServed
