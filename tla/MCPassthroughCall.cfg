CONSTANTS
    Calls <- MCCalls
    Before <- MCBefore
    Requests <- MCRequests
    Limit = 2
SPECIFICATION FairSpec
INVARIANTS
    NullIsReported
    QueueIsSound
PROPERTY
    AcceptedIsRun
