CONSTANTS
    w1 = w1
    w2 = w2
    n1 = n1
    n2 = n2
    Nobody = Nobody
    Workers <- TwoWorkers
    Names <- TwoNames
    NameOf <- OwnNames
    BatchSize = 2
    MaxAttempts = 2
    MaxLen = 1
    MaxEntries = 2
    MaxCrashes = 1
SPECIFICATION FairSpec
INVARIANTS
    TypeOK
    AckedAfterWork
    NothingLost
    RetriesAreBounded
PROPERTIES
    KeepsTheQueuePromise
    EventuallySettled
