CONSTANTS
    w1 = w1
    n1 = n1
    n2 = n2
    Nobody = Nobody
    Workers <- OneWorker
    Names <- AllNames
    NameOf <- SingleName
    MaxAttempts = 2
    BatchSize = 2
    MaxEntries = 2
    MaxLen = 3
    MaxCrashes = 1
    Capacity = 3
    Refill = 1
    Cost = 2
    MaxLag = 1
    MaxSkew = 2
    MaxReboots = 1
    BlockTicks = 3
SPECIFICATION SendSpec
PROPERTIES
    RateIsKept
    SendImplementsConsumer
