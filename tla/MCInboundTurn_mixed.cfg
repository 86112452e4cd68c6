CONSTANTS
    w1 = w1
    n1 = n1
    n2 = n2
    a1 = a1
    Nobody = Nobody
    NoAgent = NoAgent
    NoScript = NoScript
    Workers <- OneWorker
    Names <- AllNames
    NameOf <- SingleName
    Agents <- OneAgent
    Wordless <- SecondOne
    BatchSize = 1
    MaxAttempts = 2
    MaxLen = 2
    MaxEntries = 2
    MaxCrashes = 1
    MaxOpens = 1
    MaxReplies = 1
SPECIFICATION FairTurnSpec
INVARIANTS
    ThreadAndQueuesAgree
    SpeaksOverOnce
PROPERTIES
    ImplementsConsumer
    EventuallyAttended
