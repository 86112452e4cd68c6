CONSTANTS
    c1 = c1
    c2 = c2
    p1 = p1
    p2 = p2
    composition = composition
    grading = grading
    Nobody = Nobody
    Calls <- TwoCalls
    Providers <- TwoProviders
    Tasks <- TwoTasks
    Primary <- FirstChoice
    Failover <- SecondChoice
    Threshold = 2
    ResetTicks = 2
    Retries = 1
    MaxStreak = 3
SPECIFICATION RouterFairSpec
INVARIANTS
    OpenAfterOutage
    FailsOverWhatIsTheirs
PROPERTIES
    RecoversToPrimary
