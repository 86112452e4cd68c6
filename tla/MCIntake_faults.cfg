CONSTANTS
    None = None
    m1 = m1
    m2 = m2
    i1 = i1
    i2 = i2
    batch = batch
    junk = junk
    r1 = r1
    r2 = r2
    Messages <- AllMessages
    Ids <- AllIds
    IdOf <- OwnIds
    Deliveries <- AllDeliveries
    Carries <- CarriesAll
    Verdict <- VerdictAll
    Requests <- TwoRequests
    MaxFails = 2
    MaxLost = 1
    MaxCrashes = 1
    MaxExpiries = 1
    MaxRepeats = 1
SPECIFICATION FairSpec
CHECK_DEADLOCK FALSE
INVARIANTS
    ClaimsAreHonoured
    EachLossIsAFault
PROPERTIES
    EventuallyTold
