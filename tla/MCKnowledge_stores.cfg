SPECIFICATION KbSpec
CONSTANTS
    t1 = t1  t2 = t2  r1 = r1  r2 = r2
    Tenants = {t1, t2}
    Requests = {r1, r2}
    Docs = {1}
    Verticals = {"education"}
    Texts <- MCTexts
    MaxWrites = 2
    MaxFaults = 1
    Scores = {0, 1}
    Target = 10  OverlapBudget = 2  OversizeFactor = 2
    RrfK = 1  PerArm = 2  FinalK = 2  MinScore = 1
    Parts = 6
    Unscored = Unscored  Missing = Missing  NoText = NoText
SYMMETRY MCSymmetry
CHECK_DEADLOCK FALSE
INVARIANTS
    StoresFollowPostgres
    SearchIsSound
    ChunksAreSound
