CONSTANTS
    Providers <- TwoProviders
    Routing <- RoutingYaml
    Nobody <- NoCandidate
    Unwritten = "anthropic"
    CaseTurns <- TwoCases
    Times = 1
    MaxOutages = 3
SPECIFICATION Spec
CHECK_DEADLOCK FALSE
INVARIANTS
    NobodyGradesTheirOwn
    PassedWasJudged
    SubstitutionIsNamed
