SPECIFICATION Spec
CONSTANTS
    ann = ann  bob = bob  t1 = t1  t2 = t2  r1 = r1  r2 = r2
    Tenants = {t1, t2}
    Agents = {ann, bob}
    AgentTenant <- MCAgentTenant
    Requests = {r1, r2}
    Floor = 4  MaxScore = 10
    WorkFloor = 2  WorkFactors = {1, 3}
    Changes <- MCChanges
    Uploads <- MCUploads
    MaxLogo = 8
    TTL = 1  MaxTime = 1  MaxTokens = 1  MaxCommits = 2
    None = None
SYMMETRY MCSymmetry
CHECK_DEADLOCK FALSE
INVARIANTS
    OwnAgentsOnly
    AuditIsTheHistory
