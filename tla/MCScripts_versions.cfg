SPECIFICATION Spec
CONSTANTS
    e1 = e1  e2 = e2
    Edits = {e1, e2}
    Convs = {"c"}
    Bodies <- MCBodies
    FileScript <- MCFile
    Turns <- MCTurns
    MaxVersions = 2
    Threshold = 0
    None = None  Raised = Raised
SYMMETRY MCSymmetry
INVARIANTS
    ServesWhatWasPublished
    LoopIsBounded
    QuestionIsResumed
