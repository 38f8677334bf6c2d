SPECIFICATION Spec
CONSTANTS
    Members = 5
    MaxCandidates = 2
    MaxScore = 3
    None = None
INVARIANTS
    TypeOK
    ProposalIsBest
    GivesUpWhenExhausted
CHECK_DEADLOCK FALSE
