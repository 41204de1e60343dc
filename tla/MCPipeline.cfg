CONSTANTS
    e1 = e1
    e2 = e2
    None = None
    Signal <- MCSignal
    Event <- MCEvent
    Item <- MCItem
    Limit <- MCLimit
    DefaultLimit = 1
SPECIFICATION Spec
SYMMETRY EventSymmetry
INVARIANTS
    TypeOK
    OneEvidencePerSignal
    OneQuestionPerSignal
    AttachedIsProcessed
    NothingLost
    References
    ApprovalHolds
PROPERTIES
    AnswersAreFinal
    EvidenceIsAuthoritative
    KeepsPromise
