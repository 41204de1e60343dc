CONSTANTS
    e1 = e1
    pass = pass
    r1 = r1
    None = None
    Event <- OneEvent
    Passer = pass
    Reviewer <- MCReviewer
    Threshold = 750
    Source <- PostOrTicket
    Found <- Exact
    Venue <- Unlocated
    Start <- Undated
    MaxEdits = 1
    MaxEvidence = 3
    MaxNotified = 2
SPECIFICATION Spec
INVARIANTS
    TypeOK
    SeededIsAnnounced
PROPERTIES
    EvidenceKeepsConfirmation
