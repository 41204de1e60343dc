CONSTANTS
    e1 = e1
    pass = pass
    r1 = r1
    None = None
    Event <- OneEvent
    Passer = pass
    Reviewer <- MCReviewer
    Threshold = 750
    Source <- PostOrTicket
    Found <- Nothing
    Venue <- Located
    Start <- Dated
    MaxEdits = 0
    MaxEvidence = 3
    MaxNotified = 2
SPECIFICATION Spec
INVARIANTS
    AnnouncedOnce
