SPECIFICATION PayeeSpec
CONSTANTS
    Announcement = {1, 2}
    MaxOffers = 3
    MaxRepeats = 2
INVARIANTS
    RecordsAreTrue
    PaidOncePerAnnouncement
PROPERTY CancellationIsAnswered
CHECK_DEADLOCK FALSE
