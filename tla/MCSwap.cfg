SPECIFICATION Spec
CONSTANTS
    MaxOffers = 1
    MaxRepeats = 1
    Payee = payee
    Payer = {p1, p2}
    Seqnum = {1}
    WideSeqnum = {}
    Debtor = {"usd", "eur"}
    Amount = {0, 1}
    TransferId = {1, 2}
    None = None
    Announced <- MCAnnounced
    ClientRequest <- MCClientRequest
SYMMETRY Symmetry
ACTION_CONSTRAINT PromptOutbox
INVARIANTS
    TypeOK
    UnfinalizedHasOffer
    OfferSettledOnce
    CommitXorDismiss
    MoneyMatchesPayments
    ReciprocalComesLast
PROPERTY KeepsContract
CHECK_DEADLOCK FALSE
