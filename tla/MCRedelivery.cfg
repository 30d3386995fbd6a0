SPECIFICATION Spec
CONSTANTS
    MaxOffers = 1
    MaxRepeats = 2
    Payee = payee
    Payer = {p1}
    Seqnum = {1}
    WideSeqnum = {}
    Debtor = {"usd", "eur"}
    Amount = {0, 1}
    TransferId = {1, 2}
    None = None
    Announced <- MCAnnounced
    ClientRequest <- MCClientRequest
INVARIANTS
    OneOutcomePerOrder
    CommitXorDismiss
    AssertionsHold
    QuiescentIsSettled
PROPERTY RecordedIsKept
CHECK_DEADLOCK FALSE
