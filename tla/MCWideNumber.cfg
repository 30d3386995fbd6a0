SPECIFICATION FairSpec
CONSTANTS
    MaxOffers = 1
    MaxRepeats = 1
    Payee = payee
    Payer = {p1}
    Seqnum = {1}
    WideSeqnum = {1}
    Debtor = {"usd", "eur"}
    Amount = {0, 1}
    TransferId = {1, 2}
    None = None
    Announced <- MCAnnounced
    ClientRequest <- MCClientRequest
PROPERTY OrdersGetOutcome
CHECK_DEADLOCK FALSE
