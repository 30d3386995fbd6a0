SPECIFICATION FairTransactionsSpec
CONSTANTS
    MaxOffers = 1
    MaxRepeats = 1
    Payee = "payee"
    Payer = {"p1", "p2"}
    Seqnum = {1}
    WideSeqnum = {}
    Debtor = {"usd"}
    Amount = {0, 1}
    TransferId = {1}
    None = None
    Worker = {w1, w2}
    Isolation = "read committed"
    Announced <- MCAnnounced
    ClientRequest <- MCFewerRequests
PROPERTY AllIsHandled
CHECK_DEADLOCK FALSE
