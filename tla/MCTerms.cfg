SPECIFICATION Spec
CONSTANTS
    MaxOffers = 1
    MaxRepeats = 0
    Payee = "payee"
    Payer = {"p1", "payee"}
    Seqnum = {1}
    WideSeqnum = {}
    Debtor = {"usd", "eur"}
    Amount = {0, 1, 2}
    TransferId = {1, 2}
    None = None
    Announced <- MCAnnounced
    ClientRequest <- MCClientRequest
ACTION_CONSTRAINT PromptOutbox
INVARIANT MoneyMatchesPayments
PROPERTIES
    PaidAsAgreed
    OnlyLateOrdersExpire
CHECK_DEADLOCK FALSE
