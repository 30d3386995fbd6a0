--------------------------- MODULE MCTransactions ---------------------------
(***************************************************************************)
(* Two workers, an offer that is paid with nothing or with money, two      *)
(* payers who order it for the one or the other, and a payee who cancels.  *)
(***************************************************************************)
EXTENDS PaymentTransactions, TLC

Due(d, n) == [debtor |-> d, amount |-> n]

MCAnnounced == {[options |-> {Due("usd", 0), Due("usd", 1)}, reciprocal |-> Due("usd", 0)]}

Order(p, n) ==
    [type |-> "make_payment_order", order |-> [offer |-> 1, payer |-> p, seqnum |-> 1],
     secret |-> TRUE, payment |-> Due("usd", n)]

Cancel == [type |-> "cancel_formal_offer", offer |-> 1, secret |-> TRUE]

MCClientRequest == {Order(p, n) : p \in Payer, n \in Amount} \cup {Cancel}

\* One of the payers orders for nothing only.
MCFewerRequests == {Order("p1", n) : n \in Amount} \cup {Order("p2", 0), Cancel}

\* The outbox is flushed right after each transaction, one signal type after
\* the other.
PromptOutbox ==
    LET pending == {type \in RequestType \cup EventType : Pending(type) # {}}
    IN  pending # {} => \E type \in {CHOOSE t \in pending : TRUE} : Pending(type)' = {}

Symmetry == Permutations(Worker) \cup Permutations(Payer)
=============================================================================
