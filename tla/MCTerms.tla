------------------------------- MODULE MCTerms -------------------------------
(***************************************************************************)
(* An offer on terms of every kind, and orders that fit it or not:         *)
(* an offer that costs nothing, one that costs nothing and pays the payer, *)
(* a choice between two debtors, a swap; orders with a wrong secret, a     *)
(* debtor that is not accepted or not given, an amount that is not asked   *)
(* for; and a payee that pays an offer of its own.                         *)
(***************************************************************************)
EXTENDS PaymentSystem

Due(d, n) == [debtor |-> d, amount |-> n]

MCAnnounced ==
    {[options |-> {Due("usd", 0)}, reciprocal |-> Due("usd", 0)],
     [options |-> {Due("usd", 0), Due("usd", 1)}, reciprocal |-> Due("eur", 2)],
     [options |-> {Due("usd", 1), Due("eur", 2)}, reciprocal |-> Due("usd", 0)]}

Order(f, p, secret, d, n) ==
    [type |-> "make_payment_order", order |-> [offer |-> f, payer |-> p, seqnum |-> 1],
     secret |-> secret, payment |-> Due(d, n)]

Cancel(f, secret) == [type |-> "cancel_formal_offer", offer |-> f, secret |-> secret]

\* A payer sends one of several orders; the payee may send one too.
MCClientRequest ==
    {Order(1, "p1", TRUE, "usd", 0), Order(1, "p1", TRUE, "usd", 1),
     Order(1, "p1", FALSE, "usd", 1), Order(1, "p1", TRUE, None, 1),
     Order(1, "p1", TRUE, "eur", 2), Order(1, Payee, TRUE, "usd", 1),
     Cancel(1, FALSE)}

\* The outbox is flushed right after each transaction, one signal type after
\* the other.
PromptOutbox ==
    LET pending == {type \in RequestType \cup EventType : Pending(type) # {}}
    IN  pending # {} => \E type \in {CHOOSE t \in pending : TRUE} : Pending(type)' = {}
=============================================================================
