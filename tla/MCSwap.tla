------------------------------- MODULE MCSwap -------------------------------
(***************************************************************************)
(* One offer of a currency swap, for which two payers compete while the    *)
(* payee may cancel it.  Each account can prepare two transfers, so a      *)
(* repeated request does prepare a second one.                             *)
(***************************************************************************)
EXTENDS ContractRefinement, TLC

Due(d, n) == [debtor |-> d, amount |-> n]

MCAnnounced == {[options |-> {Due("usd", 1)}, reciprocal |-> Due("eur", 1)]}

Key(f, p, n) == [offer |-> f, payer |-> p, seqnum |-> n]

MCClientRequest ==
    {[type |-> "make_payment_order", order |-> Key(1, p, n), secret |-> TRUE,
      payment |-> Due("usd", 1)] : p \in Payer, n \in Seqnum}
    \cup {[type |-> "cancel_formal_offer", offer |-> 1, secret |-> TRUE]}

\* The outbox is flushed right after each transaction, one signal type after
\* the other.
PromptOutbox ==
    LET pending == {type \in RequestType \cup EventType : Pending(type) # {}}
    IN  pending # {} => \E type \in {CHOOSE t \in pending : TRUE} : Pending(type)' = {}

Symmetry == Permutations(Payer)
=============================================================================
