------------------------------- MODULE Models -------------------------------
(***************************************************************************)
(* The database rows of swpt_payments (models.py): formal offers, payment  *)
(* orders, payment proofs, and the signals that a transaction inserts      *)
(* together with them.  All rows belong to one payee: payee_creditor_id is *)
(* a part of every primary key and of every query, so the rows of two      *)
(* payees never meet.                                                      *)
(*                                                                         *)
(* Left out, because no decision of the service reads them: descriptions,  *)
(* payer notes, proof secrets, proof numbers and creation times.           *)
(***************************************************************************)
EXTENDS Integers

CONSTANTS
    MaxOffers,    \* bound on the number of offers ever created
    Payee,        \* the creditor that makes the offers
    Payer,        \* the creditors that issue payment orders
    Seqnum,       \* values of payer_payment_order_seqnum, 64 bits wide
    WideSeqnum,   \* those that do not fit into a column of 32 bits
    Debtor,       \* the debtors whose currencies are used
    Amount,       \* the amounts that occur in offers
    TransferId,   \* the numbers the accounts service gives to transfers
    None          \* NULL

ASSUME BoundAssumption == MaxOffers \in Nat

ASSUME AmountAssumption == Amount \subseteq Nat

OfferId == 1..MaxOffers

Creditor == Payer \cup {Payee}

\* The primary key of a payment order (without the payee).
OrderKey == [offer : OfferId, payer : Payer, seqnum : Seqnum]

\* An amount that is due through a debtor.
Payment == [debtor : Debtor, amount : Amount]

\* What the payee announces: the payments that each would settle the offer,
\* and the reciprocal payment (none when its amount is zero).
OfferTerms == [options : SUBSET Payment, reciprocal : Payment]

\* "expired" stands for the comparison of valid_until_ts with the clock.
FormalOffer ==
    [options : SUBSET Payment, reciprocal : Payment, expired : BOOLEAN]

\* A payment order may need two transfers: the payment proper, from payer to
\* payee, and the reciprocal payment, from payee to payer.
Leg == {"payment", "reciprocal"}

\* "request" is payment_coordinator_request_id, "transfer" holds
\* payment_transfer_id and reciprocal_payment_transfer_id, and "finalized"
\* says whether finalized_at_ts has been set.
PaymentOrder ==
    [terms     : [Leg -> Payment],
     request   : Nat \ {0},
     transfer  : [Leg -> TransferId \cup {None}],
     finalized : BOOLEAN]

PaymentProof == [order : OrderKey, terms : [Leg -> Payment]]

\* What identifies a prepared transfer to the accounts service.
TransferKey == [debtor : Debtor, sender : Creditor, id : TransferId]

----------------------------------------------------------------------------
(* Signals: rows of the outbox.                                            *)

FailureReason ==
    {"PAY001", "PAY002", "PAY003", "PAY004", "PAY005", "PAY006", "rejected"}

CreatedFormalOfferSignal == [type : {"created_formal_offer"}, offer : OfferId]

CanceledFormalOfferSignal == [type : {"canceled_formal_offer"}, offer : OfferId]

FailedReciprocalPaymentSignal ==
    [type : {"failed_reciprocal_payment"}, offer : OfferId]

SuccessfulPaymentSignal ==
    [type : {"successful_payment"}, order : OrderKey, terms : [Leg -> Payment]]

FailedPaymentSignal ==
    [type : {"failed_payment"}, order : OrderKey, reason : FailureReason]

\* The request number is negative for a reciprocal payment.
PrepareTransferSignal ==
    [type      : {"prepare_transfer"},
     request   : Int \ {0},
     debtor    : Debtor,
     sender    : Creditor,
     recipient : Creditor,
     amount    : Amount]

\* A committed amount of zero dismisses the transfer.
FinalizePreparedTransferSignal ==
    [type      : {"finalize_prepared_transfer"},
     transfer  : TransferKey,
     committed : Amount \cup {0}]

Signal ==
    CreatedFormalOfferSignal \cup CanceledFormalOfferSignal
      \cup FailedReciprocalPaymentSignal \cup SuccessfulPaymentSignal
      \cup FailedPaymentSignal \cup PrepareTransferSignal
      \cup FinalizePreparedTransferSignal

\* Two different pending rows of one type have the same primary key.  A row
\* equal to a pending one clashes with it too, unless its key is the
\* autoincremented signal_id of FinalizePreparedTransferSignal.
SamePrimaryKey(s, t) ==
    /\ s.type = t.type
    /\ \/ /\ s.type \in {"created_formal_offer", "canceled_formal_offer",
                         "failed_reciprocal_payment"}
          /\ s.offer = t.offer
       \/ /\ s.type \in {"successful_payment", "failed_payment"}
          /\ s.order = t.order
       \/ /\ s.type = "prepare_transfer"
          /\ s.request = t.request

----------------------------------------------------------------------------
ASSUME NoneAssumption ==
    /\ None \notin FormalOffer
    /\ None \notin PaymentOrder
    /\ None \notin TransferId
    /\ None \notin Debtor
=============================================================================
