------------------------------ MODULE Payments ------------------------------
(***************************************************************************)
(* The transactions of the service (procedures.py) on the tables of one    *)
(* payee.  Every @atomic procedure is one action here: it runs in one      *)
(* database transaction, on rows that it holds locked.  A procedure that   *)
(* raises (a failed assertion, .one() on a missing row, a primary key that *)
(* is taken) is rolled back, so the action is not enabled.                 *)
(*                                                                         *)
(* A definition that a comment calls a mistake is no part of the model: it *)
(* is what a slip in the code would make of the definition it stands       *)
(* before, and shows that a property would notice.                         *)
(***************************************************************************)
EXTENDS Signalbus, FiniteSets

VARIABLES
    offers,        \* table formal_offer
    orders,        \* table payment_order
    proofs,        \* table payment_proof
    lastOffer,     \* the sequence that numbers offers
    lastRequest    \* payment_coordinator_request_id_seq

tables == <<offers, orders, proofs, lastOffer, lastRequest>>

PaymentsInit ==
    /\ offers = [f \in OfferId |-> None]
    /\ orders = [k \in OrderKey |-> None]
    /\ proofs = {}
    /\ lastOffer = 0
    /\ lastRequest = 0

----------------------------------------------------------------------------
(* The rows that the procedures look up.                                   *)

Placed(k) == orders[k] # None

IsUnfinalized(k) == Placed(k) /\ ~orders[k].finalized

\* Mistake: only the orders that hold a transfer are looked for.
UnfinalizedHolding(f) ==
    {k \in OrderKey : /\ k.offer = f
                      /\ IsUnfinalized(k)
                      /\ orders[k].transfer["payment"] # None}

Unfinalized(f) == {k \in OrderKey : k.offer = f /\ IsUnfinalized(k)}

Abs(n) == IF n < 0 THEN -n ELSE n

LegOf(request) == IF request < 0 THEN "reciprocal" ELSE "payment"

\* The orders with a given coordinator_request_id: at most one.
Found(request) == {k \in OrderKey : Placed(k) /\ orders[k].request = Abs(request)}

\* Who pays and who receives in each leg.
Sender(k, leg) == IF leg = "payment" THEN k.payer ELSE Payee

Recipient(k, leg) == IF leg = "payment" THEN Payee ELSE k.payer

----------------------------------------------------------------------------
(* The rows that the procedures build.                                     *)

\* Mistake: the sequence starts with zero.
SameRequest == lastRequest

NextRequest == lastRequest + 1

NewOrder(request, payment, reciprocal) ==
    [terms     |-> [leg \in Leg |-> IF leg = "payment" THEN payment ELSE reciprocal],
     request   |-> request,
     transfer  |-> [leg \in Leg |-> None],
     finalized |-> FALSE]

Finalized(po) == [po EXCEPT !.finalized = TRUE]

FailedPayment(k, reason) ==
    [type |-> "failed_payment", order |-> k, reason |-> reason]

\* Mistake: both legs are asked for under the same request number.
UnsignedRequest(po, leg) == po.request

RequestNumber(po, leg) == IF leg = "payment" THEN po.request ELSE -po.request

PrepareTransferRow(k, po, leg) ==
    [type      |-> "prepare_transfer",
     request   |-> RequestNumber(po, leg),
     debtor    |-> po.terms[leg].debtor,
     sender    |-> Sender(k, leg),
     recipient |-> Recipient(k, leg),
     amount    |-> po.terms[leg].amount]

Finalization(transfer, committed) ==
    [type      |-> "finalize_prepared_transfer",
     transfer  |-> transfer,
     committed |-> committed]

\* The legs whose transfer the order has recorded.
Held(po) == {leg \in Leg : po.transfer[leg] # None}

HeldTransfer(k, po, leg) ==
    [debtor |-> po.terms[leg].debtor,
     sender |-> Sender(k, leg),
     id     |-> po.transfer[leg]]

----------------------------------------------------------------------------
(* _abort_payment_order, _execute_payment_order and                        *)
(* _try_to_finalize_payment_order.  "po" is the order's row as the current *)
(* transaction has changed it so far.                                      *)

\* Mistake: the transfer that the order holds is not dismissed.
AbortRowsOnly(k, po, reason) == {FailedPayment(k, reason)}

AbortRows(k, po, reason) ==
    {Finalization(HeldTransfer(k, po, leg), 0) : leg \in Held(po)}
      \cup {FailedPayment(k, reason)}

\* Mistake: the payers of the aborted orders are not told.
AbortAllSilently(ks) ==
    UNION {AbortRows(k, orders[k], "PAY004") \ {FailedPayment(k, "PAY004")} : k \in ks}

\* The transaction that deletes an offer aborts the orders that are left.
AbortAllRows(ks) == UNION {AbortRows(k, orders[k], "PAY004") : k \in ks}

FinalizeAll(ks) ==
    [k \in OrderKey |-> IF k \in ks THEN Finalized(orders[k]) ELSE orders[k]]

\* Mistake: the reciprocal transfer is not committed.
CommitPaymentOnly(k, po) ==
    {Finalization(HeldTransfer(k, po, leg), po.terms[leg].amount)
       : leg \in Held(po) \ {"reciprocal"}}

CommitRows(k, po) ==
    {Finalization(HeldTransfer(k, po, leg), po.terms[leg].amount) : leg \in Held(po)}

SuccessRow(k, po) ==
    [type |-> "successful_payment", order |-> k, terms |-> po.terms]

\* Mistake: the offer is not deleted.
OfferKept(f) == offers

WithoutOffer(f) == [offers EXCEPT ![f] = None]

\* The order is paid, and the other orders that were found pending fail.
PayAborting(losers, k, po) ==
    /\ offers[k.offer] # None
    /\ orders' = [FinalizeAll(losers) EXCEPT ![k] = Finalized(po)]
    /\ proofs' = proofs \cup {[order |-> k, terms |-> po.terms]}
    /\ offers' = WithoutOffer(k.offer)
    /\ Emit(CommitRows(k, po) \cup AbortAllRows(losers) \cup {SuccessRow(k, po)})

Execute(k, po) == PayAborting(Unfinalized(k.offer) \ {k}, k, po)

AwaitTransfer(k, po, leg) ==
    /\ orders' = [orders EXCEPT ![k] = po]
    /\ Emit({PrepareTransferRow(k, po, leg)})
    /\ UNCHANGED <<offers, proofs>>

\* Mistake: no reciprocal transfer for an order that costs nothing.
ShouldPreparePriced(po, leg) ==
    /\ po.transfer[leg] = None
    /\ po.terms[leg].amount > 0
    /\ po.terms["payment"].amount > 0

ShouldPrepare(po, leg) == po.transfer[leg] = None /\ po.terms[leg].amount > 0

\* Mistake: the reciprocal transfer is prepared first.
InReverseTurn(po, leg) == leg = "payment" => ~ShouldPrepare(po, "reciprocal")

\* The payment comes first.
InTurn(po, leg) == leg = "reciprocal" => ~ShouldPrepare(po, "payment")

TryToFinalize(k, po) ==
    \/ \E leg \in Leg :
         /\ ShouldPrepare(po, leg)
         /\ InTurn(po, leg)
         /\ AwaitTransfer(k, po, leg)
    \/ /\ \A leg \in Leg : ~ShouldPrepare(po, leg)
       /\ Execute(k, po)

----------------------------------------------------------------------------
(* create_formal_offer, cancel_formal_offer                                *)

CreateFormalOffer(terms) ==
    LET f == lastOffer + 1
    IN  /\ f \in OfferId
        /\ lastOffer' = f
        /\ offers' = [offers EXCEPT ![f] =
                        [options    |-> terms.options,
                         reciprocal |-> terms.reciprocal,
                         expired    |-> FALSE]]
        /\ Emit({[type |-> "created_formal_offer", offer |-> f]})
        /\ UNCHANGED <<orders, proofs, lastRequest>>

\* Mistake: the secret is not compared.
OfferExists(f, secret) == offers[f] # None

\* "m.secret" says whether the sender of m knows the secret of the offer.
OfferIsVisible(f, secret) == offers[f] # None /\ secret

\* The offer is withdrawn, and the orders that were found pending fail.
CancelAborting(losers, f) ==
    /\ orders' = FinalizeAll(losers)
    /\ offers' = WithoutOffer(f)
    /\ Emit(AbortAllRows(losers)
              \cup {[type |-> "canceled_formal_offer", offer |-> f]})
    /\ UNCHANGED <<proofs, lastOffer, lastRequest>>

CancelFormalOffer(m) ==
    \/ /\ OfferIsVisible(m.offer, m.secret)
       /\ CancelAborting(Unfinalized(m.offer), m.offer)
    \/ /\ ~OfferIsVisible(m.offer, m.secret)
       /\ EmitNothing
       /\ UNCHANGED tables

----------------------------------------------------------------------------
(* make_payment_order                                                      *)

\* Mistake: only pending orders are recognized.
IsPending(m) == IsUnfinalized(m.order)

\* The order has been recorded already: its message is delivered once more.
IsRedelivered(m) == Placed(m.order)

\* The columns payer_payment_order_seqnum have 32 bits only.
IsStorable(k) == k.seqnum \notin WideSeqnum

\* The order is turned down and no row is recorded for it.
Refuse(m, reason) ==
    /\ Emit({FailedPayment(m.order, reason)})
    /\ UNCHANGED tables

\* Mistake: the deadline is not looked at.
PlaceAnyway(m, po) == TryToFinalize(m.order, po)

\* An expired offer: the order is recorded as already failed.
PlaceExpired(m, po) ==
    /\ orders' = [orders EXCEPT ![m.order] = Finalized(po)]
    /\ Emit(AbortRows(m.order, po, "PAY006"))
    /\ UNCHANGED <<offers, proofs>>

MakePaymentOrder(m) ==
    LET f     == m.order.offer
        offer == offers[f]
        po    == NewOrder(NextRequest, m.payment, offer.reciprocal)
    IN  \/ /\ IsRedelivered(m)
           /\ EmitNothing
           /\ UNCHANGED tables
        \/ /\ ~IsRedelivered(m)
           /\ IsStorable(m.order)
           /\ \/ /\ ~OfferIsVisible(f, m.secret)
                 /\ Refuse(m, "PAY001")
              \/ /\ OfferIsVisible(f, m.secret)
                 /\ \A option \in offer.options : option.debtor # m.payment.debtor
                 /\ Refuse(m, "PAY002")
              \/ /\ OfferIsVisible(f, m.secret)
                 /\ \E option \in offer.options : option.debtor = m.payment.debtor
                 /\ m.payment \notin offer.options
                 /\ Refuse(m, "PAY003")
              \/ /\ OfferIsVisible(f, m.secret)
                 /\ m.payment \in offer.options
                 /\ lastRequest' = lastRequest + 1
                 /\ IF offer.expired THEN PlaceExpired(m, po)
                                     ELSE TryToFinalize(m.order, po)
                 /\ UNCHANGED lastOffer

----------------------------------------------------------------------------
(* process_prepared_payment_transfer_signal and                            *)
(* process_rejected_payment_transfer_signal                                *)

\* The assertions about the order that a prepared transfer is meant for.
Matches(k, m) ==
    LET leg == LegOf(m.request)
    IN  /\ m.transfer.debtor = orders[k].terms[leg].debtor
        /\ m.amount = orders[k].terms[leg].amount
        /\ m.transfer.sender = Sender(k, leg)
        /\ m.recipient = Recipient(k, leg)

\* Mistake: a transfer that is already recorded is overwritten.
AcceptsAny(k, leg) == ~orders[k].finalized

Accepts(k, leg) == orders[k].transfer[leg] = None /\ ~orders[k].finalized

\* Mistake: a repeated message is taken for one about a second transfer.
NeverRecorded(k, m) == FALSE

\* The transfer has been recorded already: its message is delivered once more.
IsRecorded(k, m) == orders[k].transfer[LegOf(m.request)] = m.transfer.id

AcceptTransfer(k, m) ==
    /\ TryToFinalize(k, [orders[k] EXCEPT !.transfer[LegOf(m.request)] = m.transfer.id])
    /\ UNCHANGED <<lastOffer, lastRequest>>

\* Mistake: a transfer that nobody waits for is left alone.
IgnoreTransfer(m) ==
    /\ EmitNothing
    /\ UNCHANGED tables

DismissTransfer(m) ==
    /\ Emit({Finalization(m.transfer, 0)})
    /\ UNCHANGED tables

ProcessPreparedTransfer(m) ==
    LET leg == LegOf(m.request)
    IN  \/ \E k \in Found(m.request) :
             /\ Matches(k, m)
             /\ \/ Accepts(k, leg) /\ AcceptTransfer(k, m)
                \/ /\ ~Accepts(k, leg)
                   /\ IsRecorded(k, m)
                   /\ EmitNothing
                   /\ UNCHANGED tables
                \/ /\ ~Accepts(k, leg)
                   /\ ~IsRecorded(k, m)
                   /\ DismissTransfer(m)
        \/ Found(m.request) = {} /\ DismissTransfer(m)

\* What the failure of a transfer is reported as: a failed reciprocal payment
\* is reported to the payee too.
RejectionRows(k, request) ==
    IF LegOf(request) = "reciprocal"
    THEN AbortRows(k, orders[k], "PAY005")
           \cup {[type |-> "failed_reciprocal_payment", offer |-> k.offer]}
    ELSE AbortRows(k, orders[k], "rejected")

\* Mistake: the rejection of a reciprocal transfer is not handled.
AbortsPayment(k, m) == IsUnfinalized(k) /\ LegOf(m.request) = "payment"

Aborts(k, m) == IsUnfinalized(k)

ProcessRejectedTransfer(m) ==
    \/ \E k \in Found(m.request) :
         /\ Aborts(k, m)
         /\ orders' = FinalizeAll({k})
         /\ Emit(RejectionRows(k, m.request))
         /\ UNCHANGED <<offers, proofs, lastOffer, lastRequest>>
    \/ /\ \A k \in Found(m.request) : ~Aborts(k, m)
       /\ EmitNothing
       /\ UNCHANGED tables

----------------------------------------------------------------------------
(* flush_payment_orders and flush_payment_proofs: the parameter is the set *)
(* of rows that are older than the cutoff.                                 *)

FlushPaymentOrders(old) ==
    /\ \A k \in old : Placed(k) /\ orders[k].finalized
    /\ orders' = [k \in OrderKey |-> IF k \in old THEN None ELSE orders[k]]
    /\ EmitNothing
    /\ UNCHANGED <<offers, proofs, lastOffer, lastRequest>>

FlushPaymentProofs(old) ==
    /\ proofs' = proofs \ old
    /\ EmitNothing
    /\ UNCHANGED <<offers, orders, lastOffer, lastRequest>>
=============================================================================
