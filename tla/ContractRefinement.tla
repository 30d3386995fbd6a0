------------------------- MODULE ContractRefinement -------------------------
(***************************************************************************)
(* The payments service keeps its contract: what clients can conclude from *)
(* the signals it has emitted, and from its tables, changes only as        *)
(* OfferContract says.                                                     *)
(***************************************************************************)
EXTENDS PaymentSystem

WasPaid(f) == \E s \in Emitted("successful_payment") : s.order.offer = f

WasCanceled(f) == \E s \in Emitted("canceled_formal_offer") : s.offer = f

\* An offer that is gone without a signal is lost, which no offer may be.
OfferStatus(f) ==
    CASE f > lastOffer      -> "none"
      [] offers[f] # None   -> "open"
      [] WasPaid(f)         -> "paid"
      [] WasCanceled(f)     -> "canceled"
      [] OTHER              -> "lost"

Succeeded(k) == \E s \in Emitted("successful_payment") : s.order = k

Failed(k) == \E s \in Emitted("failed_payment") : s.order = k

\* An order that is final without an outcome is lost, which no order may be.
IsForgotten(k) == Placed(k) /\ orders[k].finalized /\ ~HasOutcome(k)

OrderStatus(k) ==
    CASE IsUnfinalized(k)   -> "pending"
      [] Succeeded(k)       -> "paid"
      [] Failed(k)          -> "failed"
      [] IsForgotten(k)     -> "lost"
      [] OTHER              -> "new"

\* What clients see of all offers and orders.
OfferView == [f \in OfferId |-> OfferStatus(f)]

OrderView == [k \in OrderKey |-> OrderStatus(k)]

Contract == INSTANCE OfferContract WITH offer <- OfferView, order <- OrderView

\* The service implements its contract.
KeepsContract == Contract!Spec
=============================================================================
