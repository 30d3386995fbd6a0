-------------------------- MODULE Contract_proofs ---------------------------
(***************************************************************************)
(* The payments service implements OfferContract: every step of it is, for *)
(* the payee and the payers, an announcement, a submission, a refusal, a   *)
(* payment or a withdrawal, or nothing at all.                             *)
(***************************************************************************)
EXTENDS OfferSafety_proofs, OrderSafety_proofs

----------------------------------------------------------------------------
(* The status of an offer and of an order, now and after a step.           *)

LEMMA SettlementParts ==
    ASSUME NEW f
    PROVE  SettlementsOf(f) # {} <=> WasPaid(f) \/ WasCanceled(f)
  BY DEF SettlementsOf, WasPaid, WasCanceled

LEMMA SettlementPartsNext ==
    ASSUME NEW f
    PROVE  SettlementsOf(f)' # {} <=> WasPaid(f)' \/ WasCanceled(f)'
  BY DEF SettlementsOf, WasPaid, WasCanceled

LEMMA NeverBoth ==
    ASSUME OfferInvariant, NEW f \in OfferId
    PROVE  ~(WasPaid(f) /\ WasCanceled(f))
  BY DEF OfferInvariant, OfferSettledOnce, SettlementsOf, Emitted, WasPaid, WasCanceled

LEMMA NeverBothNext ==
    ASSUME OfferInvariant', NEW f \in OfferId
    PROVE  ~(WasPaid(f)' /\ WasCanceled(f)')
  BY DEF OfferInvariant, OfferSettledOnce, SettlementsOf, Emitted, WasPaid, WasCanceled

LEMMA OfferStatusNow ==
    ASSUME OfferInvariant, lastOffer \in Nat, NEW f \in OfferId
    PROVE  /\ f > lastOffer <=> OfferStatus(f) = "none"
           /\ offers[f] # None <=> OfferStatus(f) = "open"
           /\ WasPaid(f) <=> OfferStatus(f) = "paid"
           /\ WasCanceled(f) <=> OfferStatus(f) = "canceled"
           /\ OfferStatus(f) \in {"none", "open", "paid", "canceled", "lost"}
<1>1. /\ offers[f] # None \/ WasPaid(f) \/ WasCanceled(f) => ~(f > lastOffer)
      /\ WasPaid(f) \/ WasCanceled(f) => offers[f] = None
      /\ ~(WasPaid(f) /\ WasCanceled(f))
  BY NeverBoth, SettlementParts DEF OfferInvariant, OffersAreNumbered, OfferSettledOnce, OfferId
<1> QED
  BY <1>1 DEF OfferStatus

LEMMA OfferStatusNext ==
    ASSUME OfferInvariant', lastOffer' \in Nat, NEW f \in OfferId
    PROVE  /\ f > lastOffer' <=> OfferStatus(f)' = "none"
           /\ offers'[f] # None <=> OfferStatus(f)' = "open"
           /\ WasPaid(f)' <=> OfferStatus(f)' = "paid"
           /\ WasCanceled(f)' <=> OfferStatus(f)' = "canceled"
           /\ OfferStatus(f)' \in {"none", "open", "paid", "canceled", "lost"}
<1>1. /\ offers'[f] # None \/ WasPaid(f)' \/ WasCanceled(f)' => ~(f > lastOffer')
      /\ WasPaid(f)' \/ WasCanceled(f)' => offers'[f] = None
      /\ ~(WasPaid(f)' /\ WasCanceled(f)')
  BY NeverBothNext, SettlementPartsNext
  DEF OfferInvariant, OffersAreNumbered, OfferSettledOnce, OfferId
<1> QED
  BY <1>1 DEF OfferStatus

LEMMA OrderStatusNow ==
    ASSUME OutcomeInvariant, NEW k \in OrderKey
    PROVE  /\ IsUnfinalized(k) <=> OrderStatus(k) = "pending"
           /\ Succeeded(k) <=> OrderStatus(k) = "paid"
           /\ Failed(k) <=> OrderStatus(k) = "failed"
           /\ ~Placed(k) /\ ~HasOutcome(k) <=> OrderStatus(k) = "new"
           /\ OrderStatus(k) \in {"new", "pending", "paid", "failed"}
<1>1. HasOutcome(k) <=> Succeeded(k) \/ Failed(k)
  BY OutcomeParts
<1>2. ~(Succeeded(k) /\ Failed(k)) /\ (Placed(k) => (orders[k].finalized <=> HasOutcome(k)))
  BY DEF OutcomeInvariant, OneSuccess, FinalHasOutcome
<1> QED
  BY <1>1, <1>2 DEF OrderStatus, IsUnfinalized, IsForgotten

LEMMA OrderStatusNext ==
    ASSUME OutcomeInvariant', NEW k \in OrderKey
    PROVE  /\ IsUnfinalized(k)' <=> OrderStatus(k)' = "pending"
           /\ Succeeded(k)' <=> OrderStatus(k)' = "paid"
           /\ Failed(k)' <=> OrderStatus(k)' = "failed"
           /\ ~Placed(k)' /\ ~HasOutcome(k)' <=> OrderStatus(k)' = "new"
           /\ OrderStatus(k)' \in {"new", "pending", "paid", "failed"}
<1>1. HasOutcome(k)' <=> Succeeded(k)' \/ Failed(k)'
  BY OutcomePartsNext
<1>2. /\ ~(Succeeded(k)' /\ Failed(k)')
      /\ Placed(k)' => (orders'[k].finalized <=> HasOutcome(k)')
  BY DEF OutcomeInvariant, OneSuccess, FinalHasOutcome
<1> QED
  BY <1>1, <1>2 DEF OrderStatus, IsUnfinalized, IsForgotten

----------------------------------------------------------------------------
(* The steps of the contract, status by status.                            *)

\* The orders outside of "changed" are what they were for their payers.
OthersUnchanged(changed) ==
    \A k \in OrderKey \ changed : OrderStatus(k)' = OrderStatus(k)

LEMMA NothingChanges ==
    ASSUME \A f \in OfferId : OfferStatus(f)' = OfferStatus(f), OthersUnchanged({})
    PROVE  UNCHANGED Contract!contractVars
<1>1. OfferView' = OfferView
  BY DEF OfferView
<1>2. OrderView' = OrderView
  BY DEF OrderView, OthersUnchanged
<1> QED
  BY <1>1, <1>2 DEF Contract!contractVars

LEMMA AnnounceIntro ==
    ASSUME NEW f \in OfferId, OfferStatus(f) = "none", OfferStatus(f)' = "open",
           \A g \in OfferId \ {f} : OfferStatus(g)' = OfferStatus(g), OthersUnchanged({})
    PROVE  Contract!Next
<1>1. OfferView' = [OfferView EXCEPT ![f] = "open"] /\ OfferView[f] = "none"
  BY DEF OfferView
<1>2. OrderView' = OrderView
  BY DEF OrderView, OthersUnchanged
<1>3. Contract!Announce(f)
  BY <1>1, <1>2 DEF Contract!Announce
<1> QED
  BY <1>3 DEF Contract!Next

LEMMA SubmitIntro ==
    ASSUME NEW k \in OrderKey, OfferStatus(k.offer) = "open",
           \A f \in OfferId : OfferStatus(f)' = OfferStatus(f),
           OrderStatus(k) = "new", OrderStatus(k)' = "pending", OthersUnchanged({k})
    PROVE  Contract!Next
<1>1. OfferView' = OfferView /\ OfferView[k.offer] = "open"
  BY DEF OfferView, OrderKey
<1>2. OrderView' = [OrderView EXCEPT ![k] = "pending"] /\ OrderView[k] = "new"
  BY DEF OrderView, OthersUnchanged
<1>3. Contract!Submit(k)
  BY <1>1, <1>2 DEF Contract!Submit
<1> QED
  BY <1>3 DEF Contract!Next

LEMMA DeclineIntro ==
    ASSUME NEW k \in OrderKey, OfferStatus(k.offer) # "none",
           \A f \in OfferId : OfferStatus(f)' = OfferStatus(f),
           OrderStatus(k) \in {"new", "pending"}, OrderStatus(k)' = "failed",
           OthersUnchanged({k})
    PROVE  Contract!Next
<1>1. OfferView' = OfferView /\ OfferView[k.offer] # "none"
  BY DEF OfferView, OrderKey
<1>2. OrderView' = Contract!Fail({k}) /\ OrderView[k] \in {"new", "pending"}
  BY DEF OrderView, OthersUnchanged, Contract!Fail
<1>3. Contract!Decline(k)
  BY <1>1, <1>2 DEF Contract!Decline
<1> QED
  BY <1>3 DEF Contract!Next

LEMMA PayIntro ==
    ASSUME NEW k \in OrderKey, NEW losers,
           OfferStatus(k.offer) = "open", OfferStatus(k.offer)' = "paid",
           \A g \in OfferId \ {k.offer} : OfferStatus(g)' = OfferStatus(g),
           OrderStatus(k) \in {"new", "pending"}, OrderStatus(k)' = "paid",
           \A l \in OrderKey \ {k} :
             l \in losers <=> l.offer = k.offer /\ OrderStatus(l) = "pending",
           \A l \in losers \ {k} : OrderStatus(l)' = "failed",
           OthersUnchanged(losers \cup {k})
    PROVE  Contract!Next
<1>0. k.offer \in OfferId
  BY DEF OrderKey
<1>1. OfferView' = [OfferView EXCEPT ![k.offer] = "paid"] /\ OfferView[k.offer] = "open"
  BY <1>0 DEF OfferView
<1>2. \A l \in OrderKey \ {k} : OrderStatus(l)' = Contract!Fail(Contract!PendingOrders(k.offer))[l]
  BY DEF OrderView, OthersUnchanged, Contract!Fail, Contract!PendingOrders
<1>3. OrderView' = [Contract!Fail(Contract!PendingOrders(k.offer)) EXCEPT ![k] = "paid"]
  BY <1>2 DEF OrderView, Contract!Fail
<1>4. OrderView[k] \in {"new", "pending"}
  BY DEF OrderView
<1>5. Contract!Pay(k)
  BY <1>1, <1>3, <1>4 DEF Contract!Pay
<1> QED
  BY <1>5 DEF Contract!Next

LEMMA WithdrawIntro ==
    ASSUME NEW f \in OfferId, NEW losers,
           OfferStatus(f) = "open", OfferStatus(f)' = "canceled",
           \A g \in OfferId \ {f} : OfferStatus(g)' = OfferStatus(g),
           \A l \in OrderKey : l \in losers <=> l.offer = f /\ OrderStatus(l) = "pending",
           \A l \in losers : OrderStatus(l)' = "failed",
           OthersUnchanged(losers)
    PROVE  Contract!Next
<1>1. OfferView' = [OfferView EXCEPT ![f] = "canceled"] /\ OfferView[f] = "open"
  BY DEF OfferView
<1>2. OrderView' = Contract!Fail(Contract!PendingOrders(f))
  BY DEF OrderView, OthersUnchanged, Contract!Fail, Contract!PendingOrders
<1>3. Contract!Withdraw(f)
  BY <1>1, <1>2 DEF Contract!Withdraw
<1> QED
  BY <1>3 DEF Contract!Next

----------------------------------------------------------------------------
(* What the rows of a transaction tell the payee and the payers.           *)

\* What the system is known to preserve.
ContractInvariant ==
    /\ TypeOK
    /\ AgreementInvariant
    /\ OutcomeInvariant
    /\ OfferInvariant

CanceledIn(rows) == {s.offer : s \in {r \in rows : r.type = "canceled_formal_offer"}}

LEMMA RowsSettle ==
    ASSUME NEW rows, emitted' = emitted \cup rows, NEW f
    PROVE  /\ WasPaid(f)' <=> WasPaid(f) \/ \E k \in WonIn(rows) : k.offer = f
           /\ WasCanceled(f)' <=> WasCanceled(f) \/ f \in CanceledIn(rows)
<1>1. WasPaid(f)' <=> WasPaid(f) \/ \E k \in WonIn(rows) : k.offer = f
  BY DEF WasPaid, Emitted, WonIn
<1>2. WasCanceled(f)' <=> WasCanceled(f) \/ f \in CanceledIn(rows)
  BY DEF WasCanceled, Emitted, CanceledIn
<1> QED
  BY <1>1, <1>2

LEMMA OfferRests ==
    ASSUME ContractInvariant, ContractInvariant', NEW rows, emitted' = emitted \cup rows,
           NEW f \in OfferId, offers'[f] = None <=> offers[f] = None,
           f > lastOffer' <=> f > lastOffer,
           \A k \in WonIn(rows) : k.offer # f, f \notin CanceledIn(rows)
    PROVE  OfferStatus(f)' = OfferStatus(f)
<1>1. (WasPaid(f)' <=> WasPaid(f)) /\ (WasCanceled(f)' <=> WasCanceled(f))
  BY RowsSettle
<1>2. lastOffer \in Nat /\ lastOffer' \in Nat
  BY DEF ContractInvariant, TypeOK
<1> QED
  BY <1>1, <1>2, OfferStatusNow, OfferStatusNext DEF ContractInvariant

LEMMA OrderRests ==
    ASSUME ContractInvariant, ContractInvariant', NEW rows, emitted' = emitted \cup rows,
           NEW k \in OrderKey, IsUnfinalized(k)' <=> IsUnfinalized(k),
           k \notin WonIn(rows), k \notin LostIn(rows)
    PROVE  OrderStatus(k)' = OrderStatus(k)
<1>1. (Succeeded(k)' <=> Succeeded(k)) /\ (Failed(k)' <=> Failed(k))
  BY RowsTell
<1> QED
  BY <1>1, OrderStatusNow, OrderStatusNext DEF ContractInvariant

----------------------------------------------------------------------------
(* Every step of the system is a step of the contract, or none.            *)

Keeps == Contract!Next \/ UNCHANGED Contract!contractVars

\* A step that tells nobody anything, and leaves what is pending.
LEMMA SilentKeeps ==
    ASSUME ContractInvariant, ContractInvariant', lastOffer' = lastOffer,
           \A f \in OfferId : offers'[f] = None <=> offers[f] = None,
           \A k \in OrderKey : IsUnfinalized(k)' <=> IsUnfinalized(k),
           NEW rows, emitted' = emitted \cup rows,
           \A s \in rows : s.type \notin {"successful_payment", "failed_payment",
                                          "canceled_formal_offer"}
    PROVE  UNCHANGED Contract!contractVars
<1>1. WonIn(rows) = {} /\ LostIn(rows) = {} /\ CanceledIn(rows) = {}
  BY DEF WonIn, LostIn, CanceledIn
<1>2. \A f \in OfferId : OfferStatus(f)' = OfferStatus(f)
  BY <1>1, OfferRests
<1>3. \A k \in OrderKey : OrderStatus(k)' = OrderStatus(k)
  BY <1>1, OrderRests
<1> QED
  BY <1>2, <1>3, NothingChanges DEF OthersUnchanged

\* A step that inserts no signals.
LEMMA QuietKeeps ==
    ASSUME ContractInvariant, ContractInvariant', lastOffer' = lastOffer,
           \A f \in OfferId : offers'[f] = None <=> offers[f] = None,
           \A k \in OrderKey : IsUnfinalized(k)' <=> IsUnfinalized(k),
           emitted' = emitted
    PROVE  Keeps
<1> DEFINE rows == {}
<1>1. emitted' = emitted \cup rows /\ \A s \in rows : FALSE
  OBVIOUS
<1> HIDE DEF rows
<1> QED
  BY <1>1, SilentKeeps DEF Keeps

\* A step that tells that order k has failed, and nothing else.
LEMMA FailingKeeps ==
    ASSUME ContractInvariant, ContractInvariant', offers' = offers, lastOffer' = lastOffer,
           NEW k \in OrderKey, k.offer <= lastOffer, ~Succeeded(k),
           \A l \in OrderKey \ {k} : orders'[l] = orders[l],
           NEW rows, emitted' = emitted \cup rows,
           WonIn(rows) = {}, LostIn(rows) = {k}, CanceledIn(rows) = {}
    PROVE  Keeps
<1>1. \A f \in OfferId : OfferStatus(f)' = OfferStatus(f)
  BY OfferRests
<1>2. \A l \in OrderKey \ {k} : OrderStatus(l)' = OrderStatus(l)
  BY OrderRests DEF IsUnfinalized, Placed
<1>3. OrderStatus(k)' = "failed"
  <2>1. Failed(k)'
    BY RowsTell
  <2> QED
    BY <2>1, OrderStatusNext DEF ContractInvariant
<1>4. OrderStatus(k) \in {"new", "pending", "failed"}
  BY OrderStatusNow DEF ContractInvariant
<1>5. OfferStatus(k.offer) # "none"
  <2>1. k.offer \in OfferId /\ lastOffer \in Nat
    BY DEF OrderKey, ContractInvariant, TypeOK
  <2>2. ~(k.offer > lastOffer)
    BY <2>1 DEF OfferId
  <2> QED
    BY <2>1, <2>2, OfferStatusNow DEF ContractInvariant
<1>6. CASE OrderStatus(k) = "failed"
  <2>1. \A l \in OrderKey : OrderStatus(l)' = OrderStatus(l)
    BY <1>2, <1>3, <1>6
  <2> QED
    BY <1>1, <2>1, NothingChanges DEF OthersUnchanged, Keeps
<1>7. CASE OrderStatus(k) \in {"new", "pending"}
  BY <1>1, <1>2, <1>3, <1>5, <1>7, DeclineIntro DEF OthersUnchanged, Keeps
<1> QED
  BY <1>4, <1>6, <1>7

\* The order that an actor works on is new or pending, and so far no more.
LEMMA WorksStatus ==
    ASSUME ContractInvariant, NEW m \in queue, NEW k \in OrderKey, NEW po, Works(m, k, po)
    PROVE  /\ ~HasOutcome(k) /\ ~Succeeded(k)
           /\ Places(m, k, po) => OrderStatus(k) = "new"
           /\ Records(m, k, po) => OrderStatus(k) = "pending"
           /\ OfferStatus(k.offer) = "open"
           /\ k.offer <= lastOffer
<1>1. ~HasOutcome(k) /\ ~Succeeded(k)
  BY WorksUndecided DEF ContractInvariant
<1>2. k.offer \in OfferId /\ lastOffer \in Nat
  BY DEF OrderKey, ContractInvariant, TypeOK
<1>3. Places(m, k, po) => OrderStatus(k) = "new" /\ offers[k.offer] # None
  BY <1>1, OrderStatusNow DEF Places, OfferIsVisible, ContractInvariant
<1>4. Records(m, k, po) => IsUnfinalized(k)
  BY DEF Records, Found, Accepts, IsUnfinalized
<1>5. Records(m, k, po) => OrderStatus(k) = "pending" /\ offers[k.offer] # None
  BY <1>4, OrderStatusNow
  DEF ContractInvariant, OfferInvariant, UnfinalizedHasOffer
<1>6. offers[k.offer] # None
  BY <1>3, <1>5 DEF Works
<1>7. OfferStatus(k.offer) = "open" /\ k.offer <= lastOffer
  BY <1>2, <1>6, OfferStatusNow
  DEF ContractInvariant, OfferInvariant, OffersAreNumbered
<1> QED
  BY <1>1, <1>3, <1>5, <1>7

LEMMA RefusingKeeps ==
    ASSUME ContractInvariant, ContractInvariant', NEW m \in queue, Refusing(m)
    PROVE  Keeps
<1>1. PICK reason \in FailureReason : Acts(m, {FailedPayment(m.order, reason)})
  BY DEF Refusing
<1>2. /\ offers' = offers /\ orders' = orders /\ lastOffer' = lastOffer
      /\ ~Placed(m.order)
      /\ m.order \in OrderKey /\ IsOrderRequest(m)
      /\ m.type = "make_payment_order"
  BY DEF Refusing, tables, OrderRequest, IsOrderRequest
<1>3. m.order.offer <= lastOffer
  BY <1>2 DEF ContractInvariant, AgreementInvariant, QueuedAreIssued, IssuedAreNumbered, OfferOf
<1>4. ~Succeeded(m.order)
  BY <1>2, OutcomeParts DEF ContractInvariant, OutcomeInvariant, DecidedIsOver
<1> DEFINE rows == {FailedPayment(m.order, reason)}
<1>5. WonIn(rows) = {} /\ LostIn(rows) = {m.order} /\ CanceledIn(rows) = {}
  BY FailureRowsTell, FailedPaymentFields DEF CanceledIn
<1>6. emitted' = emitted \cup rows
  BY <1>1 DEF Acts
<1> HIDE DEF rows
<1> QED
  BY <1>2, <1>3, <1>4, <1>5, <1>6, FailingKeeps

LEMMA ExpiringKeeps ==
    ASSUME ContractInvariant, ContractInvariant', NEW m \in queue,
           NEW k \in OrderKey, NEW po \in PaymentOrder, Expiring(m, k, po)
    PROVE  Keeps
<1> DEFINE rows == {FailedPayment(k, "PAY006")}
<1>1. WonIn(rows) = {} /\ LostIn(rows) = {k} /\ CanceledIn(rows) = {}
  BY FailureRowsTell, FailedPaymentFields DEF CanceledIn
<1>2. /\ Works(m, k, po)
      /\ emitted' = emitted \cup rows
      /\ offers' = offers /\ lastOffer' = lastOffer
      /\ \A l \in OrderKey \ {k} : orders'[l] = orders[l]
  BY DEF Expiring, Acts, OthersStay
<1>3. ~Succeeded(k) /\ k.offer <= lastOffer
  BY <1>2, WorksStatus
<1> HIDE DEF rows
<1> QED
  BY <1>1, <1>2, <1>3, FailingKeeps

LEMMA RejectingKeeps ==
    ASSUME ContractInvariant, ContractInvariant', NEW m \in queue,
           NEW k \in OrderKey, Rejecting(m, k)
    PROVE  Keeps
<1> DEFINE rows == RejectionRows(k, m.request)
<1>1. WonIn(rows) = {} /\ LostIn(rows) = {k} /\ CanceledIn(rows) = {}
  BY RejectionRowsTell, RejectionRowTypes DEF CanceledIn
<1>2. /\ IsUnfinalized(k)
      /\ emitted' = emitted \cup rows
      /\ offers' = offers /\ lastOffer' = lastOffer
      /\ \A l \in OrderKey \ {k} : orders'[l] = orders[l]
  BY DEF Rejecting, Acts, OthersStay
<1>3. ~Succeeded(k)
  BY <1>2, UnfinalizedUndecided DEF ContractInvariant
<1>4. k.offer <= lastOffer
  BY <1>2 DEF ContractInvariant, OfferInvariant, UnfinalizedHasOffer, OffersAreNumbered, OrderKey
<1> HIDE DEF rows
<1> QED
  BY <1>1, <1>2, <1>3, <1>4, FailingKeeps

LEMMA AwaitingKeeps ==
    ASSUME ContractInvariant, ContractInvariant', NEW m \in queue,
           NEW k \in OrderKey, NEW po \in PaymentOrder, NEW leg \in Leg,
           Awaiting(m, k, po, leg)
    PROVE  Keeps
<1> DEFINE rows == {PrepareTransferRow(k, po, leg)}
<1>1. \A s \in rows : s.type = "prepare_transfer"
  BY DEF PrepareTransferRow
<1>2. /\ Works(m, k, po)
      /\ emitted' = emitted \cup rows
      /\ offers' = offers /\ lastOffer' = lastOffer
      /\ \A l \in OrderKey \ {k} : orders'[l] = orders[l]
      /\ IsUnfinalized(k)'
  BY DEF Awaiting, Acts, OthersStay, Pends, Holds, IsUnfinalized, Placed
<1> HIDE DEF rows
<1>3. WonIn(rows) = {} /\ LostIn(rows) = {} /\ CanceledIn(rows) = {}
  BY <1>1 DEF WonIn, LostIn, CanceledIn
<1>4. \A f \in OfferId : OfferStatus(f)' = OfferStatus(f)
  BY <1>2, <1>3, OfferRests
<1>5. \A l \in OrderKey \ {k} : OrderStatus(l)' = OrderStatus(l)
  BY <1>2, <1>3, OrderRests DEF IsUnfinalized, Placed
<1>6. OrderStatus(k)' = "pending"
  BY <1>2, OrderStatusNext DEF ContractInvariant
<1>7. CASE Places(m, k, po)
  BY <1>2, <1>4, <1>5, <1>6, <1>7, WorksStatus, SubmitIntro DEF OthersUnchanged, Keeps
<1>8. CASE Records(m, k, po)
  <2>1. \A l \in OrderKey : OrderStatus(l)' = OrderStatus(l)
    BY <1>2, <1>5, <1>6, <1>8, WorksStatus
  <2> QED
    BY <1>4, <2>1, NothingChanges DEF OthersUnchanged, Keeps
<1> QED
  BY <1>2, <1>7, <1>8 DEF Works

LEMMA ExecutingKeeps ==
    ASSUME ContractInvariant, ContractInvariant', NEW m \in queue,
           NEW k \in OrderKey, NEW po \in PaymentOrder, Executing(m, k, po)
    PROVE  Keeps
<1> DEFINE f    == k.offer
           rows == CommitRows(k, po) \cup AbortAllRows(Losers(k)) \cup {SuccessRow(k, po)}
<1>1. WonIn(rows) = {k} /\ LostIn(rows) = Losers(k) /\ CanceledIn(rows) = {}
  <2>1. WonIn(rows) = {k} /\ LostIn(rows) = Losers(k)
    BY ExecuteRowsTell
  <2>2. \A s \in rows : s.type # "canceled_formal_offer"
    BY CommitRowTypes, AbortAllRowTypes, SuccessRowFields, FailedPaymentFields
  <2> QED
    BY <2>1, <2>2 DEF CanceledIn
<1>2. /\ Works(m, k, po)
      /\ emitted' = emitted \cup rows
      /\ lastOffer' = lastOffer
      /\ offers[f] # None /\ offers'[f] = None
      /\ \A g \in OfferId \ {f} : offers'[g] = offers[g]
      /\ \A l \in OrderKey \ (Losers(k) \cup {k}) : orders'[l] = orders[l]
      /\ f \in OfferId
  BY DEF Executing, Acts, OthersStay, OfferGoes, OrderKey
<1> HIDE DEF rows
<1>3. OfferStatus(f) = "open" /\ OrderStatus(k) \in {"new", "pending"}
  BY <1>2, WorksStatus DEF Works
<1>4. Succeeded(k)' /\ WasPaid(f)'
  BY <1>1, <1>2, RowsTell, RowsSettle
<1>5. OfferStatus(f)' = "paid" /\ OrderStatus(k)' = "paid"
  BY <1>2, <1>4, OfferStatusNext, OrderStatusNext DEF ContractInvariant, TypeOK
<1>6. \A g \in OfferId \ {f} : OfferStatus(g)' = OfferStatus(g)
  BY <1>1, <1>2, OfferRests
<1>7. \A l \in Losers(k) : l \in OrderKey /\ OrderStatus(l)' = "failed"
  <2>1. \A l \in Losers(k) : l \in OrderKey /\ Failed(l)'
    BY <1>1, <1>2, RowsTell DEF Losers, Unfinalized
  <2> QED
    BY <2>1, OrderStatusNext DEF ContractInvariant
<1>8. \A l \in OrderKey \ {k} : l \in Losers(k) <=> l.offer = f /\ OrderStatus(l) = "pending"
  BY OrderStatusNow DEF Losers, Unfinalized, ContractInvariant
<1>9. OthersUnchanged(Losers(k) \cup {k})
  BY <1>1, <1>2, OrderRests DEF OthersUnchanged, IsUnfinalized, Placed
<1> QED
  BY <1>3, <1>5, <1>6, <1>7, <1>8, <1>9, PayIntro DEF Keeps

LEMMA CancelingKeeps ==
    ASSUME ContractInvariant, ContractInvariant', NEW m \in queue, Canceling(m)
    PROVE  Keeps
<1> DEFINE f    == m.offer
           ks   == Unfinalized(f)
           rows == AbortAllRows(ks) \cup {[type |-> "canceled_formal_offer", offer |-> f]}
<1>1. WonIn(rows) = {} /\ LostIn(rows) = ks /\ CanceledIn(rows) = {f}
  <2>1. WonIn(rows) = {} /\ LostIn(rows) = ks
    BY CancelRowsTell
  <2>2. \A s \in AbortAllRows(ks) : s.type # "canceled_formal_offer"
    BY AbortAllRowTypes, FailedPaymentFields
  <2> DEFINE row == [type |-> "canceled_formal_offer", offer |-> f]
  <2>3. row.type = "canceled_formal_offer" /\ row.offer = f /\ rows = AbortAllRows(ks) \cup {row}
    OBVIOUS
  <2> HIDE DEF ks, f, row, rows
  <2>4. {r \in rows : r.type = "canceled_formal_offer"} = {row}
    BY <2>2, <2>3
  <2>5. CanceledIn(rows) = {f}
    BY <2>3, <2>4 DEF CanceledIn
  <2> QED
    BY <2>1, <2>5
<1>2. /\ emitted' = emitted \cup rows
      /\ lastOffer' = lastOffer
      /\ offers[f] # None /\ offers'[f] = None
      /\ \A g \in OfferId \ {f} : offers'[g] = offers[g]
      /\ \A l \in OrderKey \ ks : orders'[l] = orders[l]
      /\ f \in OfferId
  BY DEF Canceling, Acts, OthersStay, OfferGoes, CancelRequest
<1>3. OfferStatus(f) = "open"
  BY <1>2, OfferStatusNow DEF ContractInvariant, TypeOK
<1>4. \A l \in OrderKey : l \in ks <=> l.offer = f /\ OrderStatus(l) = "pending"
  BY OrderStatusNow DEF Unfinalized, ContractInvariant
<1>5. ks \subseteq OrderKey
  BY DEF Unfinalized
<1> HIDE DEF rows, ks
<1>6. WasCanceled(f)'
  BY <1>1, <1>2, RowsSettle
<1>7. OfferStatus(f)' = "canceled"
  BY <1>2, <1>6, OfferStatusNext DEF ContractInvariant, TypeOK
<1>8. \A g \in OfferId \ {f} : OfferStatus(g)' = OfferStatus(g)
  BY <1>1, <1>2, OfferRests
<1>9. \A l \in ks : OrderStatus(l)' = "failed"
  <2>1. \A l \in ks : Failed(l)'
    BY <1>1, <1>2, RowsTell
  <2> QED
    BY <1>5, <2>1, OrderStatusNext DEF ContractInvariant
<1>10. OthersUnchanged(ks)
  BY <1>1, <1>2, OrderRests DEF OthersUnchanged, IsUnfinalized, Placed
<1> QED
  BY <1>2, <1>3, <1>4, <1>7, <1>8, <1>9, <1>10, WithdrawIntro DEF Keeps

LEMMA ActorKeeps ==
    ASSUME ContractInvariant, ContractInvariant', NEW m \in queue, ActorStep(m)
    PROVE  Keeps
<1>1. CASE Ignoring(m)
  <2>1. /\ emitted' = emitted /\ offers' = offers /\ lastOffer' = lastOffer
        /\ \A k \in OrderKey : IsUnfinalized(k)' <=> IsUnfinalized(k)
    BY <1>1 DEF Ignoring, Acts, tables, IsUnfinalized, Placed
  <2> QED
    BY <2>1, QuietKeeps
<1>2. CASE Dismissing(m)
  <2> DEFINE rows == {Finalization(m.transfer, 0)}
  <2>1. /\ emitted' = emitted \cup rows /\ offers' = offers /\ lastOffer' = lastOffer
        /\ \A k \in OrderKey : IsUnfinalized(k)' <=> IsUnfinalized(k)
    BY <1>2 DEF Dismissing, Acts, tables, IsUnfinalized, Placed
  <2>2. \A s \in rows : s.type = "finalize_prepared_transfer"
    BY DEF Finalization
  <2> HIDE DEF rows
  <2> QED
    BY <2>1, <2>2, SilentKeeps DEF Keeps
<1> QED
  BY <1>1, <1>2, RefusingKeeps, ExpiringKeeps, AwaitingKeeps, ExecutingKeeps,
     CancelingKeeps, RejectingKeeps DEF ActorStep

\* The new offer is open, and its number was not used before.
LEMMA CreatingKeeps ==
    ASSUME ContractInvariant, ContractInvariant', NEW terms, Creating(terms)
    PROVE  Keeps
<1>1. PICK f \in OfferId :
        /\ f = lastOffer + 1 /\ lastOffer' = f /\ lastOffer \in Nat
        /\ offers'[f] # None
        /\ \A g \in OfferId \ {f} : offers'[g] = offers[g]
        /\ orders' = orders
        /\ emitted' = emitted \cup {[type |-> "created_formal_offer", offer |-> f]}
  BY DEF Creating, ContractInvariant, TypeOK
<1> DEFINE rows == {[type |-> "created_formal_offer", offer |-> f]}
<1>2. WonIn(rows) = {} /\ LostIn(rows) = {} /\ CanceledIn(rows) = {}
  BY DEF WonIn, LostIn, CanceledIn
<1>3. emitted' = emitted \cup rows
  BY <1>1
<1> HIDE DEF rows
<1>4. OfferStatus(f) = "none"
  BY <1>1, OfferStatusNow DEF ContractInvariant
<1>5. OfferStatus(f)' = "open"
  BY <1>1, OfferStatusNext DEF ContractInvariant
<1>6. ASSUME NEW g \in OfferId, g # f
      PROVE  OfferStatus(g)' = OfferStatus(g)
  <2>1. g > lastOffer' <=> g > lastOffer
    BY <1>1, <1>6 DEF OfferId
  <2> QED
    BY <1>1, <1>2, <1>3, <1>6, <2>1, OfferRests
<1>7. \A k \in OrderKey : OrderStatus(k)' = OrderStatus(k)
  BY <1>1, <1>2, <1>3, OrderRests DEF IsUnfinalized, Placed
<1> QED
  BY <1>4, <1>5, <1>6, <1>7, AnnounceIntro DEF OthersUnchanged, Keeps

\* The other steps are none of the clients' business.
LEMMA StepKeeps ==
    ASSUME ContractInvariant, ContractInvariant', Step
    PROVE  Keeps
<1>1. ASSUME emitted' = emitted, lastOffer' = lastOffer,
             \A f \in OfferId : offers'[f] = None <=> offers[f] = None,
             \A k \in OrderKey : IsUnfinalized(k)' <=> IsUnfinalized(k)
      PROVE  Keeps
  BY <1>1, QuietKeeps
<1>2. CASE orders' = orders /\ offers' = offers /\ emitted' = emitted /\ lastOffer' = lastOffer
  BY <1>1, <1>2 DEF IsUnfinalized, Placed
<1>3. CASE Ageing
  BY <1>1, <1>3 DEF Ageing, IsUnfinalized, Placed
<1>4. ASSUME NEW old \in SUBSET OrderKey, Purging(old)
      PROVE  Keeps
  <2>1. \A k \in OrderKey : IsUnfinalized(k)' <=> IsUnfinalized(k)
    BY <1>4 DEF Purging, Outdated, IsUnfinalized, Placed
  <2> QED
    BY <1>1, <1>4, <2>1 DEF Purging
<1> QED
  BY <1>2, <1>3, <1>4, ActorKeeps, CreatingKeeps
  DEF Step, Preparing, TurningDown, Settling, Serves, ServiceRests, Publishing, Issuing,
      Idling

LEMMA InitKeeps == Init => Contract!Init
<1> SUFFICES ASSUME Init
             PROVE  Contract!Init
  OBVIOUS
<1>1. \A f \in OfferId : OfferStatus(f) = "none"
  <2>1. TypeOK /\ OfferInvariant
    BY InitTypeOK, InitOfferInvariant
  <2>2. \A f \in OfferId : f > lastOffer
    BY DEF Init, PaymentsInit, OfferId
  <2> QED
    BY <2>1, <2>2, OfferStatusNow DEF TypeOK
<1>2. \A k \in OrderKey : OrderStatus(k) = "new"
  BY InitOutcomes, OrderStatusNow
  DEF Init, PaymentsInit, SignalbusInit, Placed, HasOutcome, Emitted
<1> QED
  BY <1>1, <1>2 DEF Contract!Init, OfferView, OrderView

\* The service implements its contract: an offer is open until it is paid once
\* or canceled, every order has one outcome, and the orders that are pending
\* when their offer closes fail with it, whatever the messages, the accounts
\* service and the clock do.
THEOREM ContractIsKept == Spec => KeepsContract
<1>1. Init => Contract!Init
  BY InitKeeps
<1>2. ContractInvariant /\ ContractInvariant' /\ [Next]_vars
        => [Contract!Next]_(Contract!contractVars)
  <2> SUFFICES ASSUME ContractInvariant, ContractInvariant', [Next]_vars
               PROVE  [Contract!Next]_(Contract!contractVars)
    OBVIOUS
  <2>1. Step
    BY NextSteps DEF ContractInvariant
  <2> QED
    BY <2>1, StepKeeps DEF Keeps
<1>3. Spec => []ContractInvariant
  <2>1. TypeOK /\ AgreementInvariant /\ OutcomeInvariant /\ OfferInvariant => ContractInvariant
    BY DEF ContractInvariant
  <2> QED
    BY <2>1, TypeCorrect, AgreementInvariantHolds, OutcomeInvariantHolds,
       OfferInvariantHolds, PTL
<1> QED
  BY <1>1, <1>2, <1>3, PTL DEF Spec, KeepsContract, Contract!Spec

=============================================================================
