------------------------- MODULE OfferSafety_proofs -------------------------
(***************************************************************************)
(* An offer is settled once, and an order that is not final always has an  *)
(* offer: the two facts on which the comment in _execute_payment_order     *)
(* relies, proved together because each one needs the other.               *)
(***************************************************************************)
EXTENDS PaymentSystem_proofs

\* The numbers of offers are fresh: what exists or was settled has been
\* created.
OffersAreNumbered ==
    \A f \in OfferId :
      offers[f] # None \/ SettlementsOf(f) # {} => f <= lastOffer

\* The inductive invariant.
OfferInvariant ==
    /\ UnfinalizedHasOffer
    /\ OfferSettledOnce
    /\ OffersAreNumbered

----------------------------------------------------------------------------
(* Every step but the creation of an offer leaves all offers as they are,  *)
(* or closes exactly one.                                                  *)

IsQuiet(rows) ==
    \A s \in rows : s.type \notin {"canceled_formal_offer", "successful_payment"}

\* No offer appears, disappears or is settled.
LeavesOffers ==
    /\ \A f \in OfferId : offers'[f] = None <=> offers[f] = None
    /\ \A f \in OfferId : SettlementsOf(f)' = SettlementsOf(f)
    /\ \A k \in OrderKey : IsUnfinalized(k)' => offers[k.offer] # None
    /\ lastOffer' = lastOffer

\* Offer f is settled with signal s, and its orders become final.
Closes(f, s) ==
    /\ offers[f] # None
    /\ \A g \in OfferId : offers'[g] = IF g = f THEN None ELSE offers[g]
    /\ SettlementsOf(f)' = SettlementsOf(f) \cup {s}
    /\ \A g \in OfferId \ {f} : SettlementsOf(g)' = SettlementsOf(g)
    /\ \A k \in OrderKey : IsUnfinalized(k)' => IsUnfinalized(k) /\ k.offer # f
    /\ lastOffer' = lastOffer

LEMMA LeavesOffersInvariant ==
    ASSUME OfferInvariant, LeavesOffers
    PROVE  OfferInvariant'
<1>1. \A k \in OrderKey : k.offer \in OfferId
  BY DEF OrderKey
<1>2. UnfinalizedHasOffer'
  BY <1>1 DEF LeavesOffers, UnfinalizedHasOffer
<1>3. OfferSettledOnce'
  BY DEF OfferInvariant, LeavesOffers, OfferSettledOnce
<1>4. OffersAreNumbered'
  BY DEF OfferInvariant, LeavesOffers, OffersAreNumbered
<1> QED
  BY <1>2, <1>3, <1>4 DEF OfferInvariant

LEMMA ClosesInvariant ==
    ASSUME OfferInvariant, NEW f \in OfferId, NEW s, Closes(f, s)
    PROVE  OfferInvariant'
<1>1. \A k \in OrderKey : k.offer \in OfferId
  BY DEF OrderKey
<1>2. UnfinalizedHasOffer'
  BY <1>1 DEF OfferInvariant, Closes, UnfinalizedHasOffer
<1>3. OfferSettledOnce'
  <2>1. SettlementsOf(f) = {}
    BY DEF OfferInvariant, OfferSettledOnce, Closes
  <2> QED
    BY <2>1 DEF OfferInvariant, OfferSettledOnce, Closes
<1>4. OffersAreNumbered'
  BY DEF OfferInvariant, OffersAreNumbered, Closes
<1> QED
  BY <1>2, <1>3, <1>4 DEF OfferInvariant

----------------------------------------------------------------------------
(* What the rows of a transaction settle.                                  *)

LEMMA QuietEmit ==
    ASSUME NEW rows, Emit(rows), IsQuiet(rows), NEW f
    PROVE  SettlementsOf(f)' = SettlementsOf(f)
  BY DEF Emit, IsQuiet, SettlementsOf, Emitted

LEMMA NoEmit ==
    ASSUME EmitNothing, NEW f
    PROVE  SettlementsOf(f)' = SettlementsOf(f)
  BY DEF EmitNothing, SettlementsOf, Emitted

LEMMA AbortRowsQuiet ==
    ASSUME NEW k, NEW po, NEW reason
    PROVE  IsQuiet(AbortRows(k, po, reason))
  BY DEF IsQuiet, AbortRows, FailedPayment, Finalization

LEMMA AbortAllRowsQuiet ==
    ASSUME NEW ks
    PROVE  IsQuiet(AbortAllRows(ks))
  BY AbortRowsQuiet DEF IsQuiet, AbortAllRows

LEMMA CommitRowsQuiet ==
    ASSUME NEW k, NEW po
    PROVE  IsQuiet(CommitRows(k, po))
  BY DEF IsQuiet, CommitRows, Finalization

\* Finalizing orders makes them final, and leaves the others.
LEMMA FinalizeAllUnfinalized ==
    ASSUME DatabaseOK, NEW ks \in SUBSET {k \in OrderKey : Placed(k)},
           NEW k \in OrderKey
    PROVE  /\ k \in ks => FinalizeAll(ks)[k] # None /\ FinalizeAll(ks)[k].finalized
           /\ k \notin ks => FinalizeAll(ks)[k] = orders[k]
<1>1. FinalizeAll(ks)[k] = IF k \in ks THEN Finalized(orders[k]) ELSE orders[k]
  BY DEF FinalizeAll
<1>2. ASSUME k \in ks
      PROVE  Finalized(orders[k]) # None /\ Finalized(orders[k]).finalized
  <2>1. orders[k] \in PaymentOrder
    BY <1>2, PlacedType
  <2>2. Finalized(orders[k]) \in PaymentOrder
    BY <2>1, FinalizedType
  <2>3. Finalized(orders[k]).finalized
    BY <2>1 DEF Finalized, PaymentOrder
  <2> QED
    BY <2>2, <2>3, NoneAssumption
<1> QED
  BY <1>1, <1>2

----------------------------------------------------------------------------
(* The transactions.                                                       *)

\* What the abort of the remaining orders of an offer leaves unfinalized.
LEMMA AbortingAnOffer ==
    ASSUME DatabaseOK, NEW f, NEW ks \in SUBSET OrderKey,
           ks \subseteq Unfinalized(f),
           NEW k \in OrderKey, k \notin Unfinalized(f) \ ks,
           FinalizeAll(ks)[k] # None, ~FinalizeAll(ks)[k].finalized
    PROVE  IsUnfinalized(k) /\ k.offer # f
<1>1. ks \in SUBSET {l \in OrderKey : Placed(l)}
  BY UnfinalizedType
<1>2. k \notin ks /\ FinalizeAll(ks)[k] = orders[k]
  BY <1>1, FinalizeAllUnfinalized
<1> QED
  BY <1>2 DEF IsUnfinalized, Placed, Unfinalized

\* A payment closes its offer.
LEMMA ExecuteCloses ==
    ASSUME DatabaseOK, NEW k \in OrderKey, NEW po \in PaymentOrder, Execute(k, po),
           lastOffer' = lastOffer
    PROVE  Closes(k.offer, SuccessRow(k, po))
<1> DEFINE f      == k.offer
           losers == Unfinalized(f) \ {k}
           quiet  == CommitRows(k, po) \cup AbortAllRows(losers)
           row    == SuccessRow(k, po)
<1>1. f \in OfferId /\ offers[f] # None
  BY DEF Execute, PayAborting, OrderKey
<1>2. \A g \in OfferId : offers'[g] = IF g = f THEN None ELSE offers[g]
  BY DEF Execute, PayAborting, WithoutOffer, DatabaseOK
<1>3. IsQuiet(quiet)
  BY CommitRowsQuiet, AbortAllRowsQuiet DEF IsQuiet
<1>4. emitted' = emitted \cup quiet \cup {row}
  BY DEF Execute, PayAborting, Emit
<1>5. row.type = "successful_payment" /\ row.order = k
  BY DEF SuccessRow
<1>6. SettlementsOf(f)' = SettlementsOf(f) \cup {row}
  <2> HIDE DEF quiet, row
  <2> QED
    BY <1>3, <1>4, <1>5 DEF IsQuiet, SettlementsOf, Emitted
<1>7. \A g \in OfferId \ {f} : SettlementsOf(g)' = SettlementsOf(g)
  <2> HIDE DEF quiet, row
  <2> QED
    BY <1>3, <1>4, <1>5 DEF IsQuiet, SettlementsOf, Emitted
<1>8. ASSUME NEW l \in OrderKey, IsUnfinalized(l)'
      PROVE  IsUnfinalized(l) /\ l.offer # f
  <2>1. losers \in SUBSET {x \in OrderKey : Placed(x)}
    BY UnfinalizedType
  <2>2. FinalizeAll(losers) \in [OrderKey -> PaymentOrder \cup {None}]
    BY <2>1, FinalizeAllType
  <2>3. orders' = [FinalizeAll(losers) EXCEPT ![k] = Finalized(po)]
    BY DEF Execute, PayAborting
  <2>4. orders'[k] = Finalized(po) /\ (l # k => orders'[l] = FinalizeAll(losers)[l])
    <3> HIDE DEF losers
    <3> QED
      BY <2>2, <2>3
  <2>5. Finalized(po).finalized
    BY DEF Finalized, PaymentOrder
  <2>6. l # k
    BY <1>8, <2>4, <2>5 DEF IsUnfinalized, Placed
  <2>7. l \notin Unfinalized(f) \ losers
    BY <2>6
  <2>8. FinalizeAll(losers)[l] # None /\ ~FinalizeAll(losers)[l].finalized
    BY <1>8, <2>4, <2>6 DEF IsUnfinalized, Placed
  <2>9. losers \in SUBSET OrderKey /\ losers \subseteq Unfinalized(f)
    BY DEF Unfinalized
  <2> HIDE DEF losers
  <2> QED
    BY <2>7, <2>8, <2>9, AbortingAnOffer
<1> QED
  BY <1>1, <1>2, <1>6, <1>7, <1>8 DEF Closes

\* So does its cancellation, unless the offer is not there.
LEMMA CancelCloses ==
    ASSUME DatabaseOK, NEW m \in CancelRequest, CancelFormalOffer(m),
           OfferIsVisible(m.offer, m.secret)
    PROVE  Closes(m.offer, [type |-> "canceled_formal_offer", offer |-> m.offer])
<1> DEFINE f     == m.offer
           all   == Unfinalized(f)
           quiet == AbortAllRows(all)
           row   == [type |-> "canceled_formal_offer", offer |-> f]
<1>1. offers[f] # None
  BY DEF OfferIsVisible
<1>2. \A g \in OfferId : offers'[g] = IF g = f THEN None ELSE offers[g]
  BY DEF CancelFormalOffer, CancelAborting, WithoutOffer, DatabaseOK
<1>3. IsQuiet(quiet)
  BY AbortAllRowsQuiet
<1>4. emitted' = emitted \cup quiet \cup {row}
  BY DEF CancelFormalOffer, CancelAborting, Emit
<1>5. row.type = "canceled_formal_offer" /\ row.offer = f
  OBVIOUS
<1>6. SettlementsOf(f)' = SettlementsOf(f) \cup {row}
  <2> HIDE DEF quiet, row
  <2> QED
    BY <1>3, <1>4, <1>5 DEF IsQuiet, SettlementsOf, Emitted
<1>7. \A g \in OfferId \ {f} : SettlementsOf(g)' = SettlementsOf(g)
  <2> HIDE DEF quiet, row
  <2> QED
    BY <1>3, <1>4, <1>5 DEF IsQuiet, SettlementsOf, Emitted
<1>8. ASSUME NEW l \in OrderKey, IsUnfinalized(l)'
      PROVE  IsUnfinalized(l) /\ l.offer # f
  <2>1. orders' = FinalizeAll(all)
    BY DEF CancelFormalOffer, CancelAborting
  <2>2. FinalizeAll(all)[l] # None /\ ~FinalizeAll(all)[l].finalized
    BY <1>8, <2>1 DEF IsUnfinalized, Placed
  <2>3. all \in SUBSET OrderKey
    BY DEF Unfinalized
  <2> QED
    BY <2>2, <2>3, AbortingAnOffer
<1> QED
  BY <1>1, <1>2, <1>6, <1>7, <1>8, CancelFormalOfferOK DEF Closes, CancelFormalOffer, CancelAborting

\* Asking for a transfer does neither; the order must have an offer.
LEMMA AwaitTransferLeaves ==
    ASSUME DatabaseOK, UnfinalizedHasOffer,
           NEW k \in OrderKey, NEW po \in PaymentOrder, NEW leg \in Leg,
           AwaitTransfer(k, po, leg), offers[k.offer] # None, lastOffer' = lastOffer
    PROVE  LeavesOffers
<1>1. IsQuiet({PrepareTransferRow(k, po, leg)})
  BY DEF IsQuiet, PrepareTransferRow
<1>2. \A f \in OfferId : SettlementsOf(f)' = SettlementsOf(f)
  BY <1>1, QuietEmit DEF AwaitTransfer
<1>3. \A l \in OrderKey : l # k => orders'[l] = orders[l]
  BY DEF AwaitTransfer, DatabaseOK
<1>4. \A l \in OrderKey : IsUnfinalized(l)' => offers[l.offer] # None
  BY <1>3 DEF UnfinalizedHasOffer, IsUnfinalized, Placed
<1> QED
  BY <1>2, <1>4 DEF LeavesOffers, AwaitTransfer

LEMMA TryToFinalizeEffect ==
    ASSUME DatabaseOK, UnfinalizedHasOffer,
           NEW k \in OrderKey, NEW po \in PaymentOrder, TryToFinalize(k, po),
           offers[k.offer] # None, lastOffer' = lastOffer
    PROVE  LeavesOffers \/ Closes(k.offer, SuccessRow(k, po))
  BY ExecuteCloses, AwaitTransferLeaves DEF TryToFinalize

\* A transaction that changes no table and settles nothing.
LEMMA EmitOnlyLeaves ==
    ASSUME UnfinalizedHasOffer, UNCHANGED tables,
           EmitNothing \/ \E rows : IsQuiet(rows) /\ Emit(rows)
    PROVE  LeavesOffers
<1>1. \A f \in OfferId : SettlementsOf(f)' = SettlementsOf(f)
  BY QuietEmit, NoEmit
<1> QED
  BY <1>1 DEF LeavesOffers, UnfinalizedHasOffer, IsUnfinalized, Placed, tables

----------------------------------------------------------------------------
(* The actors.                                                             *)

\* A step that leaves the offers alone or closes one.
ClosesAtMostOne == LeavesOffers \/ \E f \in OfferId, s \in Signal : Closes(f, s)

LEMMA SettlingInvariant ==
    ASSUME OfferInvariant, ClosesAtMostOne
    PROVE  OfferInvariant'
  BY LeavesOffersInvariant, ClosesInvariant DEF ClosesAtMostOne

LEMMA TryToFinalizeSettling ==
    ASSUME DatabaseOK, UnfinalizedHasOffer,
           NEW k \in OrderKey, NEW po \in PaymentOrder, TryToFinalize(k, po),
           offers[k.offer] # None, lastOffer' = lastOffer
    PROVE  ClosesAtMostOne
<1>1. k.offer \in OfferId /\ SuccessRow(k, po) \in Signal
  BY SuccessRowType DEF OrderKey
<1> QED
  BY <1>1, TryToFinalizeEffect DEF ClosesAtMostOne

LEMMA CancelSettling ==
    ASSUME DatabaseOK, UnfinalizedHasOffer, NEW m \in CancelRequest, CancelFormalOffer(m)
    PROVE  ClosesAtMostOne
<1>1. CASE OfferIsVisible(m.offer, m.secret)
  <2>1. /\ m.offer \in OfferId
        /\ [type |-> "canceled_formal_offer", offer |-> m.offer] \in Signal
    BY DEF CancelRequest, Signal, CanceledFormalOfferSignal
  <2> QED
    BY <1>1, <2>1, CancelCloses DEF ClosesAtMostOne
<1>2. CASE ~OfferIsVisible(m.offer, m.secret)
  BY <1>2, EmitOnlyLeaves DEF CancelFormalOffer, CancelAborting, ClosesAtMostOne
<1> QED
  BY <1>1, <1>2

LEMMA MakePaymentOrderSettling ==
    ASSUME DatabaseOK, UnfinalizedHasOffer, NEW m \in OrderRequest, MakePaymentOrder(m)
    PROVE  ClosesAtMostOne
<1> DEFINE f     == m.order.offer
           offer == offers[f]
           po    == NewOrder(NextRequest, m.payment, offer.reciprocal)
<1>0. m.order \in OrderKey /\ f \in OfferId
  BY DEF OrderRequest, OrderKey
<1>1. CASE IsRedelivered(m)
  BY <1>1, EmitOnlyLeaves DEF MakePaymentOrder, ClosesAtMostOne
<1>2. ASSUME NEW reason, Refuse(m, reason)
      PROVE  ClosesAtMostOne
  <2>1. IsQuiet({FailedPayment(m.order, reason)})
    BY DEF IsQuiet, FailedPayment
  <2> QED
    BY <1>2, <2>1, EmitOnlyLeaves DEF Refuse, ClosesAtMostOne
<1>3. CASE /\ OfferIsVisible(f, m.secret)
           /\ m.payment \in offer.options
           /\ IF offer.expired THEN PlaceExpired(m, po) ELSE TryToFinalize(m.order, po)
           /\ UNCHANGED lastOffer
  <2>1. offer \in FormalOffer /\ offer # None
    BY <1>0, <1>3 DEF OfferIsVisible, DatabaseOK
  <2>2. m.payment \in Payment /\ offer.reciprocal \in Payment
    BY <1>3, <2>1 DEF FormalOffer
  <2>3. po \in PaymentOrder
    BY <2>2, NewOrderType
  <2>4. CASE PlaceExpired(m, po)
    <3>1. orders' = [orders EXCEPT ![m.order] = Finalized(po)]
      BY <2>4 DEF PlaceExpired
    <3>2. Finalized(po).finalized
      BY <2>3 DEF Finalized, PaymentOrder
    <3>3. \A k \in OrderKey : IsUnfinalized(k)' => offers[k.offer] # None
      <4>1. \A k \in OrderKey : k # m.order => orders'[k] = orders[k]
        BY <3>1 DEF DatabaseOK
      <4>2. orders'[m.order] = Finalized(po)
        BY <1>0, <3>1 DEF DatabaseOK
      <4> HIDE DEF po
      <4> QED
        BY <3>2, <4>1, <4>2 DEF UnfinalizedHasOffer, IsUnfinalized, Placed
    <3>4. \A g \in OfferId : SettlementsOf(g)' = SettlementsOf(g)
      <4> HIDE DEF po
      <4> QED
        BY <2>4, AbortRowsQuiet, QuietEmit DEF PlaceExpired
    <3> QED
      BY <1>3, <2>4, <3>3, <3>4 DEF PlaceExpired, LeavesOffers, ClosesAtMostOne
  <2>5. CASE TryToFinalize(m.order, po)
    <3> HIDE DEF po
    <3> QED
      BY <1>0, <1>3, <2>1, <2>3, <2>5, TryToFinalizeSettling
  <2> QED
    BY <1>3, <2>4, <2>5
<1> QED
  BY <1>1, <1>2, <1>3 DEF MakePaymentOrder

LEMMA ProcessPreparedTransferSettling ==
    ASSUME DatabaseOK, UnfinalizedHasOffer,
           NEW m \in PreparedTransferSignal, ProcessPreparedTransfer(m)
    PROVE  ClosesAtMostOne
<1>1. ASSUME NEW k \in Found(m.request), Accepts(k, LegOf(m.request)), AcceptTransfer(k, m)
      PROVE  ClosesAtMostOne
  <2> DEFINE leg == LegOf(m.request)
             po  == [orders[k] EXCEPT !.transfer[leg] = m.transfer.id]
  <2>1. k \in OrderKey /\ Placed(k) /\ orders[k] \in PaymentOrder
    BY FoundType
  <2>2. leg \in Leg /\ m.transfer.id \in TransferId
    BY LegOfType DEF PreparedTransferSignal, TransferKey
  <2>3. po \in PaymentOrder
    <3> HIDE DEF leg
    <3> QED
      BY <2>1, <2>2 DEF PaymentOrder
  <2>4. offers[k.offer] # None
    BY <1>1, <2>1 DEF Accepts, UnfinalizedHasOffer, IsUnfinalized
  <2>5. TryToFinalize(k, po) /\ lastOffer' = lastOffer
    BY <1>1 DEF AcceptTransfer
  <2> HIDE DEF po
  <2> QED
    BY <2>1, <2>3, <2>4, <2>5, TryToFinalizeSettling
<1>2. CASE DismissTransfer(m)
  <2>1. IsQuiet({Finalization(m.transfer, 0)})
    BY DEF IsQuiet, Finalization
  <2> QED
    BY <1>2, <2>1, EmitOnlyLeaves DEF DismissTransfer, ClosesAtMostOne
<1>3. CASE EmitNothing /\ UNCHANGED tables
  BY <1>3, EmitOnlyLeaves DEF ClosesAtMostOne
<1> QED
  BY <1>1, <1>2, <1>3 DEF ProcessPreparedTransfer

LEMMA ProcessRejectedTransferSettling ==
    ASSUME DatabaseOK, UnfinalizedHasOffer, NEW m, ProcessRejectedTransfer(m)
    PROVE  ClosesAtMostOne
<1>1. ASSUME NEW k \in Found(m.request),
             orders' = FinalizeAll({k}),
             Emit(RejectionRows(k, m.request)),
             UNCHANGED <<offers, proofs, lastOffer, lastRequest>>
      PROVE  LeavesOffers
  <2>1. {k} \in SUBSET {l \in OrderKey : Placed(l)}
    BY FoundType
  <2>2. IsQuiet(RejectionRows(k, m.request))
    BY AbortRowsQuiet DEF IsQuiet, RejectionRows
  <2>3. \A f \in OfferId : SettlementsOf(f)' = SettlementsOf(f)
    BY <1>1, <2>2, QuietEmit
  <2>4. ASSUME NEW l \in OrderKey, IsUnfinalized(l)'
        PROVE  offers[l.offer] # None
    <3>1. l # k /\ orders'[l] = orders[l]
      BY <1>1, <2>1, <2>4, FinalizeAllUnfinalized DEF IsUnfinalized, Placed
    <3> QED
      BY <2>4, <3>1 DEF UnfinalizedHasOffer, IsUnfinalized, Placed
  <2> QED
    BY <1>1, <2>3, <2>4 DEF LeavesOffers
<1>2. CASE EmitNothing /\ UNCHANGED tables
  BY <1>2, EmitOnlyLeaves DEF ClosesAtMostOne
<1> QED
  BY <1>1, <1>2 DEF ProcessRejectedTransfer, ClosesAtMostOne

----------------------------------------------------------------------------
(* All steps.                                                              *)

LEMMA InitOfferInvariant == Init => OfferInvariant
  BY DEF Init, SignalbusInit, PaymentsInit, OfferInvariant, UnfinalizedHasOffer,
         OfferSettledOnce, OffersAreNumbered, IsUnfinalized, Placed,
         SettlementsOf, Emitted

\* The new offer has a number that nothing was settled under.
LEMMA CreateInvariant ==
    ASSUME TypeOK, OfferInvariant, Create
    PROVE  OfferInvariant'
<1> DEFINE f == lastOffer + 1
<1>0. PICK terms \in Announced : CreateFormalOffer(terms)
  BY DEF Create
<1> DEFINE row == [type |-> "created_formal_offer", offer |-> f]
           new == [options |-> terms.options, reciprocal |-> terms.reciprocal,
                   expired |-> FALSE]
<1>1. f \in OfferId /\ lastOffer' = f
  BY <1>0 DEF CreateFormalOffer
<1>2. new # None
  <2>1. new \in FormalOffer
    BY EnvironmentAssumption DEF OfferTerms, FormalOffer
  <2> QED
    BY <2>1, NoneAssumption
<1>3. \A g \in OfferId : offers'[g] = IF g = f THEN new ELSE offers[g]
  BY <1>0 DEF CreateFormalOffer, TypeOK
<1>4. \A g \in OfferId : SettlementsOf(g)' = SettlementsOf(g)
  <2>1. IsQuiet({row}) /\ Emit({row})
    BY <1>0 DEF CreateFormalOffer, IsQuiet
  <2> QED
    BY <2>1, QuietEmit
<1>5. SettlementsOf(f) = {}
  <2>1. ~(f <= lastOffer)
    BY DEF TypeOK
  <2> QED
    BY <1>1, <2>1 DEF OfferInvariant, OffersAreNumbered
<1>6. orders' = orders
  BY <1>0 DEF CreateFormalOffer
<1>7. UnfinalizedHasOffer'
  <2>1. \A k \in OrderKey : k.offer \in OfferId
    BY DEF OrderKey
  <2> HIDE DEF new
  <2> QED
    BY <1>2, <1>3, <1>6, <2>1
    DEF OfferInvariant, UnfinalizedHasOffer, IsUnfinalized, Placed
<1>8. OfferSettledOnce'
  <2> HIDE DEF new
  <2> QED
    BY <1>2, <1>3, <1>4, <1>5 DEF OfferInvariant, OfferSettledOnce
<1>9. OffersAreNumbered'
  <2>1. \A g \in OfferId : g \in Int /\ lastOffer \in Int
    BY DEF OfferId, TypeOK
  <2>2. ASSUME NEW g \in OfferId, g # f, offers'[g] # None \/ SettlementsOf(g)' # {}
        PROVE  g <= lastOffer'
    <3>1. g <= lastOffer
      BY <1>3, <1>4, <2>2 DEF OfferInvariant, OffersAreNumbered
    <3> QED
      BY <1>1, <2>1, <3>1
  <2> QED
    BY <1>1, <2>1, <2>2 DEF OffersAreNumbered
<1> QED
  BY <1>7, <1>8, <1>9 DEF OfferInvariant

LEMMA HandleInvariant ==
    ASSUME TypeOK, OfferInvariant, NEW m \in queue, NEW acknowledged,
           Handle(m, acknowledged)
    PROVE  OfferInvariant'
<1>0. DatabaseOK /\ UnfinalizedHasOffer /\ m \in Message
  BY TypeParts DEF TypeOK, OfferInvariant
<1>1. CASE HandleOrder(m, acknowledged)
  BY <1>0, <1>1, MessageByType, MakePaymentOrderSettling, SettlingInvariant
  DEF HandleOrder
<1>2. CASE HandleCancel(m, acknowledged)
  BY <1>0, <1>2, MessageByType, CancelSettling, SettlingInvariant DEF HandleCancel
<1>3. CASE HandlePrepared(m, acknowledged)
  BY <1>0, <1>3, MessageByType, ProcessPreparedTransferSettling, SettlingInvariant
  DEF HandlePrepared
<1>4. CASE HandleRejected(m, acknowledged)
  BY <1>0, <1>4, ProcessRejectedTransferSettling, SettlingInvariant DEF HandleRejected
<1>5. CASE AccountsPrepare(m, acknowledged) \/ AccountsFinalize(m, acknowledged)
  BY <1>0, <1>5, EmitOnlyLeaves, LeavesOffersInvariant
  DEF AccountsPrepare, AccountsFinalize
<1> QED
  BY <1>1, <1>2, <1>3, <1>4, <1>5 DEF Handle

LEMMA NextOfferInvariant == TypeOK /\ OfferInvariant /\ [Next]_vars => OfferInvariant'
<1> SUFFICES ASSUME TypeOK, OfferInvariant, [Next]_vars
             PROVE  OfferInvariant'
  OBVIOUS
<1>0. DatabaseOK /\ UnfinalizedHasOffer
  BY TypeParts DEF OfferInvariant
<1>1. CASE Create
  BY <1>1, CreateInvariant
<1>2. ASSUME NEW m \in ClientRequest, Issue(m)
      PROVE  OfferInvariant'
  BY <1>0, <1>2, EmitOnlyLeaves, LeavesOffersInvariant DEF Issue
<1>3. ASSUME NEW m \in queue, NEW acknowledged \in BOOLEAN, Handle(m, acknowledged)
      PROVE  OfferInvariant'
  BY <1>3, HandleInvariant
<1>4. ASSUME NEW type, NEW deleted, Flush(type, deleted)
      PROVE  OfferInvariant'
  <2>1. UNCHANGED tables /\ UNCHANGED emitted
    BY <1>4 DEF Flush, FlushSignals
  <2> QED
    BY <2>1 DEF tables, OfferInvariant, UnfinalizedHasOffer, OfferSettledOnce,
                OffersAreNumbered, IsUnfinalized, Placed, SettlementsOf, Emitted
<1>5. ASSUME NEW f \in OfferId, Expire(f)
      PROVE  OfferInvariant'
  <2>1. [offers[f] EXCEPT !.expired = TRUE] # None
    <3>1. offers[f] \in FormalOffer
      BY <1>5 DEF Expire, TypeOK
    <3>2. [offers[f] EXCEPT !.expired = TRUE] \in FormalOffer
      BY <3>1 DEF FormalOffer
    <3> QED
      BY <3>2, NoneAssumption
  <2>2. \A g \in OfferId : offers'[g] = None <=> offers[g] = None
    BY <1>5, <2>1 DEF Expire, TypeOK
  <2>3. \A g \in OfferId : SettlementsOf(g)' = SettlementsOf(g)
    BY <1>5, NoEmit DEF Expire
  <2>4. orders' = orders /\ lastOffer' = lastOffer
    BY <1>5 DEF Expire
  <2>5. LeavesOffers
    BY <1>0, <2>2, <2>3, <2>4
    DEF LeavesOffers, UnfinalizedHasOffer, IsUnfinalized, Placed
  <2> QED
    BY <2>5, LeavesOffersInvariant
<1>6. ASSUME NEW old \in SUBSET OrderKey, PurgeOrders(old)
      PROVE  OfferInvariant'
  <2>1. \A k \in OrderKey : orders'[k] = IF k \in old THEN None ELSE orders[k]
    BY <1>6 DEF PurgeOrders, FlushPaymentOrders
  <2>2. \A g \in OfferId : SettlementsOf(g)' = SettlementsOf(g)
    BY <1>6, NoEmit DEF PurgeOrders, FlushPaymentOrders
  <2>3. LeavesOffers
    BY <1>0, <1>6, <2>1, <2>2
    DEF PurgeOrders, FlushPaymentOrders, LeavesOffers, UnfinalizedHasOffer,
        IsUnfinalized, Placed
  <2> QED
    BY <2>3, LeavesOffersInvariant
<1>7. ASSUME NEW old \in SUBSET proofs, PurgeProofs(old)
      PROVE  OfferInvariant'
  <2>1. \A g \in OfferId : SettlementsOf(g)' = SettlementsOf(g)
    BY <1>7, NoEmit DEF PurgeProofs, FlushPaymentProofs
  <2>2. LeavesOffers
    BY <1>0, <1>7, <2>1
    DEF PurgeProofs, FlushPaymentProofs, LeavesOffers, UnfinalizedHasOffer,
        IsUnfinalized, Placed
  <2> QED
    BY <2>2, LeavesOffersInvariant
<1>8. CASE UNCHANGED vars
  BY <1>8 DEF vars, tables, OfferInvariant, UnfinalizedHasOffer, OfferSettledOnce,
              OffersAreNumbered, IsUnfinalized, Placed, SettlementsOf, Emitted
<1> QED
  BY <1>1, <1>2, <1>3, <1>4, <1>5, <1>6, <1>7, <1>8 DEF Next

LEMMA OfferInvariantHolds == Spec => []OfferInvariant
<1>1. Init => OfferInvariant
  BY InitOfferInvariant
<1>2. TypeOK /\ OfferInvariant /\ [Next]_vars => OfferInvariant'
  BY NextOfferInvariant
<1> QED
  BY <1>1, <1>2, TypeCorrect, PTL DEF Spec

\* An order that is not final always has an offer: .one() in
\* _execute_payment_order never raises.
THEOREM UnfinalizedAlwaysHasOffer == Spec => []UnfinalizedHasOffer
<1>1. OfferInvariant => UnfinalizedHasOffer
  BY DEF OfferInvariant
<1> QED
  BY <1>1, OfferInvariantHolds, PTL

\* An offer is paid by at most one order, or canceled, and never both.
THEOREM OffersAreSettledOnce == Spec => []OfferSettledOnce
<1>1. OfferInvariant => OfferSettledOnce
  BY DEF OfferInvariant
<1> QED
  BY <1>1, OfferInvariantHolds, PTL

=============================================================================
