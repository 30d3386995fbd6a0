------------------------ MODULE PaymentSteps_proofs ------------------------
(***************************************************************************)
(* What a step of an actor or of the accounts service does, row by row and *)
(* field by field.  A few kinds of steps cover all branches of all         *)
(* procedures; the proofs of the invariants go through these kinds.        *)
(***************************************************************************)
EXTENDS PaymentSystem_proofs

----------------------------------------------------------------------------
(* What becomes of one row of payment_order.                               *)

\* The row of order l holds what po holds.
Holds(l, po) ==
    /\ orders'[l] # None
    /\ orders'[l].terms = po.terms
    /\ orders'[l].request = po.request
    /\ orders'[l].transfer = po.transfer

Pends(l, po) == Holds(l, po) /\ ~orders'[l].finalized

Ends(l, po) == Holds(l, po) /\ orders'[l].finalized

\* The orders in ks fail as they are, those outside of "changed" stay the same.
AllEnd(ks) == \A l \in ks : Ends(l, orders[l])

OthersStay(changed) == \A l \in OrderKey \ changed : orders'[l] = orders[l]

----------------------------------------------------------------------------
(* The kinds of steps.                                                     *)

\* An actor handles m and inserts rows into the signal tables.
Acts(m, rows) ==
    /\ m \in queue
    /\ queue' \subseteq queue
    /\ queue \ {m} \subseteq queue'
    /\ outbox' = outbox \cup rows
    /\ emitted' = emitted \cup rows
    /\ UNCHANGED <<transfers, settled, issued, lastOffer>>

\* An order that does not fit its offer, or comes too late.
Hopeless(m) ==
    ~ /\ OfferIsVisible(m.order.offer, m.secret)
      /\ m.payment \in offers[m.order.offer].options

Ignoring(m) ==
    /\ Acts(m, {})
    /\ UNCHANGED tables
    /\ \/ m \in OrderRequest /\ Placed(m.order)
       \/ m \in CancelRequest
       \/ /\ m \in PreparedTransferSignal
          /\ \E k \in Found(m.request) :
               ~Accepts(k, LegOf(m.request)) /\ IsRecorded(k, m)
       \/ m \in RejectedTransferSignal /\ \A k \in Found(m.request) : ~IsUnfinalized(k)

Refusing(m) ==
    /\ m \in OrderRequest
    /\ ~Placed(m.order)
    /\ Hopeless(m)
    /\ \E reason \in FailureReason \ {"PAY006"} : Acts(m, {FailedPayment(m.order, reason)})
    /\ UNCHANGED tables

Dismissing(m) ==
    /\ m \in PreparedTransferSignal
    /\ \/ \E k \in Found(m.request) :
            ~Accepts(k, LegOf(m.request)) /\ ~IsRecorded(k, m)
       \/ Found(m.request) = {}
    /\ Acts(m, {Finalization(m.transfer, 0)})
    /\ UNCHANGED tables

\* The row po that the transaction of m works on: a new one, or one that has
\* its transfer recorded.
Places(m, k, po) ==
    /\ m \in OrderRequest
    /\ k = m.order
    /\ ~Placed(k)
    /\ OfferIsVisible(k.offer, m.secret)
    /\ m.payment \in offers[k.offer].options
    /\ po.terms["payment"] = m.payment
    /\ po.terms["reciprocal"] = offers[k.offer].reciprocal
    /\ po.request = lastRequest + 1
    /\ \A leg \in Leg : po.transfer[leg] = None
    /\ lastRequest' = lastRequest + 1

Records(m, k, po) ==
    /\ m \in PreparedTransferSignal
    /\ k \in Found(m.request)
    /\ Matches(k, m)
    /\ Accepts(k, LegOf(m.request))
    /\ po.terms = orders[k].terms
    /\ po.request = orders[k].request
    /\ po.transfer[LegOf(m.request)] = m.transfer.id
    /\ \A leg \in Leg \ {LegOf(m.request)} : po.transfer[leg] = orders[k].transfer[leg]
    /\ lastRequest' = lastRequest

Works(m, k, po) ==
    /\ k \in OrderKey
    /\ po \in PaymentOrder
    /\ Places(m, k, po) \/ Records(m, k, po)

\* Order k has come before the deadline of its offer.
InTime(k) == Placed(k) \/ ~offers[k.offer].expired

Expiring(m, k, po) ==
    /\ Works(m, k, po)
    /\ Places(m, k, po)
    /\ ~InTime(k)
    /\ Acts(m, {FailedPayment(k, "PAY006")})
    /\ Ends(k, po)
    /\ OthersStay({k})
    /\ offers' = offers

Awaiting(m, k, po, leg) ==
    /\ Works(m, k, po)
    /\ InTime(k)
    /\ leg \in Leg
    /\ ShouldPrepare(po, leg)
    /\ InTurn(po, leg)
    /\ Acts(m, {PrepareTransferRow(k, po, leg)})
    /\ Pends(k, po)
    /\ OthersStay({k})
    /\ offers' = offers

\* Offer f is gone.
OfferGoes(f) ==
    /\ offers[f] # None
    /\ \A g \in OfferId : offers'[g] = IF g = f THEN None ELSE offers[g]

Losers(k) == Unfinalized(k.offer) \ {k}

Executing(m, k, po) ==
    /\ Works(m, k, po)
    /\ InTime(k)
    /\ \A leg \in Leg : ~ShouldPrepare(po, leg)
    /\ Acts(m, CommitRows(k, po) \cup AbortAllRows(Losers(k)) \cup {SuccessRow(k, po)})
    /\ Ends(k, po)
    /\ AllEnd(Losers(k))
    /\ OthersStay(Losers(k) \cup {k})
    /\ OfferGoes(k.offer)

Canceling(m) ==
    /\ m \in CancelRequest
    /\ Acts(m, AbortAllRows(Unfinalized(m.offer))
                 \cup {[type |-> "canceled_formal_offer", offer |-> m.offer]})
    /\ AllEnd(Unfinalized(m.offer))
    /\ OthersStay(Unfinalized(m.offer))
    /\ OfferGoes(m.offer)
    /\ lastRequest' = lastRequest

Rejecting(m, k) ==
    /\ m \in RejectedTransferSignal
    /\ k \in Found(m.request)
    /\ IsUnfinalized(k)
    /\ Acts(m, RejectionRows(k, m.request))
    /\ AllEnd({k})
    /\ OthersStay({k})
    /\ offers' = offers
    /\ lastRequest' = lastRequest

ActorStep(m) ==
    \/ Ignoring(m)
    \/ Refusing(m)
    \/ Dismissing(m)
    \/ \E k \in OrderKey, po \in PaymentOrder :
         \/ Expiring(m, k, po)
         \/ \E leg \in Leg : Awaiting(m, k, po, leg)
         \/ Executing(m, k, po)
    \/ Canceling(m)
    \/ \E k \in OrderKey : Rejecting(m, k)

----------------------------------------------------------------------------
(* The actors take these steps and no others.                              *)

LEMMA ActsIntro ==
    ASSUME NEW m, NEW acknowledged, NEW rows, Consume(m, {}, acknowledged),
           Emit(rows), UNCHANGED external, UNCHANGED lastOffer
    PROVE  Acts(m, rows)
  BY DEF Acts, Consume, Emit, external

LEMMA ActsSilently ==
    ASSUME NEW m, NEW acknowledged, Consume(m, {}, acknowledged),
           EmitNothing, UNCHANGED external, UNCHANGED lastOffer
    PROVE  Acts(m, {})
  BY DEF Acts, Consume, EmitNothing, external

LEMMA FinalizedEnds ==
    ASSUME NEW l, NEW po \in PaymentOrder, orders'[l] = Finalized(po)
    PROVE  Ends(l, po)
<1>1. Finalized(po) # None
  BY FinalizedType, NoneAssumption
<1>2. /\ Finalized(po).terms = po.terms
      /\ Finalized(po).request = po.request
      /\ Finalized(po).transfer = po.transfer
      /\ Finalized(po).finalized
  BY DEF Finalized, PaymentOrder
<1> QED
  BY <1>1, <1>2 DEF Ends, Holds

LEMMA FinalizeAllEnds ==
    ASSUME DatabaseOK, NEW ks \in SUBSET {l \in OrderKey : Placed(l)},
           orders' = FinalizeAll(ks)
    PROVE  AllEnd(ks) /\ OthersStay(ks)
<1>1. \A l \in OrderKey : orders'[l] = IF l \in ks THEN Finalized(orders[l]) ELSE orders[l]
  BY DEF FinalizeAll
<1>2. ASSUME NEW l \in ks
      PROVE  Ends(l, orders[l])
  BY <1>1, PlacedType, FinalizedEnds
<1> QED
  BY <1>1, <1>2 DEF AllEnd, OthersStay

LEMMA UnfinalizedPlaced ==
    ASSUME NEW f
    PROVE  Unfinalized(f) \in SUBSET {l \in OrderKey : Placed(l)}
  BY DEF Unfinalized, IsUnfinalized

LEMMA OfferGoesIntro ==
    ASSUME DatabaseOK, NEW f \in OfferId, offers[f] # None, offers' = WithoutOffer(f)
    PROVE  OfferGoes(f)
  BY DEF OfferGoes, WithoutOffer, DatabaseOK

\* _try_to_finalize_payment_order
LEMMA TryToFinalizeSteps ==
    ASSUME DatabaseOK, NEW m, NEW acknowledged, NEW k, NEW po,
           Works(m, k, po), InTime(k), ~po.finalized, Consume(m, {}, acknowledged),
           UNCHANGED external, UNCHANGED lastOffer, TryToFinalize(k, po)
    PROVE  ActorStep(m)
<1>0. k \in OrderKey /\ po \in PaymentOrder /\ k.offer \in OfferId
  BY DEF Works, OrderKey
<1>1. ASSUME NEW leg \in Leg, ShouldPrepare(po, leg), InTurn(po, leg),
             AwaitTransfer(k, po, leg)
      PROVE  Awaiting(m, k, po, leg)
  <2>1. Acts(m, {PrepareTransferRow(k, po, leg)})
    BY <1>1, ActsIntro DEF AwaitTransfer
  <2>2. orders'[k] = po /\ OthersStay({k}) /\ offers' = offers
    BY <1>0, <1>1 DEF AwaitTransfer, OthersStay, DatabaseOK
  <2>3. Pends(k, po)
    BY <1>0, <2>2, NoneAssumption DEF Pends, Holds
  <2> QED
    BY <1>1, <2>1, <2>2, <2>3 DEF Awaiting
<1>2. ASSUME \A leg \in Leg : ~ShouldPrepare(po, leg), Execute(k, po)
      PROVE  Executing(m, k, po)
  <2> DEFINE rows == CommitRows(k, po) \cup AbortAllRows(Losers(k)) \cup {SuccessRow(k, po)}
  <2>1. Losers(k) \in SUBSET {l \in OrderKey : Placed(l)}
    BY UnfinalizedPlaced DEF Losers
  <2>2. /\ orders' = [FinalizeAll(Losers(k)) EXCEPT ![k] = Finalized(po)]
        /\ Emit(rows)
        /\ offers[k.offer] # None
        /\ offers' = WithoutOffer(k.offer)
    BY <1>2 DEF Execute, PayAborting, Losers
  <2>3. Acts(m, rows)
    <3> HIDE DEF rows
    <3> QED
      BY <2>2, ActsIntro
  <2>4. \A l \in OrderKey :
          orders'[l] = IF l = k THEN Finalized(po)
                       ELSE IF l \in Losers(k) THEN Finalized(orders[l]) ELSE orders[l]
    BY <1>0, <2>2 DEF FinalizeAll
  <2>5. Ends(k, po)
    BY <1>0, <2>4, FinalizedEnds
  <2>6. AllEnd(Losers(k))
    <3>1. ASSUME NEW l \in Losers(k)
          PROVE  Ends(l, orders[l])
      <4>1. l \in OrderKey /\ l # k /\ orders[l] \in PaymentOrder
        BY <2>1, PlacedType DEF Losers
      <4> QED
        BY <2>4, <4>1, FinalizedEnds
    <3> QED
      BY <3>1 DEF AllEnd
  <2>7. OthersStay(Losers(k) \cup {k})
    BY <2>4 DEF OthersStay
  <2>8. OfferGoes(k.offer)
    BY <1>0, <2>2, OfferGoesIntro
  <2> QED
    BY <1>2, <2>3, <2>5, <2>6, <2>7, <2>8 DEF Executing
<1> QED
  BY <1>0, <1>1, <1>2 DEF TryToFinalize, ActorStep

\* The row that make_payment_order builds is one that it works on.
LEMMA NewOrderPlaces ==
    ASSUME DatabaseOK, NEW m \in OrderRequest, ~Placed(m.order),
           OfferIsVisible(m.order.offer, m.secret),
           m.payment \in offers[m.order.offer].options,
           lastRequest' = lastRequest + 1,
           NEW po, po = NewOrder(NextRequest, m.payment, offers[m.order.offer].reciprocal)
    PROVE  /\ Works(m, m.order, po)
           /\ Places(m, m.order, po)
           /\ ~po.finalized
<1>1. m.order \in OrderKey /\ m.order.offer \in OfferId
  BY DEF OrderRequest, OrderKey
<1>2. offers[m.order.offer] \in FormalOffer
  BY <1>1 DEF OfferIsVisible, DatabaseOK
<1>3. m.payment \in Payment /\ offers[m.order.offer].reciprocal \in Payment
  BY <1>2 DEF FormalOffer
<1>4. po \in PaymentOrder
  BY <1>3, NewOrderType
<1>5. /\ po.terms["payment"] = m.payment
      /\ po.terms["reciprocal"] = offers[m.order.offer].reciprocal
      /\ po.request = lastRequest + 1
      /\ \A leg \in Leg : po.transfer[leg] = None
      /\ ~po.finalized
  BY DEF NewOrder, NextRequest, Leg
<1> QED
  BY <1>1, <1>4, <1>5 DEF Works, Places

\* An order that holds no transfer: nothing but its failure is emitted.
LEMMA AbortRowsOfNew ==
    ASSUME NEW k, NEW po, NEW reason, \A leg \in Leg : po.transfer[leg] = None
    PROVE  AbortRows(k, po, reason) = {FailedPayment(k, reason)}
  BY DEF AbortRows, Held

LEMMA PlaceExpiredSteps ==
    ASSUME DatabaseOK, NEW m, NEW acknowledged, NEW po, Works(m, m.order, po),
           Places(m, m.order, po), Consume(m, {}, acknowledged),
           UNCHANGED external, UNCHANGED lastOffer, offers[m.order.offer].expired,
           PlaceExpired(m, po)
    PROVE  Expiring(m, m.order, po)
<1>1. /\ m.order \in OrderKey
      /\ po \in PaymentOrder
      /\ \A leg \in Leg : po.transfer[leg] = None
  BY DEF Works, Places
<1>2. /\ orders' = [orders EXCEPT ![m.order] = Finalized(po)]
      /\ Emit({FailedPayment(m.order, "PAY006")})
      /\ offers' = offers
  BY <1>1, AbortRowsOfNew DEF PlaceExpired
<1>3. Ends(m.order, po) /\ OthersStay({m.order})
  BY <1>1, <1>2, FinalizedEnds DEF DatabaseOK, OthersStay
<1>4. Acts(m, {FailedPayment(m.order, "PAY006")})
  BY <1>2, ActsIntro
<1> QED
  BY <1>2, <1>3, <1>4 DEF Expiring, InTime, Places

LEMMA RefuseSteps ==
    ASSUME NEW m \in OrderRequest, NEW acknowledged, NEW reason \in FailureReason \ {"PAY006"},
           Consume(m, {}, acknowledged), UNCHANGED external,
           ~Placed(m.order), Hopeless(m), Refuse(m, reason)
    PROVE  Refusing(m)
<1>1. Acts(m, {FailedPayment(m.order, reason)})
  BY ActsIntro DEF Refuse, tables
<1> QED
  BY <1>1 DEF Refusing, Refuse

\* make_payment_order
LEMMA HandleOrderSteps ==
    ASSUME DatabaseOK, NEW m \in OrderRequest, NEW acknowledged,
           HandleOrder(m, acknowledged)
    PROVE  ActorStep(m)
<1> DEFINE f  == m.order.offer
           po == NewOrder(NextRequest, m.payment, offers[f].reciprocal)
<1>0. Consume(m, {}, acknowledged) /\ UNCHANGED external /\ MakePaymentOrder(m)
  BY DEF HandleOrder
<1>1. CASE IsRedelivered(m) /\ EmitNothing /\ UNCHANGED tables
  BY <1>0, <1>1, ActsSilently DEF ActorStep, Ignoring, IsRedelivered, tables
<1>2. ASSUME NEW reason \in FailureReason \ {"PAY006"}, ~IsRedelivered(m), Hopeless(m),
             Refuse(m, reason)
      PROVE  ActorStep(m)
  BY <1>0, <1>2, RefuseSteps DEF ActorStep, IsRedelivered
<1>3. CASE /\ ~IsRedelivered(m)
           /\ OfferIsVisible(f, m.secret)
           /\ m.payment \in offers[f].options
           /\ lastRequest' = lastRequest + 1
           /\ IF offers[f].expired THEN PlaceExpired(m, po)
                                   ELSE TryToFinalize(m.order, po)
           /\ UNCHANGED lastOffer
  <2>1. Works(m, m.order, po) /\ Places(m, m.order, po) /\ ~po.finalized
    BY <1>3, NewOrderPlaces DEF IsRedelivered
  <2> HIDE DEF po
  <2>2. CASE offers[f].expired /\ PlaceExpired(m, po)
    <3>1. Expiring(m, m.order, po)
      BY <1>0, <1>3, <2>1, <2>2, PlaceExpiredSteps
    <3> QED
      BY <2>1, <3>1 DEF Works, ActorStep
  <2>3. CASE ~offers[f].expired /\ TryToFinalize(m.order, po)
    BY <1>0, <1>3, <2>1, <2>3, TryToFinalizeSteps DEF InTime
  <2> QED
    BY <1>3, <2>2, <2>3
<1>4. {"PAY001", "PAY002", "PAY003"} \subseteq FailureReason \ {"PAY006"}
  BY DEF FailureReason
<1>5. CASE ~IsRedelivered(m) /\ ~OfferIsVisible(f, m.secret) /\ Refuse(m, "PAY001")
  BY <1>2, <1>4, <1>5 DEF Hopeless
<1>6. CASE /\ ~IsRedelivered(m)
           /\ \A option \in offers[f].options : option.debtor # m.payment.debtor
           /\ Refuse(m, "PAY002")
  BY <1>2, <1>4, <1>6 DEF Hopeless
<1>7. CASE ~IsRedelivered(m) /\ m.payment \notin offers[f].options /\ Refuse(m, "PAY003")
  BY <1>2, <1>4, <1>7 DEF Hopeless
<1> QED
  BY <1>0, <1>1, <1>3, <1>5, <1>6, <1>7 DEF MakePaymentOrder

\* cancel_formal_offer
LEMMA HandleCancelSteps ==
    ASSUME DatabaseOK, NEW m \in CancelRequest, NEW acknowledged,
           HandleCancel(m, acknowledged)
    PROVE  ActorStep(m)
<1> DEFINE ks   == Unfinalized(m.offer)
           rows == AbortAllRows(ks) \cup {[type |-> "canceled_formal_offer", offer |-> m.offer]}
<1>0. Consume(m, {}, acknowledged) /\ UNCHANGED external /\ CancelFormalOffer(m)
  BY DEF HandleCancel
<1>1. CASE EmitNothing /\ UNCHANGED tables
  BY <1>0, <1>1, ActsSilently DEF ActorStep, Ignoring, tables
<1>2. CASE OfferIsVisible(m.offer, m.secret) /\ CancelAborting(ks, m.offer)
  <2>1. /\ orders' = FinalizeAll(ks)
        /\ offers' = WithoutOffer(m.offer)
        /\ Emit(rows)
        /\ UNCHANGED <<proofs, lastOffer, lastRequest>>
    BY <1>2 DEF CancelAborting
  <2>2. AllEnd(ks) /\ OthersStay(ks)
    <3>1. ks \in SUBSET {l \in OrderKey : Placed(l)}
      BY UnfinalizedPlaced
    <3> HIDE DEF ks
    <3> QED
      BY <2>1, <3>1, FinalizeAllEnds
  <2>3. Acts(m, rows)
    <3> HIDE DEF rows
    <3> QED
      BY <1>0, <2>1, ActsIntro
  <2>4. OfferGoes(m.offer)
    BY <1>2, <2>1, OfferGoesIntro DEF CancelRequest, OfferIsVisible
  <2> QED
    BY <2>1, <2>2, <2>3, <2>4 DEF ActorStep, Canceling
<1> QED
  BY <1>0, <1>1, <1>2 DEF CancelFormalOffer

\* The row that process_prepared_payment_transfer_signal works on.
LEMMA RecordedRow ==
    ASSUME DatabaseOK, NEW m \in PreparedTransferSignal, NEW k \in Found(m.request),
           Matches(k, m), Accepts(k, LegOf(m.request)), lastRequest' = lastRequest,
           NEW po, po = [orders[k] EXCEPT !.transfer[LegOf(m.request)] = m.transfer.id]
    PROVE  Works(m, k, po) /\ Records(m, k, po) /\ ~po.finalized
<1>1. k \in OrderKey /\ orders[k] \in PaymentOrder
  BY PlacedType DEF Found
<1>2. LegOf(m.request) \in Leg /\ m.transfer.id \in TransferId
  BY DEF LegOf, Leg, PreparedTransferSignal, TransferKey
<1>3. /\ po.terms = orders[k].terms
      /\ po.request = orders[k].request
      /\ po.transfer = [orders[k].transfer EXCEPT ![LegOf(m.request)] = m.transfer.id]
      /\ po.finalized = orders[k].finalized
  BY <1>1 DEF PaymentOrder
<1>4. po \in PaymentOrder
  BY <1>1, <1>2 DEF PaymentOrder
<1>5. /\ po.transfer[LegOf(m.request)] = m.transfer.id
      /\ \A leg \in Leg \ {LegOf(m.request)} : po.transfer[leg] = orders[k].transfer[leg]
  BY <1>1, <1>2, <1>3 DEF PaymentOrder
<1> QED
  BY <1>1, <1>3, <1>4, <1>5 DEF Works, Records, Accepts

\* process_prepared_payment_transfer_signal
LEMMA HandlePreparedSteps ==
    ASSUME DatabaseOK, NEW m \in PreparedTransferSignal, NEW acknowledged,
           HandlePrepared(m, acknowledged)
    PROVE  ActorStep(m)
<1> DEFINE leg == LegOf(m.request)
<1>0. Consume(m, {}, acknowledged) /\ UNCHANGED external /\ ProcessPreparedTransfer(m)
  BY DEF HandlePrepared
<1>1. ASSUME NEW k \in Found(m.request), Matches(k, m), Accepts(k, leg),
             AcceptTransfer(k, m)
      PROVE  ActorStep(m)
  <2> DEFINE po == [orders[k] EXCEPT !.transfer[leg] = m.transfer.id]
  <2>1. TryToFinalize(k, po) /\ UNCHANGED <<lastOffer, lastRequest>>
    BY <1>1 DEF AcceptTransfer
  <2>2. Works(m, k, po) /\ InTime(k) /\ ~po.finalized
    BY <1>1, <2>1, RecordedRow DEF InTime, Found
  <2> HIDE DEF po
  <2> QED
    BY <1>0, <2>1, <2>2, TryToFinalizeSteps
<1>2. CASE /\ \E k \in Found(m.request) : ~Accepts(k, leg) /\ IsRecorded(k, m)
           /\ EmitNothing
           /\ UNCHANGED tables
  BY <1>0, <1>2, ActsSilently DEF ActorStep, Ignoring, tables
<1>3. CASE /\ \/ \E k \in Found(m.request) : ~Accepts(k, leg) /\ ~IsRecorded(k, m)
              \/ Found(m.request) = {}
           /\ DismissTransfer(m)
  <2>1. Acts(m, {Finalization(m.transfer, 0)})
    BY <1>0, <1>3, ActsIntro DEF DismissTransfer, tables
  <2> QED
    BY <1>3, <2>1 DEF ActorStep, Dismissing, DismissTransfer
<1> QED
  BY <1>0, <1>1, <1>2, <1>3 DEF ProcessPreparedTransfer

\* process_rejected_payment_transfer_signal
LEMMA HandleRejectedSteps ==
    ASSUME DatabaseOK, NEW m \in RejectedTransferSignal, NEW acknowledged,
           HandleRejected(m, acknowledged)
    PROVE  ActorStep(m)
<1>0. Consume(m, {}, acknowledged) /\ UNCHANGED external /\ ProcessRejectedTransfer(m)
  BY DEF HandleRejected
<1>1. ASSUME NEW k \in Found(m.request), IsUnfinalized(k),
             orders' = FinalizeAll({k}), Emit(RejectionRows(k, m.request)),
             UNCHANGED <<offers, proofs, lastOffer, lastRequest>>
      PROVE  ActorStep(m)
  <2>1. k \in OrderKey /\ Placed(k)
    BY DEF Found
  <2>2. AllEnd({k}) /\ OthersStay({k})
    BY <1>1, <2>1, FinalizeAllEnds
  <2>3. Acts(m, RejectionRows(k, m.request))
    BY <1>0, <1>1, ActsIntro
  <2> QED
    BY <1>1, <2>1, <2>2, <2>3 DEF ActorStep, Rejecting
<1>2. CASE /\ \A k \in Found(m.request) : ~IsUnfinalized(k)
           /\ EmitNothing
           /\ UNCHANGED tables
  BY <1>0, <1>2, ActsSilently DEF ActorStep, Ignoring, tables
<1> QED
  BY <1>0, <1>1, <1>2 DEF ProcessRejectedTransfer, Aborts

----------------------------------------------------------------------------
(* The steps of the accounts service, of the clients and of the clock.     *)

\* The tables and the signals stay as they are.
ServiceRests ==
    UNCHANGED <<offers, orders, lastOffer, lastRequest, outbox, emitted>>

\* The accounts service handles m and answers with the messages in "sent".
Serves(m, sent) ==
    /\ m \in queue
    /\ queue' \subseteq queue \cup sent
    /\ (queue \ {m}) \cup sent \subseteq queue'
    /\ ServiceRests
    /\ issued' = issued

\* The transfer that is prepared for request m under the given key.
TransferFor(m, key) ==
    [transfer |-> key, request |-> m.request, recipient |-> m.recipient,
     amount |-> m.amount]

AnswerFor(m, key) ==
    [type |-> "prepared_transfer", transfer |-> key, request |-> m.request,
     recipient |-> m.recipient, amount |-> m.amount]

RejectionFor(m) == [type |-> "rejected_transfer", request |-> m.request]

Preparing(m, key) ==
    /\ m \in PrepareTransferSignal
    /\ key.debtor = m.debtor
    /\ key.sender = m.sender
    /\ ~IsPrepared(key)
    /\ transfers' = transfers \cup {TransferFor(m, key)}
    /\ settled' = settled
    /\ Serves(m, {AnswerFor(m, key)})

TurningDown(m) ==
    /\ m \in PrepareTransferSignal
    /\ Serves(m, {RejectionFor(m)})
    /\ UNCHANGED <<transfers, settled>>

Settling(m) ==
    /\ m \in FinalizePreparedTransferSignal
    /\ Serves(m, {})
    /\ transfers' = transfers
    /\ settled \subseteq settled'
    /\ IsPrepared(m.transfer) => IsSettled(m.transfer)'

\* Rows are published, and deleted or not.
Publishing ==
    /\ queue \subseteq queue'
    /\ outbox' \subseteq outbox
    /\ queue' \subseteq queue \cup {s \in outbox : s.type \in RequestType}
    /\ {s \in outbox : s.type \in RequestType} \subseteq queue' \cup outbox'
    /\ UNCHANGED <<offers, orders, lastOffer, lastRequest, emitted>>
    /\ UNCHANGED <<transfers, settled, issued>>

Creating(terms) ==
    LET f   == lastOffer + 1
        row == [type |-> "created_formal_offer", offer |-> f]
    IN  /\ f \in OfferId
        /\ lastOffer' = f
        /\ offers'[f] # None
        /\ offers'[f].options = terms.options
        /\ offers'[f].reciprocal = terms.reciprocal
        /\ \A g \in OfferId \ {f} : offers'[g] = offers[g]
        /\ outbox' = outbox \cup {row}
        /\ emitted' = emitted \cup {row}
        /\ UNCHANGED <<orders, lastRequest, queue, transfers, settled, issued>>

Issuing(m) ==
    /\ m \in ClientRequest
    /\ OfferOf(m) <= lastOffer
    /\ IsOrderRequest(m) =>
         \A n \in issued : IsOrderRequest(n) => n.order # m.order
    /\ issued' = issued \cup {m}
    /\ queue' = queue \cup {m}
    /\ ServiceRests
    /\ UNCHANGED <<transfers, settled>>

\* The deadline of an offer passes, which changes nothing else about it.
Ageing ==
    /\ \A g \in OfferId :
         /\ offers'[g] = None <=> offers[g] = None
         /\ offers[g] # None =>
              /\ offers'[g].options = offers[g].options
              /\ offers'[g].reciprocal = offers[g].reciprocal
    /\ UNCHANGED <<orders, lastOffer, lastRequest, outbox, emitted, queue>>
    /\ UNCHANGED <<transfers, settled, issued>>

Purging(old) ==
    /\ \A k \in old : Outdated(k)
    /\ \A k \in OrderKey : orders'[k] = IF k \in old THEN None ELSE orders[k]
    /\ UNCHANGED <<offers, lastOffer, lastRequest, outbox, emitted, queue>>
    /\ UNCHANGED <<transfers, settled, issued>>

\* Only payment proofs are deleted, or nothing happens at all.
Idling ==
    /\ UNCHANGED <<offers, orders, lastOffer, lastRequest, outbox, emitted, queue>>
    /\ UNCHANGED <<transfers, settled, issued>>

\* All steps of the system.
Step ==
    \/ \E m \in queue :
         \/ ActorStep(m)
         \/ \E key \in TransferKey : Preparing(m, key)
         \/ TurningDown(m)
         \/ Settling(m)
    \/ Publishing
    \/ \E terms \in Announced : Creating(terms)
    \/ \E m \in ClientRequest : Issuing(m)
    \/ Ageing
    \/ \E old \in SUBSET OrderKey : Purging(old)
    \/ Idling

LEMMA ConsumeServes ==
    ASSUME NEW m, NEW acknowledged, NEW sent, Consume(m, sent, acknowledged),
           EmitNothing, UNCHANGED <<tables, issued>>
    PROVE  Serves(m, sent)
  BY DEF Serves, ServiceRests, Consume, EmitNothing, tables

\* The accounts service prepares a transfer, or turns the request down.
LEMMA AccountsPrepareSteps ==
    ASSUME NEW m \in PrepareTransferSignal, NEW acknowledged,
           AccountsPrepare(m, acknowledged)
    PROVE  (\E key \in TransferKey : Preparing(m, key)) \/ TurningDown(m)
<1>0. EmitNothing /\ UNCHANGED <<tables, issued>>
  BY DEF AccountsPrepare
<1>1. CASE RejectTransfer(m, acknowledged)
  BY <1>0, <1>1, ConsumeServes DEF RejectTransfer, TurningDown, RejectionFor
<1>2. CASE PrepareTransfer(m, acknowledged)
  <2> DEFINE key(x) == [debtor |-> m.debtor, sender |-> m.sender, id |-> x]
             unused == {x \in TransferId : ~IsPrepared(key(x))}
             id     == CHOOSE x \in unused : TRUE
  <2>1. id \in unused
    BY <1>2 DEF PrepareTransfer
  <2>2. /\ transfers' = transfers \cup {TransferFor(m, key(id))}
        /\ Consume(m, {AnswerFor(m, key(id))}, acknowledged)
        /\ settled' = settled
    BY <1>2 DEF PrepareTransfer, TransferFor, AnswerFor
  <2> HIDE DEF id
  <2>3. key(id) \in TransferKey /\ ~IsPrepared(key(id))
    BY <2>1 DEF PrepareTransferSignal, TransferKey
  <2>4. key(id).debtor = m.debtor /\ key(id).sender = m.sender
    OBVIOUS
  <2> HIDE DEF key
  <2>5. Serves(m, {AnswerFor(m, key(id))})
    BY <1>0, <2>2, ConsumeServes
  <2> QED
    BY <2>2, <2>3, <2>4, <2>5 DEF Preparing
<1> QED
  BY <1>1, <1>2 DEF AccountsPrepare

LEMMA AccountsFinalizeSteps ==
    ASSUME NEW m \in FinalizePreparedTransferSignal, NEW acknowledged,
           AccountsFinalize(m, acknowledged)
    PROVE  Settling(m)
<1>1. Serves(m, {}) /\ transfers' = transfers
  BY ConsumeServes DEF AccountsFinalize, FinalizePreparedTransfer
<1> DEFINE new == [transfer |-> m.transfer, committed |-> m.committed]
<1>2. /\ settled' = settled \cup {new} \/ settled' = settled
      /\ IsPrepared(m.transfer) => settled' = settled \cup {new} \/ IsSettled(m.transfer)
  BY DEF AccountsFinalize, FinalizePreparedTransfer
<1>3. new.transfer = m.transfer
  OBVIOUS
<1> HIDE DEF new
<1>4. settled \subseteq settled'
  BY <1>2
<1>5. IsPrepared(m.transfer) => IsSettled(m.transfer)'
  BY <1>2, <1>3, <1>4 DEF IsSettled
<1> QED
  BY <1>1, <1>4, <1>5 DEF Settling

LEMMA HandleSteps ==
    ASSUME TypeOK, NEW m \in queue, NEW acknowledged, Handle(m, acknowledged)
    PROVE  Step
<1>0. DatabaseOK /\ m \in Message
  BY TypeParts DEF TypeOK
<1>1. CASE HandleOrder(m, acknowledged)
  BY <1>0, <1>1, MessageByType, HandleOrderSteps DEF HandleOrder, Step
<1>2. CASE HandleCancel(m, acknowledged)
  BY <1>0, <1>2, MessageByType, HandleCancelSteps DEF HandleCancel, Step
<1>3. CASE HandlePrepared(m, acknowledged)
  BY <1>0, <1>3, MessageByType, HandlePreparedSteps DEF HandlePrepared, Step
<1>4. CASE HandleRejected(m, acknowledged)
  BY <1>0, <1>4, MessageByType, HandleRejectedSteps DEF HandleRejected, Step
<1>5. CASE AccountsPrepare(m, acknowledged)
  BY <1>0, <1>5, MessageByType, AccountsPrepareSteps DEF AccountsPrepare, Step
<1>6. CASE AccountsFinalize(m, acknowledged)
  BY <1>0, <1>6, MessageByType, AccountsFinalizeSteps DEF AccountsFinalize, Step
<1> QED
  BY <1>1, <1>2, <1>3, <1>4, <1>5, <1>6 DEF Handle

LEMMA CreateSteps ==
    ASSUME DatabaseOK, Create
    PROVE  \E terms \in Announced : Creating(terms)
<1>1. PICK terms \in Announced : CreateFormalOffer(terms)
  BY DEF Create
<1> DEFINE f   == lastOffer + 1
           new == [options |-> terms.options, reciprocal |-> terms.reciprocal,
                   expired |-> FALSE]
<1>2. new # None /\ new.options = terms.options /\ new.reciprocal = terms.reciprocal
  <2>1. new \in FormalOffer
    BY EnvironmentAssumption DEF OfferTerms, FormalOffer
  <2> QED
    BY <2>1, NoneAssumption
<1>3. f \in OfferId /\ lastOffer' = f
  BY <1>1 DEF CreateFormalOffer
<1>4. offers' = [offers EXCEPT ![f] = new]
  BY <1>1 DEF CreateFormalOffer
<1>5. offers'[f] = new /\ \A g \in OfferId \ {f} : offers'[g] = offers[g]
  <2> HIDE DEF new
  <2> QED
    BY <1>3, <1>4 DEF DatabaseOK
<1>6. /\ Emit({[type |-> "created_formal_offer", offer |-> f]})
      /\ UNCHANGED <<orders, lastRequest, queue, transfers, settled, issued>>
  BY <1>1 DEF Create, CreateFormalOffer, external
<1>7. Creating(terms)
  BY <1>2, <1>3, <1>5, <1>6 DEF Creating, Emit
<1> QED
  BY <1>7

LEMMA FlushSteps ==
    ASSUME NEW type, NEW deleted, Flush(type, deleted)
    PROVE  Publishing
  BY DEF Flush, FlushSignals, Pending, Publishing, tables, external

LEMMA ExpireSteps ==
    ASSUME DatabaseOK, NEW f \in OfferId, Expire(f)
    PROVE  Ageing
<1> DEFINE new == [offers[f] EXCEPT !.expired = TRUE]
<1>1. offers[f] \in FormalOffer
  BY DEF Expire, DatabaseOK
<1>2. new \in FormalOffer
  BY <1>1 DEF FormalOffer
<1>3. new # None /\ new.options = offers[f].options /\ new.reciprocal = offers[f].reciprocal
  BY <1>1, <1>2, NoneAssumption DEF FormalOffer
<1>4. offers' = [offers EXCEPT ![f] = new]
  BY DEF Expire
<1> HIDE DEF new
<1>5. \A g \in OfferId : offers'[g] = IF g = f THEN new ELSE offers[g]
  BY <1>4 DEF DatabaseOK
<1> QED
  BY <1>3, <1>5 DEF Expire, EmitNothing, external, Ageing

\* Every step of the specification is one of these.
LEMMA NextSteps ==
    ASSUME TypeOK, [Next]_vars
    PROVE  Step
<1>0. DatabaseOK
  BY TypeParts
<1>1. CASE Create
  BY <1>0, <1>1, CreateSteps DEF Step
<1>2. ASSUME NEW m \in ClientRequest, Issue(m)
      PROVE  Step
  BY <1>2 DEF Issue, Issuing, ServiceRests, EmitNothing, tables, Step
<1>3. ASSUME NEW m \in queue, NEW acknowledged \in BOOLEAN, Handle(m, acknowledged)
      PROVE  Step
  BY <1>3, HandleSteps
<1>4. ASSUME NEW type, NEW deleted, Flush(type, deleted)
      PROVE  Step
  BY <1>4, FlushSteps DEF Step
<1>5. ASSUME NEW f \in OfferId, Expire(f)
      PROVE  Step
  BY <1>0, <1>5, ExpireSteps DEF Step
<1>6. ASSUME NEW old \in SUBSET OrderKey, PurgeOrders(old)
      PROVE  Step
  <2>1. Purging(old)
    BY <1>6 DEF PurgeOrders, FlushPaymentOrders, EmitNothing, external, Purging
  <2> QED
    BY <2>1 DEF Step
<1>7. CASE (\E old \in SUBSET proofs : PurgeProofs(old)) \/ UNCHANGED vars
  BY <1>7 DEF PurgeProofs, FlushPaymentProofs, EmitNothing, external, vars, tables,
              Idling, Step
<1> QED
  BY <1>1, <1>2, <1>3, <1>4, <1>5, <1>6, <1>7 DEF Next

=============================================================================
