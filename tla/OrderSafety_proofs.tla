------------------------ MODULE OrderSafety_proofs ------------------------
(***************************************************************************)
(* What happens to a payment order: it is paid only as agreed, it has one  *)
(* outcome, and what its row has recorded stays.                           *)
(***************************************************************************)
EXTENDS ContractRefinement, PaymentSteps_proofs

----------------------------------------------------------------------------
(* Rows: a final order stays, recorded transfers stay.                     *)

\* What an actor may do to the row of an order.
RowChange(m, k) ==
    \/ orders'[k] = orders[k]
    \/ IsUnfinalized(k) /\ Ends(k, orders[k])
    \/ \E po \in PaymentOrder : Works(m, k, po) /\ (Pends(k, po) \/ Ends(k, po))

LEMMA ActorRowChange ==
    ASSUME DatabaseOK, NEW m, ActorStep(m), NEW l \in OrderKey
    PROVE  RowChange(m, l)
<1>1. CASE Ignoring(m) \/ Refusing(m) \/ Dismissing(m)
  BY <1>1 DEF Ignoring, Refusing, Dismissing, tables, RowChange
<1>2. ASSUME NEW k \in OrderKey, NEW po \in PaymentOrder, Expiring(m, k, po)
      PROVE  RowChange(m, l)
  BY <1>2 DEF Expiring, OthersStay, RowChange
<1>3. ASSUME NEW k \in OrderKey, NEW po \in PaymentOrder, NEW leg \in Leg,
             Awaiting(m, k, po, leg)
      PROVE  RowChange(m, l)
  BY <1>3 DEF Awaiting, OthersStay, RowChange
<1>4. ASSUME NEW k \in OrderKey, NEW po \in PaymentOrder, Executing(m, k, po)
      PROVE  RowChange(m, l)
  BY <1>4 DEF Executing, OthersStay, AllEnd, RowChange, Losers, Unfinalized
<1>5. CASE Canceling(m)
  BY <1>5 DEF Canceling, OthersStay, AllEnd, RowChange, Unfinalized
<1>6. ASSUME NEW k \in OrderKey, Rejecting(m, k)
      PROVE  RowChange(m, l)
  BY <1>6 DEF Rejecting, OthersStay, AllEnd, RowChange
<1> QED
  BY <1>1, <1>2, <1>3, <1>4, <1>5, <1>6 DEF ActorStep

\* What RecordedIsKept says of one row.
IsKept(k) ==
    \/ orders'[k] = None /\ orders[k].finalized
    \/ orders[k].finalized /\ orders'[k] = orders[k]
    \/ /\ ~orders[k].finalized
       /\ \A leg \in Held(orders[k]) :
            orders'[k].transfer[leg] = orders[k].transfer[leg]

LEMMA RowChangeKeeps ==
    ASSUME NEW m, NEW k, Placed(k), RowChange(m, k)
    PROVE  IsKept(k)
<1>1. CASE orders'[k] = orders[k]
  BY <1>1 DEF IsKept
<1>2. CASE IsUnfinalized(k) /\ Ends(k, orders[k])
  BY <1>2 DEF IsUnfinalized, Ends, Holds, IsKept
<1>3. ASSUME NEW po \in PaymentOrder, Works(m, k, po), Pends(k, po) \/ Ends(k, po)
      PROVE  IsKept(k)
  <2>1. Records(m, k, po)
    BY <1>3 DEF Works, Places
  <2>2. \A leg \in Held(orders[k]) : po.transfer[leg] = orders[k].transfer[leg]
    BY <2>1 DEF Records, Accepts, Held
  <2>3. ~orders[k].finalized
    BY <2>1 DEF Records, Accepts
  <2>4. orders'[k].transfer = po.transfer
    BY <1>3 DEF Pends, Ends, Holds
  <2> QED
    BY <2>2, <2>3, <2>4 DEF IsKept
<1> QED
  BY <1>1, <1>2, <1>3 DEF RowChange

LEMMA NextKeeps ==
    ASSUME TypeOK, [Next]_vars, NEW k \in OrderKey, Placed(k)
    PROVE  IsKept(k)
<1>1. CASE orders' = orders
  BY <1>1 DEF IsKept
<1>2. ASSUME NEW m, ActorStep(m)
      PROVE  IsKept(k)
  BY <1>2, TypeParts, ActorRowChange, RowChangeKeeps
<1>3. ASSUME NEW old \in SUBSET OrderKey, Purging(old)
      PROVE  IsKept(k)
  BY <1>3 DEF Purging, Outdated, IsKept
<1> QED
  BY <1>1, <1>2, <1>3, NextSteps
  DEF Step, Preparing, TurningDown, Settling, Serves, ServiceRests, Publishing,
      Creating, Issuing, Ageing, Idling

\* A final order never changes until its row is deleted, and a recorded
\* transfer is never replaced, though messages are handled twice and late.
THEOREM RecordedStays == Spec => RecordedIsKept
<1>1. TypeOK /\ [Next]_vars => [\A k \in OrderKey : Placed(k) => IsKept(k)]_vars
  BY NextKeeps
<1>2. RecordedIsKept <=> [][\A k \in OrderKey : Placed(k) => IsKept(k)]_vars
  BY PTL DEF RecordedIsKept, IsKept
<1> QED
  BY <1>1, <1>2, TypeCorrect, PTL DEF Spec

----------------------------------------------------------------------------
(* Agreement: what is paid has been announced and ordered.                 *)

\* The messages of clients have been issued, each order number once, for
\* offers that exist.
QueuedAreIssued ==
    \A m \in queue :
      m.type \in {"make_payment_order", "cancel_formal_offer"} => m \in issued

OrdersIssuedOnce ==
    \A m, n \in issued :
      IsOrderRequest(m) /\ IsOrderRequest(n) /\ m.order = n.order => m = n

IssuedAreNumbered == \A m \in issued : OfferOf(m) <= lastOffer

\* What the payee has announced, what the payer of order k has ordered.
AsAnnounced(payment, reciprocal) ==
    \E terms \in Announced : payment \in terms.options /\ reciprocal = terms.reciprocal

AsOrdered(k, payment) ==
    \E m \in issued :
      IsOrderRequest(m) /\ m.order = k /\ m.secret /\ m.payment = payment

Agreed(k, terms) ==
    /\ AsOrdered(k, terms["payment"])
    /\ AsAnnounced(terms["payment"], terms["reciprocal"])

OfferAsAnnounced(f) ==
    \E terms \in Announced :
      /\ offers[f].options = terms.options
      /\ offers[f].reciprocal = terms.reciprocal

OffersAsAnnounced == \A f \in OfferId : offers[f] # None => OfferAsAnnounced(f)

OrdersAsAgreed == \A k \in OrderKey : Placed(k) => Agreed(k, orders[k].terms)

\* The terms of an order are among those of its offer.
MatchesOffer(k, terms) ==
    /\ terms["payment"] \in offers[k.offer].options
    /\ terms["reciprocal"] = offers[k.offer].reciprocal

OrdersFitOffers ==
    \A k \in OrderKey : Placed(k) /\ offers[k.offer] # None => MatchesOffer(k, orders[k].terms)

\* The inductive invariant.
AgreementInvariant ==
    /\ QueuedAreIssued
    /\ OrdersIssuedOnce
    /\ IssuedAreNumbered
    /\ OffersAsAnnounced
    /\ OrdersAsAgreed
    /\ OrdersFitOffers

\* A message that appears in the queue is a new request of a client, or no
\* request of a client at all.
LEMMA StepQueue ==
    ASSUME Step
    PROVE  /\ issued \subseteq issued'
           /\ \A x \in queue' :
                \/ x \in queue
                \/ x \in issued'
                \/ x.type \notin {"make_payment_order", "cancel_formal_offer"}
<1>1. ASSUME NEW m, ActorStep(m)
      PROVE  queue' \subseteq queue /\ issued' = issued
  BY <1>1 DEF ActorStep, Ignoring, Refusing, Dismissing, Expiring, Awaiting, Executing,
              Canceling, Rejecting, Acts
<1>2. ASSUME NEW m, NEW sent, Serves(m, sent)
      PROVE  queue' \subseteq queue \cup sent /\ issued' = issued
  BY <1>2 DEF Serves
<1>3. ASSUME NEW m
      PROVE  /\ RejectionFor(m).type = "rejected_transfer"
             /\ \A key : AnswerFor(m, key).type = "prepared_transfer"
  BY DEF RejectionFor, AnswerFor
<1>4. ASSUME NEW m, \/ \E key \in TransferKey : Preparing(m, key)
                    \/ TurningDown(m)
                    \/ Settling(m)
      PROVE  /\ issued' = issued
             /\ \A x \in queue' :
                  x \in queue \/ x.type \in {"rejected_transfer", "prepared_transfer"}
  <2>1. ASSUME NEW key, Preparing(m, key)
        PROVE  Serves(m, {AnswerFor(m, key)})
    BY <2>1 DEF Preparing
  <2>2. CASE TurningDown(m)
    BY <1>2, <1>3, <2>2 DEF TurningDown
  <2>3. CASE Settling(m)
    BY <1>2, <2>3 DEF Settling
  <2>4. ASSUME NEW key, Preparing(m, key)
        PROVE  /\ queue' \subseteq queue \cup {AnswerFor(m, key)}
               /\ AnswerFor(m, key).type = "prepared_transfer"
               /\ issued' = issued
    BY <1>2, <1>3, <2>1, <2>4
  <2> QED
    BY <1>4, <2>2, <2>3, <2>4
<1>5. CASE Publishing
  BY <1>5 DEF Publishing, RequestType
<1>6. ASSUME NEW m \in ClientRequest, Issuing(m)
      PROVE  issued' = issued \cup {m} /\ queue' = queue \cup {m}
  BY <1>6 DEF Issuing
<1>7. CASE \/ \E terms \in Announced : Creating(terms)
           \/ Ageing
           \/ \E old \in SUBSET OrderKey : Purging(old)
           \/ Idling
  BY <1>7 DEF Creating, Ageing, Purging, Idling
<1> QED
  BY <1>1, <1>4, <1>5, <1>6, <1>7 DEF Step

\* The fields of the rows that tell a payer how an order has ended.
LEMMA FailedPaymentFields ==
    ASSUME NEW k, NEW reason
    PROVE  /\ FailedPayment(k, reason).type = "failed_payment"
           /\ FailedPayment(k, reason).order = k
  BY DEF FailedPayment

LEMMA SuccessRowFields ==
    ASSUME NEW k, NEW po
    PROVE  /\ SuccessRow(k, po).type = "successful_payment"
           /\ SuccessRow(k, po).order = k
           /\ SuccessRow(k, po).terms = po.terms
  BY DEF SuccessRow

\* The types of the rows that the procedures emit.
LEMMA CommitRowTypes ==
    ASSUME NEW k, NEW po, NEW s \in CommitRows(k, po)
    PROVE  s.type = "finalize_prepared_transfer"
  BY DEF CommitRows, Finalization

LEMMA AbortRowTypes ==
    ASSUME NEW k, NEW po, NEW reason
    PROVE  /\ \A s \in AbortRows(k, po, reason) :
                s = FailedPayment(k, reason) \/ s.type = "finalize_prepared_transfer"
           /\ FailedPayment(k, reason) \in AbortRows(k, po, reason)
  BY DEF AbortRows, Finalization

LEMMA AbortAllRowTypes ==
    ASSUME NEW ks
    PROVE  /\ \A s \in AbortAllRows(ks) :
                \/ \E k \in ks : s = FailedPayment(k, "PAY004")
                \/ s.type = "finalize_prepared_transfer"
           /\ \A k \in ks : FailedPayment(k, "PAY004") \in AbortAllRows(ks)
  BY AbortRowTypes DEF AbortAllRows

LEMMA RejectionRowTypes ==
    ASSUME NEW k, NEW request
    PROVE  /\ \A s \in RejectionRows(k, request) :
                \/ s.type = "failed_payment" /\ s.order = k
                \/ s.type \in {"finalize_prepared_transfer", "failed_reciprocal_payment"}
           /\ \E s \in RejectionRows(k, request) :
                s.type = "failed_payment" /\ s.order = k
<1> DEFINE row == [type |-> "failed_reciprocal_payment", offer |-> k.offer]
<1>1. row.type = "failed_reciprocal_payment"
  OBVIOUS
<1>2. \E reason : \/ RejectionRows(k, request) = AbortRows(k, orders[k], reason) \cup {row}
                  \/ RejectionRows(k, request) = AbortRows(k, orders[k], reason)
  BY DEF RejectionRows
<1> HIDE DEF row
<1> QED
  BY <1>1, <1>2, AbortRowTypes, FailedPaymentFields

LEMMA ActorSuccesses ==
    ASSUME NEW m, ActorStep(m), NEW s \in Emitted("successful_payment")',
           s \notin Emitted("successful_payment")
    PROVE  \E k \in OrderKey, po \in PaymentOrder :
             Executing(m, k, po) /\ s = SuccessRow(k, po)
<1>0. s \in emitted' /\ s \notin emitted /\ s.type = "successful_payment"
  BY DEF Emitted
<1>1. CASE Ignoring(m)
  BY <1>0, <1>1 DEF Ignoring, Acts
<1>2. CASE Refusing(m)
  BY <1>0, <1>2, FailedPaymentFields DEF Refusing, Acts
<1>3. CASE Dismissing(m)
  BY <1>0, <1>3 DEF Dismissing, Acts, Finalization
<1>4. ASSUME NEW k \in OrderKey, NEW po \in PaymentOrder, Expiring(m, k, po)
      PROVE  FALSE
  BY <1>0, <1>4, FailedPaymentFields DEF Expiring, Acts
<1>5. ASSUME NEW k \in OrderKey, NEW po \in PaymentOrder, NEW leg \in Leg,
             Awaiting(m, k, po, leg)
      PROVE  FALSE
  BY <1>0, <1>5 DEF Awaiting, Acts, PrepareTransferRow
<1>6. ASSUME NEW k \in OrderKey, NEW po \in PaymentOrder, Executing(m, k, po)
      PROVE  s = SuccessRow(k, po)
  <2>1. s \in CommitRows(k, po) \cup AbortAllRows(Losers(k)) \cup {SuccessRow(k, po)}
    BY <1>0, <1>6 DEF Executing, Acts
  <2> QED
    BY <1>0, <2>1, CommitRowTypes, FailedPaymentFields, AbortAllRowTypes
<1>7. CASE Canceling(m)
  BY <1>0, <1>7, FailedPaymentFields, AbortAllRowTypes DEF Canceling, Acts
<1>8. ASSUME NEW k \in OrderKey, Rejecting(m, k)
      PROVE  FALSE
  BY <1>0, <1>8, RejectionRowTypes DEF Rejecting, Acts
<1> QED
  BY <1>1, <1>2, <1>3, <1>4, <1>5, <1>6, <1>7, <1>8 DEF ActorStep

\* The row that an actor works on is as agreed.
LEMMA WorksAgreed ==
    ASSUME TypeOK, AgreementInvariant, NEW m \in queue, NEW k, NEW po, Works(m, k, po)
    PROVE  Agreed(k, po.terms)
<1>1. k \in OrderKey /\ k.offer \in OfferId
  BY DEF Works, OrderKey
<1>2. CASE Places(m, k, po)
  <2>1. m.type = "make_payment_order" /\ m \in issued
    BY <1>2 DEF Places, OrderRequest, AgreementInvariant, QueuedAreIssued
  <2>2. AsOrdered(k, po.terms["payment"])
    BY <1>2, <2>1 DEF Places, OfferIsVisible, AsOrdered, IsOrderRequest
  <2>3. AsAnnounced(po.terms["payment"], po.terms["reciprocal"])
    BY <1>1, <1>2 DEF Places, OfferIsVisible, AgreementInvariant, OffersAsAnnounced,
                      OfferAsAnnounced, AsAnnounced
  <2> QED
    BY <2>2, <2>3 DEF Agreed
<1>3. CASE Records(m, k, po)
  BY <1>1, <1>3 DEF Records, Found, AgreementInvariant, OrdersAsAgreed
<1> QED
  BY <1>2, <1>3 DEF Works

\* It fits its offer as long as there is one.
LEMMA WorksFitting ==
    ASSUME TypeOK, AgreementInvariant, NEW m, NEW k, NEW po, Works(m, k, po),
           offers[k.offer] # None
    PROVE  MatchesOffer(k, po.terms)
<1>1. CASE Places(m, k, po)
  BY <1>1 DEF Places, MatchesOffer
<1>2. CASE Records(m, k, po)
  BY <1>2 DEF Records, Found, Works, AgreementInvariant, OrdersFitOffers, MatchesOffer
<1> QED
  BY <1>1, <1>2 DEF Works

\* What no step does to the offers but Creating.
OffersOnlyGo ==
    /\ lastOffer' = lastOffer
    /\ \A g \in OfferId : offers'[g] # None =>
         /\ offers[g] # None
         /\ offers'[g].options = offers[g].options
         /\ offers'[g].reciprocal = offers[g].reciprocal

LEMMA ActorOffers ==
    ASSUME NEW m, ActorStep(m)
    PROVE  OffersOnlyGo
<1>1. ASSUME offers' = offers, lastOffer' = lastOffer
      PROVE  OffersOnlyGo
  BY <1>1 DEF OffersOnlyGo
<1>2. ASSUME NEW f \in OfferId, OfferGoes(f), lastOffer' = lastOffer
      PROVE  OffersOnlyGo
  BY <1>2 DEF OffersOnlyGo, OfferGoes
<1>3. CASE Ignoring(m) \/ Refusing(m) \/ Dismissing(m)
  BY <1>1, <1>3 DEF Ignoring, Refusing, Dismissing, tables
<1>4. ASSUME NEW k \in OrderKey, NEW po \in PaymentOrder,
             Expiring(m, k, po) \/ \E leg \in Leg : Awaiting(m, k, po, leg)
      PROVE  OffersOnlyGo
  BY <1>1, <1>4 DEF Expiring, Awaiting, Acts
<1>5. ASSUME NEW k \in OrderKey, NEW po \in PaymentOrder, Executing(m, k, po)
      PROVE  OffersOnlyGo
  BY <1>2, <1>5 DEF Executing, Acts, OrderKey
<1>6. CASE Canceling(m)
  BY <1>2, <1>6 DEF Canceling, Acts, CancelRequest
<1>7. ASSUME NEW k \in OrderKey, Rejecting(m, k)
      PROVE  OffersOnlyGo
  BY <1>1, <1>7 DEF Rejecting, Acts
<1> QED
  BY <1>3, <1>4, <1>5, <1>6, <1>7 DEF ActorStep

LEMMA StepOffers ==
    ASSUME Step
    PROVE  OffersOnlyGo \/ \E terms \in Announced : Creating(terms)
<1>1. ASSUME offers' = offers, lastOffer' = lastOffer
      PROVE  OffersOnlyGo
  BY <1>1 DEF OffersOnlyGo
<1>2. CASE Ageing
  BY <1>2 DEF Ageing, OffersOnlyGo
<1> QED
  BY <1>1, <1>2, ActorOffers
  DEF Step, Preparing, TurningDown, Settling, Serves, ServiceRests, Publishing,
      Issuing, Purging, Idling

\* The rows of orders, in a step of the system.
LEMMA StepRow ==
    ASSUME TypeOK, Step, NEW k \in OrderKey
    PROVE  \/ orders'[k] = orders[k]
           \/ Outdated(k) /\ orders'[k] = None
           \/ \E m \in queue : ActorStep(m) /\ RowChange(m, k)
<1>1. ASSUME NEW old \in SUBSET OrderKey, Purging(old)
      PROVE  orders'[k] = orders[k] \/ (Outdated(k) /\ orders'[k] = None)
  BY <1>1 DEF Purging
<1>2. ASSUME NEW m \in queue, ActorStep(m)
      PROVE  RowChange(m, k)
  BY <1>2, TypeParts, ActorRowChange
<1> QED
  BY <1>1, <1>2
  DEF Step, Preparing, TurningDown, Settling, Serves, ServiceRests, Publishing,
      Creating, Issuing, Ageing, Idling

LEMMA StepSuccesses ==
    ASSUME Step, NEW s \in Emitted("successful_payment")',
           s \notin Emitted("successful_payment")
    PROVE  \E m \in queue, k \in OrderKey, po \in PaymentOrder :
             Executing(m, k, po) /\ s = SuccessRow(k, po)
<1>1. s \in emitted' /\ s \notin emitted /\ s.type = "successful_payment"
  BY DEF Emitted
<1>2. ASSUME NEW terms, Creating(terms)
      PROVE  FALSE
  BY <1>1, <1>2 DEF Creating
<1> QED
  BY <1>1, <1>2, ActorSuccesses
  DEF Step, Preparing, TurningDown, Settling, Serves, ServiceRests, Publishing,
      Issuing, Ageing, Purging, Idling

LEMMA InitAgreement == Init => AgreementInvariant
  BY DEF Init, SignalbusInit, PaymentsInit, AgreementInvariant, QueuedAreIssued,
         OrdersIssuedOnce, IssuedAreNumbered, OffersAsAnnounced, OrdersAsAgreed,
         OrdersFitOffers, Placed

\* Only a client issues requests.
LEMMA StepIssued ==
    ASSUME Step
    PROVE  issued' = issued \/ \E m \in ClientRequest : Issuing(m)
<1>1. ASSUME NEW m, ActorStep(m)
      PROVE  issued' = issued
  BY <1>1 DEF ActorStep, Ignoring, Refusing, Dismissing, Expiring, Awaiting, Executing,
              Canceling, Rejecting, Acts
<1> QED
  BY <1>1 DEF Step, Preparing, TurningDown, Settling, Serves, Publishing, Creating,
              Ageing, Purging, Idling

\* No order has a row before its offer is created.
LEMMA PlacedIsNumbered ==
    ASSUME AgreementInvariant, NEW k \in OrderKey, Placed(k)
    PROVE  k.offer <= lastOffer
<1>1. \E m \in issued : IsOrderRequest(m) /\ m.order = k
  BY DEF AgreementInvariant, OrdersAsAgreed, Agreed, AsOrdered
<1> QED
  BY <1>1 DEF AgreementInvariant, IssuedAreNumbered, OfferOf

LEMMA RowFits ==
    ASSUME TypeOK, AgreementInvariant, Step, NEW k \in OrderKey,
           orders'[k] # None, offers[k.offer] # None
    PROVE  MatchesOffer(k, orders'[k].terms)
<1>1. Placed(k) => MatchesOffer(k, orders[k].terms)
  BY DEF AgreementInvariant, OrdersFitOffers
<1>2. CASE orders'[k] = orders[k]
  BY <1>1, <1>2 DEF Placed
<1>3. ASSUME NEW m \in queue, RowChange(m, k)
      PROVE  MatchesOffer(k, orders'[k].terms)
  <2>1. ASSUME NEW po \in PaymentOrder, Works(m, k, po), Pends(k, po) \/ Ends(k, po)
        PROVE  MatchesOffer(k, orders'[k].terms)
    BY <2>1, WorksFitting DEF Pends, Ends, Holds
  <2>2. CASE IsUnfinalized(k) /\ Ends(k, orders[k])
    BY <1>1, <2>2 DEF IsUnfinalized, Ends, Holds
  <2> QED
    BY <1>2, <1>3, <2>1, <2>2 DEF RowChange
<1> QED
  BY <1>2, <1>3, StepRow

LEMMA NextAgreement ==
    ASSUME TypeOK, AgreementInvariant, [Next]_vars
    PROVE  AgreementInvariant'
<1>0. Step /\ issued \subseteq issued'
  BY NextSteps, StepQueue
<1>1. QueuedAreIssued'
  BY <1>0, StepQueue DEF AgreementInvariant, QueuedAreIssued
<1>2. OrdersIssuedOnce'
  <2>1. CASE issued' = issued
    BY <2>1 DEF AgreementInvariant, OrdersIssuedOnce, IsOrderRequest
  <2>2. ASSUME NEW m \in ClientRequest, Issuing(m)
        PROVE  OrdersIssuedOnce'
    BY <2>2 DEF AgreementInvariant, OrdersIssuedOnce, IsOrderRequest, Issuing
  <2> QED
    BY <1>0, <2>1, <2>2, StepIssued
<1>3. IssuedAreNumbered'
  <2>1. \A m \in issued' : OfferOf(m) <= lastOffer
    BY <1>0, StepIssued DEF AgreementInvariant, IssuedAreNumbered, Issuing
  <2>2. lastOffer' = lastOffer \/ lastOffer' = lastOffer + 1
    BY <1>0, StepOffers DEF OffersOnlyGo, Creating
  <2>3. ASSUME NEW m \in issued'
        PROVE  OfferOf(m) \in Int
    <3>1. m \in OrderRequest \cup CancelRequest
      BY <1>0, StepIssued, EnvironmentAssumption DEF TypeOK, Issuing
    <3> QED
      BY <3>1 DEF OfferOf, IsOrderRequest, OrderRequest, CancelRequest, OrderKey, OfferId
  <2>4. lastOffer \in Int
    BY DEF TypeOK
  <2> QED
    BY <2>1, <2>2, <2>3, <2>4 DEF IssuedAreNumbered, OfferOf, IsOrderRequest
<1>4. OffersAsAnnounced'
  <2>1. CASE OffersOnlyGo
    BY <2>1 DEF OffersOnlyGo, AgreementInvariant, OffersAsAnnounced, OfferAsAnnounced
  <2>2. ASSUME NEW terms \in Announced, Creating(terms)
        PROVE  OffersAsAnnounced'
    BY <2>2 DEF Creating, AgreementInvariant, OffersAsAnnounced, OfferAsAnnounced
  <2> QED
    BY <1>0, <2>1, <2>2, StepOffers
<1>5. OrdersAsAgreed'
  <2> SUFFICES ASSUME NEW k \in OrderKey, Placed(k)'
               PROVE  Agreed(k, orders[k].terms)'
    BY DEF OrdersAsAgreed
  <2>0. orders'[k] # None
    BY DEF Placed
  <2>1. Placed(k) => Agreed(k, orders[k].terms)
    BY DEF AgreementInvariant, OrdersAsAgreed
  <2>2. Agreed(k, orders'[k].terms)
    <3>1. CASE orders'[k] = orders[k]
      BY <2>0, <2>1, <3>1 DEF Placed
    <3>2. ASSUME NEW m \in queue, RowChange(m, k)
          PROVE  Agreed(k, orders'[k].terms)
      <4>1. ASSUME NEW po \in PaymentOrder, Works(m, k, po),
                   Pends(k, po) \/ Ends(k, po)
            PROVE  Agreed(k, orders'[k].terms)
        BY <4>1, WorksAgreed DEF Pends, Ends, Holds
      <4> QED
        BY <2>1, <3>1, <3>2, <4>1 DEF RowChange, Ends, Holds, IsUnfinalized
    <3> QED
      BY <1>0, <2>0, <3>1, <3>2, StepRow
  <2> QED
    BY <1>0, <2>2 DEF Agreed, AsOrdered, AsAnnounced
<1>6. OrdersFitOffers'
  <2> SUFFICES ASSUME NEW k \in OrderKey, orders'[k] # None, offers'[k.offer] # None
               PROVE  MatchesOffer(k, orders[k].terms)'
    BY DEF OrdersFitOffers, Placed
  <2>0. k.offer \in OfferId
    BY DEF OrderKey
  <2>1. CASE OffersOnlyGo
    <3>1. offers[k.offer] # None
      BY <2>0, <2>1 DEF OffersOnlyGo
    <3>2. MatchesOffer(k, orders'[k].terms)
      BY <1>0, <3>1, RowFits
    <3> QED
      BY <2>0, <2>1, <3>2 DEF OffersOnlyGo, MatchesOffer
  <2>2. ASSUME NEW terms \in Announced, Creating(terms)
        PROVE  MatchesOffer(k, orders[k].terms)'
    <3>1. orders' = orders
      BY <2>2 DEF Creating
    <3>2. k.offer <= lastOffer
      BY <3>1, PlacedIsNumbered DEF Placed
    <3>3. k.offer # lastOffer + 1
      BY <2>0, <3>2 DEF TypeOK, OfferId
    <3>4. offers'[k.offer] = offers[k.offer]
      BY <2>0, <2>2, <3>3 DEF Creating
    <3> QED
      BY <3>1, <3>4 DEF AgreementInvariant, OrdersFitOffers, Placed, MatchesOffer
  <2> QED
    BY <1>0, <2>1, <2>2, StepOffers
<1> QED
  BY <1>1, <1>2, <1>3, <1>4, <1>5, <1>6 DEF AgreementInvariant

LEMMA AgreementInvariantHolds == Spec => []AgreementInvariant
<1>1. TypeOK /\ AgreementInvariant /\ [Next]_vars => AgreementInvariant'
  BY NextAgreement
<1> QED
  BY <1>1, InitAgreement, TypeCorrect, PTL DEF Spec

\* What PaidAsAgreed says of one signal.
IsAgreed(s) ==
    LET offer == offers[s.order.offer]
    IN  /\ \E m \in issued :
             /\ IsOrderRequest(m)
             /\ m.order = s.order
             /\ m.secret
             /\ m.payment = s.terms["payment"]
        /\ \E terms \in Announced :
             /\ offer.options = terms.options
             /\ offer.reciprocal = terms.reciprocal
        /\ s.terms["payment"] \in offer.options
        /\ s.terms["reciprocal"] = offer.reciprocal

LEMMA NextPaysAsAgreed ==
    ASSUME TypeOK, AgreementInvariant, [Next]_vars, NEW s \in emitted' \ emitted,
           s.type = "successful_payment"
    PROVE  IsAgreed(s)
<1>1. PICK m \in queue, k \in OrderKey, po \in PaymentOrder :
             Executing(m, k, po) /\ s = SuccessRow(k, po)
  BY NextSteps, StepSuccesses DEF Emitted
<1>2. k.offer \in OfferId /\ offers[k.offer] # None
  BY <1>1 DEF Executing, OfferGoes, OrderKey
<1>3. Agreed(k, po.terms) /\ MatchesOffer(k, po.terms)
  BY <1>1, <1>2, WorksAgreed, WorksFitting DEF Executing
<1>4. OfferAsAnnounced(k.offer)
  BY <1>2 DEF AgreementInvariant, OffersAsAnnounced
<1>5. s.order = k /\ s.terms = po.terms
  BY <1>1, SuccessRowFields
<1> QED
  BY <1>3, <1>4, <1>5 DEF Agreed, AsOrdered, MatchesOffer, OfferAsAnnounced, IsAgreed

\* An order succeeds only as its payer has ordered it, knowing the secret of
\* the offer, and on the terms of this very offer, which are the ones that the
\* payee has announced, whatever happens between the order and its end.
THEOREM PaidOnlyAsAgreed == Spec => PaidAsAgreed
<1>1. TypeOK /\ AgreementInvariant /\ [Next]_vars =>
        [\A s \in emitted' \ emitted : s.type = "successful_payment" => IsAgreed(s)]_vars
  BY NextPaysAsAgreed
<1>2. PaidAsAgreed <=>
        [][\A s \in emitted' \ emitted :
             s.type = "successful_payment" => IsAgreed(s)]_vars
  BY PTL DEF PaidAsAgreed, IsAgreed
<1> QED
  BY <1>1, <1>2, TypeCorrect, AgreementInvariantHolds, PTL DEF Spec

----------------------------------------------------------------------------
(* Deadlines: the orders that come too late fail, and no others.           *)

\* What OnlyLateOrdersExpire says of one order.
KeepsDeadline(k) ==
    /\ HasExpired(k.offer) /\ ~IsUnfinalized(k) =>
         /\ ~IsUnfinalized(k)'
         /\ \A s \in emitted' \ emitted :
              s.type = "successful_payment" => s.order # k
    /\ FailedPayment(k, "PAY006") \in emitted' \ emitted =>
         HasExpired(k.offer) /\ ~Placed(k)

\* An order that an actor works on is pending, or comes in time.
LEMMA WorksInTime ==
    ASSUME NEW m, NEW k, NEW po, Works(m, k, po), InTime(k), HasExpired(k.offer)
    PROVE  IsUnfinalized(k)
<1>1. ~Places(m, k, po)
  BY DEF Places, InTime, HasExpired
<1>2. CASE Records(m, k, po)
  BY <1>2 DEF Records, Found, Accepts, IsUnfinalized
<1> QED
  BY <1>1, <1>2 DEF Works

LEMMA LateStaysFinal ==
    ASSUME NEW m, ActorStep(m), NEW k \in OrderKey, HasExpired(k.offer), ~IsUnfinalized(k)
    PROVE  ~IsUnfinalized(k)'
<1>1. ASSUME orders'[k] = orders[k]
      PROVE  ~IsUnfinalized(k)'
  BY <1>1 DEF IsUnfinalized, Placed
<1>2. ASSUME NEW po, Ends(k, po)
      PROVE  ~IsUnfinalized(k)'
  BY <1>2 DEF IsUnfinalized, Ends
<1>3. CASE Ignoring(m) \/ Refusing(m) \/ Dismissing(m)
  BY <1>1, <1>3 DEF Ignoring, Refusing, Dismissing, tables
<1>4. ASSUME NEW l \in OrderKey, NEW po \in PaymentOrder, Expiring(m, l, po)
      PROVE  ~IsUnfinalized(k)'
  BY <1>1, <1>2, <1>4 DEF Expiring, OthersStay
<1>5. ASSUME NEW l \in OrderKey, NEW po \in PaymentOrder, NEW leg \in Leg,
             Awaiting(m, l, po, leg)
      PROVE  ~IsUnfinalized(k)'
  BY <1>1, <1>5, WorksInTime DEF Awaiting, OthersStay
<1>6. ASSUME NEW l \in OrderKey, NEW po \in PaymentOrder, Executing(m, l, po)
      PROVE  ~IsUnfinalized(k)'
  BY <1>1, <1>2, <1>6 DEF Executing, OthersStay, AllEnd
<1>7. CASE Canceling(m)
  BY <1>1, <1>2, <1>7 DEF Canceling, OthersStay, AllEnd
<1>8. ASSUME NEW l \in OrderKey, Rejecting(m, l)
      PROVE  ~IsUnfinalized(k)'
  BY <1>1, <1>2, <1>8 DEF Rejecting, OthersStay, AllEnd
<1> QED
  BY <1>3, <1>4, <1>5, <1>6, <1>7, <1>8 DEF ActorStep

\* No other step tells a payer that the offer has expired.
LEMMA FailedPaymentIs ==
    ASSUME NEW k, NEW l, NEW reason, NEW other,
           FailedPayment(k, reason) = FailedPayment(l, other)
    PROVE  k = l /\ reason = other
  BY DEF FailedPayment

LEMMA OtherReasons ==
    ASSUME NEW k, NEW l, NEW ks, NEW request
    PROVE  /\ FailedPayment(k, "PAY006") \notin AbortAllRows(ks)
           /\ FailedPayment(k, "PAY006") \notin RejectionRows(l, request)
<1>1. ASSUME NEW x, NEW po, NEW reason, FailedPayment(k, "PAY006") \in AbortRows(x, po, reason)
      PROVE  reason = "PAY006"
  <2>1. FailedPayment(k, "PAY006") = FailedPayment(x, reason)
    BY <1>1, AbortRowTypes, FailedPaymentFields
  <2> QED
    BY <2>1, FailedPaymentIs
<1>2. FailedPayment(k, "PAY006") \notin AbortAllRows(ks)
  BY <1>1 DEF AbortAllRows
<1>3. FailedPayment(k, "PAY006") # [type |-> "failed_reciprocal_payment", offer |-> l.offer]
  BY DEF FailedPayment
<1> QED
  BY <1>1, <1>2, <1>3 DEF RejectionRows

LEMMA ExpiryIsLate ==
    ASSUME NEW m, ActorStep(m), NEW k \in OrderKey,
           FailedPayment(k, "PAY006") \in emitted' \ emitted
    PROVE  HasExpired(k.offer) /\ ~Placed(k)
<1> DEFINE row == FailedPayment(k, "PAY006")
<1>0. row.type = "failed_payment"
  BY FailedPaymentFields
<1>1. CASE Ignoring(m)
  BY <1>1 DEF Ignoring, Acts
<1>2. CASE Refusing(m)
  BY <1>2, FailedPaymentIs DEF Refusing, Acts
<1>3. CASE Dismissing(m)
  BY <1>0, <1>3 DEF Dismissing, Acts, Finalization
<1>4. ASSUME NEW l \in OrderKey, NEW po \in PaymentOrder, Expiring(m, l, po)
      PROVE  HasExpired(k.offer) /\ ~Placed(k)
  <2>1. l = k
    BY <1>4, FailedPaymentIs DEF Expiring, Acts
  <2> QED
    BY <1>4, <2>1 DEF Expiring, Places, InTime, OfferIsVisible, HasExpired
<1>5. ASSUME NEW l \in OrderKey, NEW po \in PaymentOrder, NEW leg \in Leg,
             Awaiting(m, l, po, leg)
      PROVE  FALSE
  BY <1>0, <1>5 DEF Awaiting, Acts, PrepareTransferRow
<1>6. ASSUME NEW l \in OrderKey, NEW po \in PaymentOrder, Executing(m, l, po)
      PROVE  FALSE
  <2>1. row \in CommitRows(l, po) \cup AbortAllRows(Losers(l)) \cup {SuccessRow(l, po)}
    BY <1>6 DEF Executing, Acts
  <2> QED
    BY <1>0, <2>1, CommitRowTypes, SuccessRowFields, OtherReasons
<1>7. CASE Canceling(m)
  BY <1>0, <1>7, OtherReasons DEF Canceling, Acts
<1>8. ASSUME NEW l \in OrderKey, Rejecting(m, l)
      PROVE  FALSE
  BY <1>8, OtherReasons DEF Rejecting, Acts
<1> QED
  BY <1>1, <1>2, <1>3, <1>4, <1>5, <1>6, <1>7, <1>8 DEF ActorStep

LEMMA NextKeepsDeadlines ==
    ASSUME [Next]_vars, TypeOK, NEW k \in OrderKey
    PROVE  KeepsDeadline(k)
<1>0. Step
  BY NextSteps
<1>1. ASSUME HasExpired(k.offer), ~IsUnfinalized(k), NEW s \in emitted' \ emitted,
             s.type = "successful_payment", s.order = k
      PROVE  FALSE
  <2>1. PICK m \in queue, l \in OrderKey, po \in PaymentOrder :
               Executing(m, l, po) /\ s = SuccessRow(l, po)
    BY <1>0, <1>1, StepSuccesses DEF Emitted
  <2>2. Executing(m, k, po)
    BY <1>1, <2>1, SuccessRowFields
  <2> QED
    BY <1>1, <2>2, WorksInTime DEF Executing
<1>2. ASSUME NEW m, ActorStep(m)
      PROVE  KeepsDeadline(k)
  BY <1>1, <1>2, LateStaysFinal, ExpiryIsLate DEF KeepsDeadline
<1>3. ASSUME orders'[k] = orders[k] \/ orders'[k] = None,
             FailedPayment(k, "PAY006") \notin emitted' \ emitted
      PROVE  KeepsDeadline(k)
  BY <1>1, <1>3 DEF KeepsDeadline, IsUnfinalized, Placed
<1>4. ASSUME NEW terms, Creating(terms)
      PROVE  KeepsDeadline(k)
  <2>1. FailedPayment(k, "PAY006") \notin emitted' \ emitted
    BY <1>4, FailedPaymentFields DEF Creating
  <2> QED
    BY <1>3, <1>4, <2>1 DEF Creating
<1>5. ASSUME NEW old \in SUBSET OrderKey, Purging(old)
      PROVE  KeepsDeadline(k)
  BY <1>3, <1>5 DEF Purging
<1> QED
  BY <1>0, <1>2, <1>3, <1>4, <1>5
  DEF Step, Preparing, TurningDown, Settling, Serves, ServiceRests, Publishing,
      Issuing, Ageing, Idling

\* The deadline of an offer cuts off the orders that come after it, whatever
\* is delivered later, and no order that has come in time.
THEOREM DeadlinesHold == Spec => OnlyLateOrdersExpire
<1>1. TypeOK /\ [Next]_vars => [\A k \in OrderKey : KeepsDeadline(k)]_vars
  BY NextKeepsDeadlines
<1>2. OnlyLateOrdersExpire <=> [][\A k \in OrderKey : KeepsDeadline(k)]_vars
  BY PTL DEF OnlyLateOrdersExpire, KeepsDeadline
<1> QED
  BY <1>1, <1>2, TypeCorrect, PTL DEF Spec

----------------------------------------------------------------------------
(* Outcomes: an order has one, and has it exactly when it is final.        *)

FinalHasOutcome ==
    \A k \in OrderKey : Placed(k) => (orders[k].finalized <=> HasOutcome(k))

OneSuccess ==
    /\ \A s, t \in Emitted("successful_payment") : s.order = t.order => s = t
    /\ \A k \in OrderKey : ~(Succeeded(k) /\ Failed(k))

\* A message about an order that has failed, and has no row, cannot bring the
\* order back: its offer is gone, or never fitted.  (An order that has
\* succeeded keeps its row as long as there are messages about it.)
DecidedIsOver ==
    \A k \in OrderKey : HasOutcome(k) /\ ~Placed(k) =>
      \A m \in queue : IsOrderRequest(m) /\ m.order = k =>
        Hopeless(m) /\ ~Succeeded(k)

KnownIsIssued ==
    \A k \in OrderKey : Placed(k) \/ HasOutcome(k) =>
      \E m \in issued : IsOrderRequest(m) /\ m.order = k

\* No order is forgotten.
IssuedIsHandled ==
    \A m \in issued : IsOrderRequest(m) =>
      m \in queue \/ Placed(m.order) \/ HasOutcome(m.order)

\* The inductive invariant.
OutcomeInvariant ==
    /\ FinalHasOutcome
    /\ OneSuccess
    /\ DecidedIsOver
    /\ KnownIsIssued
    /\ IssuedIsHandled

LEMMA OutcomeParts ==
    ASSUME NEW k
    PROVE  HasOutcome(k) <=> Succeeded(k) \/ Failed(k)
  BY DEF HasOutcome, Succeeded, Failed

LEMMA OutcomePartsNext ==
    ASSUME NEW k
    PROVE  HasOutcome(k)' <=> Succeeded(k)' \/ Failed(k)'
  BY DEF HasOutcome, Succeeded, Failed

\* The orders that the rows report as paid, and as failed.
WonIn(rows) == {s.order : s \in {r \in rows : r.type = "successful_payment"}}

LostIn(rows) == {s.order : s \in {r \in rows : r.type = "failed_payment"}}

LEMMA RowsTell ==
    ASSUME NEW rows, emitted' = emitted \cup rows, NEW k
    PROVE  /\ Succeeded(k)' <=> Succeeded(k) \/ k \in WonIn(rows)
           /\ Failed(k)' <=> Failed(k) \/ k \in LostIn(rows)
           /\ HasOutcome(k)' <=> HasOutcome(k) \/ k \in WonIn(rows) \/ k \in LostIn(rows)
<1>1. Succeeded(k)' <=> Succeeded(k) \/ k \in WonIn(rows)
  BY DEF Succeeded, Emitted, WonIn
<1>2. Failed(k)' <=> Failed(k) \/ k \in LostIn(rows)
  BY DEF Failed, Emitted, LostIn
<1> QED
  BY <1>1, <1>2, OutcomeParts, OutcomePartsNext

\* The step of an actor decides the orders in won and in lost.
Decides(m, rows) ==
    LET won  == WonIn(rows)
        lost == LostIn(rows)
        mine == {k \in OrderKey : m \in OrderRequest /\ k = m.order}
    IN  /\ Acts(m, rows)
        /\ OffersOnlyGo
        /\ won \cup lost \subseteq OrderKey
        /\ \A k \in won : ~HasOutcome(k) /\ k \notin lost /\ Placed(k)'
        /\ \A s, t \in rows :
             s.type = "successful_payment" /\ t.type = "successful_payment" => s = t
        /\ \A k \in lost :
             /\ ~Succeeded(k)
             /\ Placed(k)' \/ (k \in mine /\ Hopeless(m))
        /\ \A k \in won \cup lost : Placed(k)' => orders'[k].finalized
        /\ \A k \in OrderKey \ (won \cup lost) :
             \/ orders'[k] = orders[k]
             \/ Placed(k)' /\ ~orders'[k].finalized /\ ~HasOutcome(k)
        /\ \A k \in OrderKey : Placed(k) => Placed(k)'
        /\ \A k \in OrderKey : Placed(k)' \/ k \in lost => Placed(k) \/ k \in mine
        /\ \A k \in mine : Placed(k)' \/ k \in lost

LEMMA DecidesOutcomes ==
    ASSUME TypeOK, AgreementInvariant, OutcomeInvariant, NEW m \in queue, NEW rows,
           Decides(m, rows)
    PROVE  OutcomeInvariant'
<1> DEFINE won  == WonIn(rows)
           lost == LostIn(rows)
           mine == {k \in OrderKey : m \in OrderRequest /\ k = m.order}
<1>0. /\ emitted' = emitted \cup rows
      /\ queue' \subseteq queue /\ queue \ {m} \subseteq queue'
      /\ issued' = issued
  BY DEF Decides, Acts
<1>1. \A k \in OrderKey :
        /\ Succeeded(k)' <=> Succeeded(k) \/ k \in won
        /\ Failed(k)' <=> Failed(k) \/ k \in lost
        /\ HasOutcome(k)' <=> HasOutcome(k) \/ k \in won \/ k \in lost
  BY <1>0, RowsTell
<1>2. /\ OffersOnlyGo
      /\ won \cup lost \subseteq OrderKey
      /\ \A k \in won : ~HasOutcome(k) /\ k \notin lost /\ Placed(k)'
      /\ \A s, t \in rows :
           s.type = "successful_payment" /\ t.type = "successful_payment" => s = t
      /\ \A k \in lost :
           /\ ~Succeeded(k)
           /\ Placed(k)' \/ (k \in mine /\ Hopeless(m))
      /\ \A k \in won \cup lost : Placed(k)' => orders'[k].finalized
      /\ \A k \in OrderKey \ (won \cup lost) :
           \/ orders'[k] = orders[k]
           \/ Placed(k)' /\ ~orders'[k].finalized /\ ~HasOutcome(k)
      /\ \A k \in OrderKey : Placed(k) => Placed(k)'
      /\ \A k \in OrderKey : Placed(k)' \/ k \in lost => Placed(k) \/ k \in mine
      /\ \A k \in mine : Placed(k)' \/ k \in lost
  BY DEF Decides
<1>3. FinalHasOutcome'
  <2> SUFFICES ASSUME NEW k \in OrderKey, Placed(k)'
               PROVE  (orders[k].finalized)' <=> HasOutcome(k)'
    BY DEF FinalHasOutcome
  <2> HIDE DEF won, lost, mine
  <2>1. CASE k \in won \cup lost
    BY <1>1, <1>2, <2>1
  <2>2. CASE k \notin won \cup lost /\ orders'[k] = orders[k]
    BY <1>1, <2>2 DEF OutcomeInvariant, FinalHasOutcome, Placed
  <2> QED
    BY <1>1, <1>2, <2>1, <2>2
<1>4. OneSuccess'
  <2>1. ASSUME NEW s \in Emitted("successful_payment")',
               NEW t \in Emitted("successful_payment")', s.order = t.order
        PROVE  s = t
    <3>1. ASSUME NEW r \in Emitted("successful_payment")'
          PROVE  \/ r \in Emitted("successful_payment")
                 \/ r \in rows /\ r.type = "successful_payment" /\ r.order \in won
      BY <1>0 DEF Emitted, WonIn
    <3>2. ASSUME NEW r \in Emitted("successful_payment")
          PROVE  Succeeded(r.order) /\ HasOutcome(r.order)
      BY OutcomeParts DEF Succeeded
    <3> HIDE DEF won, lost, mine
    <3> QED
      BY <1>2, <2>1, <3>1, <3>2 DEF OutcomeInvariant, OneSuccess
  <2>2. ASSUME NEW k \in OrderKey
        PROVE  ~(Succeeded(k)' /\ Failed(k)')
    <3> HIDE DEF won, lost, mine
    <3> QED
      BY <1>1, <1>2, OutcomeParts DEF OutcomeInvariant, OneSuccess
  <2> QED
    BY <2>1, <2>2 DEF OneSuccess
<1>5. DecidedIsOver'
  <2> SUFFICES ASSUME NEW k \in OrderKey, HasOutcome(k)', ~Placed(k)',
                      NEW x \in queue', IsOrderRequest(x), x.order = k
               PROVE  Hopeless(x)' /\ ~Succeeded(k)'
    BY DEF DecidedIsOver, IsOrderRequest
  <2>1. x \in queue /\ x \in OrderRequest /\ x \in issued /\ k.offer \in OfferId
    BY <1>0, MessageByType
    DEF TypeOK, IsOrderRequest, AgreementInvariant, QueuedAreIssued, OrderKey
  <2>2. ~Placed(k) /\ k \notin won
    BY <1>2
  <2>3. Hopeless(x) /\ ~Succeeded(k)
    <3>1. CASE HasOutcome(k)
      BY <2>1, <2>2, <3>1 DEF OutcomeInvariant, DecidedIsOver
    <3>2. CASE k \in lost
      <4>1. m \in OrderRequest /\ m.order = k /\ Hopeless(m)
        BY <1>2, <3>2
      <4>2. m \in issued /\ IsOrderRequest(m)
        BY <4>1 DEF OrderRequest, AgreementInvariant, QueuedAreIssued, IsOrderRequest
      <4>3. x = m
        BY <2>1, <4>1, <4>2 DEF AgreementInvariant, OrdersIssuedOnce
      <4> QED
        BY <1>2, <3>2, <4>1, <4>3
    <3> HIDE DEF won, lost, mine
    <3> QED
      BY <1>1, <2>2, <3>1, <3>2
  <2>4. Hopeless(x)'
    BY <1>2, <2>1, <2>3 DEF Hopeless, OfferIsVisible, OffersOnlyGo
  <2> HIDE DEF won, lost, mine
  <2> QED
    BY <1>1, <2>2, <2>3, <2>4
<1>6. KnownIsIssued'
  <2> SUFFICES ASSUME NEW k \in OrderKey, Placed(k)' \/ HasOutcome(k)'
               PROVE  \E x \in issued : IsOrderRequest(x) /\ x.order = k
    BY <1>0 DEF KnownIsIssued, IsOrderRequest
  <2>1. Placed(k) \/ HasOutcome(k) \/ k \in mine
    <3> HIDE DEF won, lost, mine
    <3> QED
      BY <1>1, <1>2
  <2>2. CASE k \in mine
    BY <2>2 DEF OrderRequest, AgreementInvariant, QueuedAreIssued, IsOrderRequest
  <2> QED
    BY <2>1, <2>2 DEF OutcomeInvariant, KnownIsIssued
<1>7. IssuedIsHandled'
  <2> SUFFICES ASSUME NEW x \in issued, IsOrderRequest(x)
               PROVE  x \in queue' \/ Placed(x.order)' \/ HasOutcome(x.order)'
    BY <1>0 DEF IssuedIsHandled, IsOrderRequest
  <2>1. x \in OrderRequest /\ x.order \in OrderKey
    BY EnvironmentAssumption DEF TypeOK, IsOrderRequest, OrderRequest, CancelRequest
  <2>2. x \in queue \/ Placed(x.order) \/ HasOutcome(x.order)
    BY DEF OutcomeInvariant, IssuedIsHandled
  <2>3. x = m => x.order \in mine
    BY <2>1
  <2> HIDE DEF won, lost, mine
  <2> QED
    BY <1>0, <1>1, <1>2, <2>1, <2>2, <2>3
<1> QED
  BY <1>3, <1>4, <1>5, <1>6, <1>7 DEF OutcomeInvariant

\* Rows that report no outcome.
LEMMA QuietRowsTell ==
    ASSUME NEW rows,
           \A s \in rows : s.type \notin {"successful_payment", "failed_payment"}
    PROVE  WonIn(rows) = {} /\ LostIn(rows) = {}
  BY DEF WonIn, LostIn

LEMMA FailureRowsTell ==
    ASSUME NEW k, NEW reason
    PROVE  /\ WonIn({FailedPayment(k, reason)}) = {}
           /\ LostIn({FailedPayment(k, reason)}) = {k}
  BY FailedPaymentFields DEF WonIn, LostIn

LEMMA ExecuteRowsTell ==
    ASSUME NEW k, NEW po, NEW ks, NEW rows,
           rows = CommitRows(k, po) \cup AbortAllRows(ks) \cup {SuccessRow(k, po)}
    PROVE  /\ WonIn(rows) = {k}
           /\ LostIn(rows) = ks
           /\ \A s \in rows : s.type = "successful_payment" => s = SuccessRow(k, po)
<1>1. \A s \in rows :
        /\ s.type = "successful_payment" => s = SuccessRow(k, po)
        /\ s.type = "failed_payment" => \E l \in ks : s = FailedPayment(l, "PAY004")
  BY CommitRowTypes, AbortAllRowTypes, SuccessRowFields, FailedPaymentFields
<1>2. WonIn(rows) = {k}
  BY <1>1, SuccessRowFields DEF WonIn
<1>3. LostIn(rows) = ks
  <2>1. \A l \in ks : FailedPayment(l, "PAY004") \in rows
    BY AbortAllRowTypes
  <2> QED
    BY <1>1, <2>1, FailedPaymentFields DEF LostIn
<1> QED
  BY <1>1, <1>2, <1>3

LEMMA CancelRowsTell ==
    ASSUME NEW ks, NEW f, NEW rows,
           rows = AbortAllRows(ks) \cup {[type |-> "canceled_formal_offer", offer |-> f]}
    PROVE  WonIn(rows) = {} /\ LostIn(rows) = ks
<1>1. \A s \in rows :
        /\ s.type # "successful_payment"
        /\ s.type = "failed_payment" => \E l \in ks : s = FailedPayment(l, "PAY004")
  BY AbortAllRowTypes, FailedPaymentFields
<1>2. \A l \in ks : FailedPayment(l, "PAY004") \in rows
  BY AbortAllRowTypes
<1> QED
  BY <1>1, <1>2, FailedPaymentFields DEF WonIn, LostIn

LEMMA RejectionRowsTell ==
    ASSUME NEW k, NEW request
    PROVE  /\ WonIn(RejectionRows(k, request)) = {}
           /\ LostIn(RejectionRows(k, request)) = {k}
  BY RejectionRowTypes DEF WonIn, LostIn

\* An order that is still worked on has no outcome.
LEMMA UnfinalizedUndecided ==
    ASSUME OutcomeInvariant, NEW k \in OrderKey, IsUnfinalized(k)
    PROVE  ~HasOutcome(k) /\ ~Succeeded(k)
  BY OutcomeParts DEF OutcomeInvariant, FinalHasOutcome, IsUnfinalized

LEMMA WorksUndecided ==
    ASSUME OutcomeInvariant, NEW m \in queue, NEW k, NEW po, Works(m, k, po)
    PROVE  ~HasOutcome(k) /\ ~Succeeded(k)
<1>1. k \in OrderKey
  BY DEF Works
<1>2. CASE Places(m, k, po)
  <2>1. ~Placed(k) /\ m.order = k /\ IsOrderRequest(m) /\ ~Hopeless(m)
    BY <1>2 DEF Places, OrderRequest, IsOrderRequest, Hopeless
  <2> QED
    BY <1>1, <2>1, OutcomeParts DEF OutcomeInvariant, DecidedIsOver
<1>3. CASE Records(m, k, po)
  BY <1>1, <1>3, UnfinalizedUndecided DEF Records, Found, Accepts, IsUnfinalized
<1> QED
  BY <1>2, <1>3 DEF Works

\* The only order that gets a row is the one that is placed.
LEMMA WorksPlaced ==
    ASSUME NEW m, NEW k, NEW po, Works(m, k, po)
    PROVE  \/ m \in OrderRequest /\ m.order = k
           \/ m \notin OrderRequest /\ Placed(k)
  BY DEF Works, Places, Records, Found, OrderRequest, PreparedTransferSignal

\* A transaction that changes no row, and tells of an order that is refused,
\* or of none.
LEMMA RestingDecides ==
    ASSUME NEW m, NEW rows, Acts(m, rows), UNCHANGED tables,
           WonIn(rows) = {},
           \/ /\ LostIn(rows) = {}
              /\ m \in OrderRequest => Placed(m.order)
           \/ /\ LostIn(rows) = {m.order}
              /\ m \in OrderRequest
              /\ ~Placed(m.order)
              /\ Hopeless(m)
              /\ ~Succeeded(m.order)
    PROVE  Decides(m, rows)
<1>1. OffersOnlyGo
  BY DEF OffersOnlyGo, tables
<1>2. \A s, t \in rows :
        s.type = "successful_payment" /\ t.type = "successful_payment" => s = t
  BY DEF WonIn
<1>3. m \in OrderRequest => m.order \in OrderKey
  BY DEF OrderRequest
<1>4. orders' = orders /\ \A k : Placed(k)' <=> Placed(k)
  BY DEF tables, Placed
<1>5. CASE LostIn(rows) = {} /\ (m \in OrderRequest => Placed(m.order))
  BY <1>1, <1>2, <1>3, <1>4, <1>5 DEF Decides
<1>6. CASE /\ LostIn(rows) = {m.order}
           /\ m \in OrderRequest
           /\ ~Placed(m.order)
           /\ Hopeless(m)
           /\ ~Succeeded(m.order)
  <2>1. \A k \in LostIn(rows) : k = m.order
    BY <1>6
  <2>2. \A k \in WonIn(rows) \cup LostIn(rows) : ~Placed(k)'
    BY <1>4, <1>6, <2>1
  <2> QED
    BY <1>1, <1>2, <1>3, <1>4, <1>6, <2>1, <2>2 DEF Decides
<1> QED
  BY <1>5, <1>6

\* A transaction that ends the orders in "ended", and works on an order (or
\* on none) that is pending afterwards unless it is one of them.
Changes(m, rows, ended, worked) ==
    /\ Acts(m, rows)
    /\ ended \cup worked \subseteq OrderKey
    /\ OthersStay(ended \cup worked)
    /\ WonIn(rows) \cup LostIn(rows) = ended
    /\ WonIn(rows) \cap LostIn(rows) = {}
    /\ \A s, t \in rows :
         s.type = "successful_payment" /\ t.type = "successful_payment" => s = t
    /\ \A k \in ended : orders'[k].finalized
    /\ \A k \in worked \ ended : ~orders'[k].finalized
    /\ m \in OrderRequest => m.order \in worked
    /\ \A k \in ended \cup worked :
         /\ ~HasOutcome(k)
         /\ orders'[k] # None
         /\ Placed(k) \/ (m \in OrderRequest /\ k = m.order)

LEMMA ChangingDecides ==
    ASSUME NEW m, NEW rows, NEW ended, NEW worked, OffersOnlyGo,
           Changes(m, rows, ended, worked)
    PROVE  Decides(m, rows)
<1>1. \A k \in OrderKey \ (ended \cup worked) : orders'[k] = orders[k]
  BY DEF Changes, OthersStay
<1>2. \A k : Placed(k)' <=> orders'[k] # None
  BY DEF Placed
<1>3. \A k \in OrderKey : Placed(k) => Placed(k)'
  BY <1>1, <1>2 DEF Changes, Placed
<1>4. \A k \in ended \cup worked : ~Succeeded(k)
  BY OutcomeParts DEF Changes
<1>5. \A k \in OrderKey : Placed(k)' =>
        Placed(k) \/ (m \in OrderRequest /\ k = m.order)
  BY <1>1, <1>2 DEF Changes, Placed
<1> QED
  BY <1>1, <1>2, <1>3, <1>4, <1>5 DEF Changes, Decides

LEMMA ActorDecides ==
    ASSUME TypeOK, OutcomeInvariant, NEW m \in queue, ActorStep(m)
    PROVE  \E rows : Decides(m, rows)
<1>0. OffersOnlyGo
  BY ActorOffers
<1>1. CASE Ignoring(m)
  <2>1. WonIn({}) = {} /\ LostIn({}) = {}
    BY QuietRowsTell
  <2>2. m \in OrderRequest => Placed(m.order)
    BY <1>1 DEF Ignoring, OrderRequest, CancelRequest, PreparedTransferSignal,
                RejectedTransferSignal
  <2>3. Decides(m, {})
    BY <1>1, <2>1, <2>2, RestingDecides DEF Ignoring
  <2> QED
    BY <2>3
<1>2. CASE Refusing(m)
  <2>1. PICK reason \in FailureReason : Acts(m, {FailedPayment(m.order, reason)})
    BY <1>2 DEF Refusing
  <2>2. m.order \in OrderKey /\ IsOrderRequest(m)
    BY <1>2 DEF Refusing, OrderRequest, IsOrderRequest
  <2>3. ~Succeeded(m.order)
    BY <1>2, <2>2, OutcomeParts DEF Refusing, OutcomeInvariant, DecidedIsOver
  <2>4. Decides(m, {FailedPayment(m.order, reason)})
    BY <1>2, <2>1, <2>3, FailureRowsTell, RestingDecides DEF Refusing
  <2> QED
    BY <2>4
<1>3. CASE Dismissing(m)
  <2> DEFINE rows == {Finalization(m.transfer, 0)}
  <2>1. WonIn(rows) = {} /\ LostIn(rows) = {}
    BY QuietRowsTell DEF Finalization
  <2>2. m \notin OrderRequest
    BY <1>3 DEF Dismissing, OrderRequest, PreparedTransferSignal
  <2>3. Decides(m, rows)
    <3>1. Acts(m, rows) /\ UNCHANGED tables
      BY <1>3 DEF Dismissing
    <3> HIDE DEF rows
    <3> QED
      BY <2>1, <2>2, <3>1, RestingDecides
  <2> QED
    BY <2>3
<1>4. ASSUME NEW k \in OrderKey, NEW po \in PaymentOrder, Expiring(m, k, po)
      PROVE  \E rows : Decides(m, rows)
  <2> DEFINE rows == {FailedPayment(k, "PAY006")}
  <2>1. WonIn(rows) = {} /\ LostIn(rows) = {k}
    BY FailureRowsTell
  <2>2. \A s \in rows : s.type # "successful_payment"
    BY FailedPaymentFields
  <2>3. Works(m, k, po) /\ Acts(m, rows) /\ OthersStay({k})
    BY <1>4 DEF Expiring
  <2>4. orders'[k] # None /\ orders'[k].finalized
    BY <1>4 DEF Expiring, Ends, Holds
  <2>5. m \in OrderRequest /\ m.order = k
    BY <1>4 DEF Expiring, Places
  <2> HIDE DEF rows
  <2>6. Changes(m, rows, {k}, {k})
    BY <2>1, <2>2, <2>3, <2>4, <2>5, WorksUndecided DEF Changes
  <2>7. Decides(m, rows)
    BY <1>0, <2>6, ChangingDecides
  <2> QED
    BY <2>7
<1>5. ASSUME NEW k \in OrderKey, NEW po \in PaymentOrder, NEW leg \in Leg,
             Awaiting(m, k, po, leg)
      PROVE  \E rows : Decides(m, rows)
  <2> DEFINE rows == {PrepareTransferRow(k, po, leg)}
  <2>1. \A s \in rows : s.type = "prepare_transfer"
    BY DEF PrepareTransferRow
  <2>2. Works(m, k, po) /\ Acts(m, rows) /\ OthersStay({k})
    BY <1>5 DEF Awaiting
  <2>3. orders'[k] # None /\ ~orders'[k].finalized
    BY <1>5 DEF Awaiting, Pends, Holds
  <2> HIDE DEF rows
  <2>4. WonIn(rows) = {} /\ LostIn(rows) = {}
    BY <2>1, QuietRowsTell
  <2>5. \A s \in rows : s.type # "successful_payment"
    BY <2>1
  <2>6. ~HasOutcome(k) /\ (Placed(k) \/ (m \in OrderRequest /\ k = m.order))
    BY <2>2, WorksUndecided, WorksPlaced
  <2>7. m \in OrderRequest => m.order = k
    BY <2>2, WorksPlaced
  <2>8. Changes(m, rows, {}, {k})
    BY <2>2, <2>3, <2>4, <2>5, <2>6, <2>7 DEF Changes
  <2>9. Decides(m, rows)
    BY <1>0, <2>8, ChangingDecides
  <2> QED
    BY <2>9
<1>6. ASSUME NEW k \in OrderKey, NEW po \in PaymentOrder, Executing(m, k, po)
      PROVE  \E rows : Decides(m, rows)
  <2> DEFINE rows == CommitRows(k, po) \cup AbortAllRows(Losers(k)) \cup {SuccessRow(k, po)}
  <2>1. /\ WonIn(rows) = {k}
        /\ LostIn(rows) = Losers(k)
        /\ \A s \in rows : s.type = "successful_payment" => s = SuccessRow(k, po)
    BY ExecuteRowsTell
  <2>2. Works(m, k, po) /\ Acts(m, rows) /\ OthersStay(Losers(k) \cup {k})
    BY <1>6 DEF Executing
  <2>3. k \notin Losers(k) /\ \A l \in Losers(k) : l \in OrderKey /\ IsUnfinalized(l)
    BY DEF Losers, Unfinalized
  <2>4. \A l \in Losers(k) \cup {k} :
          ~HasOutcome(l) /\ orders'[l] # None /\ orders'[l].finalized
    BY <1>6, <2>2, <2>3, UnfinalizedUndecided, WorksUndecided
    DEF Executing, AllEnd, Ends, Holds
  <2>5. \A l \in Losers(k) : Placed(l)
    BY <2>3 DEF IsUnfinalized
  <2> HIDE DEF rows
  <2> DEFINE ended == Losers(k) \cup {k}
  <2>6. WonIn(rows) \cup LostIn(rows) = ended /\ WonIn(rows) \cap LostIn(rows) = {}
    BY <2>1, <2>3
  <2>7. m \in OrderRequest => m.order = k
    BY <2>2, WorksPlaced
  <2>8. \A l \in ended : Placed(l) \/ (m \in OrderRequest /\ l = m.order)
    BY <2>2, <2>5, WorksPlaced
  <2>9. ended \subseteq OrderKey /\ k \in ended /\ OthersStay(ended \cup {k})
    <3>1. ended \cup {k} = ended
      OBVIOUS
    <3> QED
      BY <2>2, <2>3, <3>1
  <2>10. \A l \in ended : ~HasOutcome(l) /\ orders'[l] # None /\ orders'[l].finalized
    BY <2>4
  <2> HIDE DEF ended
  <2>11. Changes(m, rows, ended, {k})
    BY <2>1, <2>2, <2>6, <2>7, <2>8, <2>9, <2>10 DEF Changes
  <2>12. Decides(m, rows)
    BY <1>0, <2>11, ChangingDecides
  <2> QED
    BY <2>12
<1>7. CASE Canceling(m)
  <2> DEFINE ks   == Unfinalized(m.offer)
             rows == AbortAllRows(ks)
                       \cup {[type |-> "canceled_formal_offer", offer |-> m.offer]}
  <2>1. WonIn(rows) = {} /\ LostIn(rows) = ks
    BY CancelRowsTell
  <2>2. Acts(m, rows) /\ OthersStay(ks) /\ m \notin OrderRequest
    BY <1>7 DEF Canceling, CancelRequest, OrderRequest
  <2>3. \A l \in ks : l \in OrderKey /\ IsUnfinalized(l) /\ Placed(l)
    BY DEF Unfinalized, IsUnfinalized
  <2>4. \A l \in ks : ~HasOutcome(l) /\ orders'[l] # None /\ orders'[l].finalized
    BY <1>7, <2>3, UnfinalizedUndecided DEF Canceling, AllEnd, Ends, Holds
  <2>5. \A s \in rows : s.type # "successful_payment"
    BY <2>1 DEF WonIn
  <2> HIDE DEF rows, ks
  <2>6. Changes(m, rows, ks, {})
    BY <2>1, <2>2, <2>3, <2>4, <2>5 DEF Changes
  <2>7. Decides(m, rows)
    BY <1>0, <2>6, ChangingDecides
  <2> QED
    BY <2>7
<1>8. ASSUME NEW k \in OrderKey, Rejecting(m, k)
      PROVE  \E rows : Decides(m, rows)
  <2> DEFINE rows == RejectionRows(k, m.request)
  <2>1. WonIn(rows) = {} /\ LostIn(rows) = {k}
    BY RejectionRowsTell
  <2>2. Acts(m, rows) /\ OthersStay({k}) /\ m \notin OrderRequest /\ IsUnfinalized(k)
    BY <1>8 DEF Rejecting, RejectedTransferSignal, OrderRequest
  <2>3. Placed(k) /\ ~HasOutcome(k)
    BY <2>2, UnfinalizedUndecided DEF IsUnfinalized
  <2>4. orders'[k] # None /\ orders'[k].finalized
    BY <1>8 DEF Rejecting, AllEnd, Ends, Holds
  <2>5. \A s \in rows : s.type # "successful_payment"
    BY <2>1 DEF WonIn
  <2> HIDE DEF rows
  <2>6. Changes(m, rows, {k}, {})
    BY <2>1, <2>2, <2>3, <2>4, <2>5 DEF Changes
  <2>7. Decides(m, rows)
    BY <1>0, <2>6, ChangingDecides
  <2> QED
    BY <2>7
<1> QED
  BY <1>1, <1>2, <1>3, <1>4, <1>5, <1>6, <1>7, <1>8 DEF ActorStep

\* A step that is about no order.
OutcomesRest ==
    /\ orders' = orders
    /\ issued' = issued
    /\ Emitted("successful_payment")' = Emitted("successful_payment")
    /\ Emitted("failed_payment")' = Emitted("failed_payment")
    /\ \A x : IsOrderRequest(x) => (x \in queue' <=> x \in queue)
    /\ \A x \in queue : IsOrderRequest(x) /\ Hopeless(x) => Hopeless(x)'

LEMMA OutcomesRestInvariant ==
    ASSUME OutcomeInvariant, OutcomesRest
    PROVE  OutcomeInvariant'
<1>1. \A k : /\ Succeeded(k)' <=> Succeeded(k)
             /\ Failed(k)' <=> Failed(k)
             /\ HasOutcome(k)' <=> HasOutcome(k)
             /\ Placed(k)' <=> Placed(k)
  BY OutcomeParts, OutcomePartsNext DEF OutcomesRest, Succeeded, Failed, Placed
<1>2. FinalHasOutcome'
  BY <1>1 DEF OutcomeInvariant, FinalHasOutcome, OutcomesRest
<1>3. OneSuccess'
  BY <1>1 DEF OutcomeInvariant, OneSuccess, OutcomesRest
<1>4. DecidedIsOver'
  BY <1>1 DEF OutcomeInvariant, DecidedIsOver, OutcomesRest, IsOrderRequest
<1>5. KnownIsIssued'
  BY <1>1 DEF OutcomeInvariant, KnownIsIssued, OutcomesRest, IsOrderRequest
<1>6. IssuedIsHandled'
  BY <1>1 DEF OutcomeInvariant, IssuedIsHandled, OutcomesRest, IsOrderRequest
<1> QED
  BY <1>2, <1>3, <1>4, <1>5, <1>6 DEF OutcomeInvariant

LEMMA ServesRests ==
    ASSUME NEW m, NEW sent, Serves(m, sent), ~IsOrderRequest(m),
           \A x \in sent : ~IsOrderRequest(x)
    PROVE  OutcomesRest
  BY DEF Serves, ServiceRests, OutcomesRest, Emitted, Hopeless, OfferIsVisible

LEMMA AccountsRests ==
    ASSUME NEW m, \/ \E key \in TransferKey : Preparing(m, key)
                  \/ TurningDown(m)
                  \/ Settling(m)
    PROVE  OutcomesRest
<1>1. ASSUME NEW key \in TransferKey, Preparing(m, key)
      PROVE  OutcomesRest
  BY <1>1, ServesRests DEF Preparing, AnswerFor, PrepareTransferSignal, IsOrderRequest
<1>2. CASE TurningDown(m)
  BY <1>2, ServesRests DEF TurningDown, RejectionFor, PrepareTransferSignal, IsOrderRequest
<1>3. CASE Settling(m)
  BY <1>3, ServesRests DEF Settling, FinalizePreparedTransferSignal, IsOrderRequest
<1> QED
  BY <1>1, <1>2, <1>3

LEMMA PublishingRests ==
    ASSUME Publishing
    PROVE  OutcomesRest
  BY DEF Publishing, RequestType, OutcomesRest, Emitted, IsOrderRequest, Hopeless,
         OfferIsVisible

\* A new offer has a number that nobody has ordered for yet.
LEMMA CreatingRests ==
    ASSUME TypeOK, AgreementInvariant, NEW terms, Creating(terms)
    PROVE  OutcomesRest
<1> DEFINE f   == lastOffer + 1
           row == [type |-> "created_formal_offer", offer |-> f]
<1>1. /\ \A g \in OfferId \ {f} : offers'[g] = offers[g]
      /\ emitted' = emitted \cup {row}
      /\ UNCHANGED <<orders, queue, issued>>
  BY DEF Creating
<1>2. /\ Emitted("successful_payment")' = Emitted("successful_payment")
      /\ Emitted("failed_payment")' = Emitted("failed_payment")
  BY <1>1 DEF Emitted
<1>3. ASSUME NEW x \in queue, IsOrderRequest(x), Hopeless(x)
      PROVE  Hopeless(x)'
  <2>1. x \in OrderRequest /\ x.order.offer \in OfferId
    BY <1>3, MessageByType DEF TypeOK, IsOrderRequest, OrderRequest, OrderKey
  <2>2. x.order.offer <= lastOffer
    BY <1>3 DEF AgreementInvariant, QueuedAreIssued, IssuedAreNumbered, IsOrderRequest,
                OfferOf
  <2>3. x.order.offer # f
    BY <2>1, <2>2 DEF TypeOK, OfferId
  <2>4. offers'[x.order.offer] = offers[x.order.offer]
    BY <1>1, <2>1, <2>3
  <2> QED
    BY <1>3, <2>4 DEF Hopeless, OfferIsVisible
<1> QED
  BY <1>1, <1>2, <1>3 DEF OutcomesRest

\* A payer gives every order a number of its own.
LEMMA IssuingOutcomes ==
    ASSUME OutcomeInvariant, NEW m, Issuing(m)
    PROVE  OutcomeInvariant'
<1>1. \A k : /\ Succeeded(k)' <=> Succeeded(k)
             /\ Failed(k)' <=> Failed(k)
             /\ HasOutcome(k)' <=> HasOutcome(k)
             /\ Placed(k)' <=> Placed(k)
  BY DEF Issuing, ServiceRests, Succeeded, Failed, HasOutcome, Placed, Emitted
<1>2. FinalHasOutcome' /\ OneSuccess'
  BY <1>1 DEF OutcomeInvariant, FinalHasOutcome, OneSuccess, Issuing, ServiceRests, Emitted
<1>3. DecidedIsOver'
  <2> SUFFICES ASSUME NEW k \in OrderKey, HasOutcome(k), ~Placed(k),
                      NEW x \in queue', IsOrderRequest(x), x.order = k
               PROVE  Hopeless(x)' /\ ~Succeeded(k)
    BY <1>1 DEF DecidedIsOver, IsOrderRequest
  <2>1. x # m
    BY DEF OutcomeInvariant, KnownIsIssued, Issuing, IsOrderRequest
  <2>2. Hopeless(x) /\ ~Succeeded(k)
    BY <2>1 DEF OutcomeInvariant, DecidedIsOver, Issuing
  <2> QED
    BY <2>2 DEF Issuing, ServiceRests, Hopeless, OfferIsVisible
<1>4. KnownIsIssued'
  BY <1>1 DEF OutcomeInvariant, KnownIsIssued, Issuing, IsOrderRequest
<1>5. IssuedIsHandled'
  BY <1>1 DEF OutcomeInvariant, IssuedIsHandled, Issuing, IsOrderRequest
<1> QED
  BY <1>2, <1>3, <1>4, <1>5 DEF OutcomeInvariant

\* A row is deleted when no message about its order is left.
LEMMA PurgingOutcomes ==
    ASSUME TypeOK, OutcomeInvariant, NEW old \in SUBSET OrderKey, Purging(old)
    PROVE  OutcomeInvariant'
<1>1. /\ Emitted("successful_payment")' = Emitted("successful_payment")
      /\ queue' = queue /\ issued' = issued /\ offers' = offers
      /\ \A k : /\ Succeeded(k)' <=> Succeeded(k)
                /\ Failed(k)' <=> Failed(k)
                /\ HasOutcome(k)' <=> HasOutcome(k)
  BY DEF Purging, Succeeded, Failed, HasOutcome, Emitted
<1>2. \A k \in OrderKey : orders'[k] = IF k \in old THEN None ELSE orders[k]
  BY DEF Purging
<1>3. \A k \in old : /\ k \in OrderKey /\ Placed(k) /\ orders[k].finalized
                     /\ \A x \in queue : ~(IsOrderRequest(x) /\ x.order = k)
  BY DEF Purging, Outdated, Concerns, IsOrderRequest
<1>4. FinalHasOutcome'
  BY <1>1, <1>2 DEF OutcomeInvariant, FinalHasOutcome, Placed
<1>5. OneSuccess'
  BY <1>1 DEF OutcomeInvariant, OneSuccess
<1>6. DecidedIsOver'
  <2> SUFFICES ASSUME NEW k \in OrderKey, HasOutcome(k), ~Placed(k)',
                      NEW x \in queue, IsOrderRequest(x), x.order = k
               PROVE  Hopeless(x)' /\ ~Succeeded(k)
    BY <1>1 DEF DecidedIsOver, IsOrderRequest
  <2>1. ~Placed(k)
    BY <1>2, <1>3 DEF Placed
  <2>2. Hopeless(x) /\ ~Succeeded(k)
    BY <2>1 DEF OutcomeInvariant, DecidedIsOver
  <2> QED
    BY <1>1, <2>2 DEF Hopeless, OfferIsVisible
<1>7. KnownIsIssued'
  <2>1. \A k \in OrderKey : Placed(k)' => Placed(k)
    BY <1>2 DEF Placed
  <2> QED
    BY <1>1, <2>1 DEF OutcomeInvariant, KnownIsIssued, IsOrderRequest
<1>8. IssuedIsHandled'
  <2> SUFFICES ASSUME NEW x \in issued, IsOrderRequest(x)
               PROVE  x \in queue \/ Placed(x.order)' \/ HasOutcome(x.order)
    BY <1>1 DEF IssuedIsHandled, IsOrderRequest
  <2>1. x.order \in OrderKey
    BY EnvironmentAssumption DEF TypeOK, IsOrderRequest, OrderRequest, CancelRequest
  <2>2. Placed(x.order) => Placed(x.order)' \/ HasOutcome(x.order)
    BY <1>2, <1>3, <2>1 DEF Placed, OutcomeInvariant, FinalHasOutcome
  <2> QED
    BY <2>2 DEF OutcomeInvariant, IssuedIsHandled
<1> QED
  BY <1>4, <1>5, <1>6, <1>7, <1>8 DEF OutcomeInvariant

LEMMA InitOutcomes == Init => OutcomeInvariant
  BY DEF Init, SignalbusInit, PaymentsInit, OutcomeInvariant, FinalHasOutcome, OneSuccess,
         DecidedIsOver, KnownIsIssued, IssuedIsHandled, Placed, HasOutcome, Succeeded,
         Failed, Emitted

LEMMA NextOutcomes ==
    ASSUME TypeOK, AgreementInvariant, OutcomeInvariant, [Next]_vars
    PROVE  OutcomeInvariant'
<1>1. ASSUME NEW m \in queue, ActorStep(m)
      PROVE  OutcomeInvariant'
  BY <1>1, ActorDecides, DecidesOutcomes
<1>2. ASSUME NEW terms \in Announced, Creating(terms)
      PROVE  OutcomeInvariant'
  BY <1>2, CreatingRests, OutcomesRestInvariant
<1>3. CASE Ageing \/ Idling
  <2>1. OutcomesRest
    <3>1. /\ UNCHANGED <<orders, issued, queue, emitted>>
          /\ OffersOnlyGo
      BY <1>3 DEF Ageing, Idling, OffersOnlyGo
    <3>2. ASSUME NEW x \in queue, IsOrderRequest(x), Hopeless(x)
          PROVE  Hopeless(x)'
      <4>1. x.order.offer \in OfferId
        BY <3>2, MessageByType DEF TypeOK, IsOrderRequest, OrderRequest, OrderKey
      <4> QED
        BY <3>1, <3>2, <4>1 DEF Hopeless, OfferIsVisible, OffersOnlyGo
    <3> QED
      BY <3>1, <3>2 DEF OutcomesRest, Emitted
  <2> QED
    BY <2>1, OutcomesRestInvariant
<1> QED
  BY <1>1, <1>2, <1>3, NextSteps, AccountsRests, PublishingRests, OutcomesRestInvariant,
     IssuingOutcomes, PurgingOutcomes DEF Step

LEMMA OutcomeInvariantHolds == Spec => []OutcomeInvariant
<1>1. TypeOK /\ AgreementInvariant /\ OutcomeInvariant /\ [Next]_vars => OutcomeInvariant'
  BY NextOutcomes
<1> QED
  BY <1>1, InitOutcomes, TypeCorrect, AgreementInvariantHolds, PTL DEF Spec

\* A payer is never told that the same order has succeeded and failed, or
\* twice that it has succeeded, and an order that a payer was told about is
\* never pending again.
THEOREM OrdersHaveOneOutcome == Spec => []OneOutcomePerOrder
<1>1. TypeOK /\ OutcomeInvariant => OneOutcomePerOrder
  <2> SUFFICES ASSUME TypeOK, OutcomeInvariant,
                      NEW s \in Emitted("successful_payment") \cup Emitted("failed_payment")
               PROVE  /\ ~IsUnfinalized(s.order)
                      /\ \A t \in Emitted("successful_payment") :
                           t.order = s.order => t = s
    BY DEF OneOutcomePerOrder
  <2>1. s.order \in OrderKey
    BY DEF Emitted, TypeOK, Signal, CreatedFormalOfferSignal, CanceledFormalOfferSignal,
           FailedReciprocalPaymentSignal, SuccessfulPaymentSignal, FailedPaymentSignal,
           PrepareTransferSignal, FinalizePreparedTransferSignal
  <2>2. HasOutcome(s.order)
    BY DEF HasOutcome
  <2>3. ~IsUnfinalized(s.order)
    BY <2>1, <2>2, UnfinalizedUndecided
  <2>4. ASSUME NEW t \in Emitted("successful_payment"), t.order = s.order
        PROVE  t = s
    <3>1. Succeeded(s.order)
      BY <2>4 DEF Succeeded
    <3>2. s \notin Emitted("failed_payment")
      BY <2>1, <3>1 DEF OutcomeInvariant, OneSuccess, Failed
    <3> QED
      BY <2>4, <3>2 DEF OutcomeInvariant, OneSuccess
  <2> QED
    BY <2>3, <2>4
<1> QED
  BY <1>1, TypeCorrect, OutcomeInvariantHolds, PTL

=============================================================================
