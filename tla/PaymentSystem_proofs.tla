----------------------- MODULE PaymentSystem_proofs -----------------------
(***************************************************************************)
(* Proofs about PaymentSystem, for every set of creditors, debtors,        *)
(* amounts and transfer numbers, for any number of offers and of repeated  *)
(* deliveries.                                                             *)
(***************************************************************************)
EXTENDS PaymentSystem, TLAPS

----------------------------------------------------------------------------
(* The rows that the transactions build have the types of models.py.       *)

\* What kind of message or row a record is can be told from its type.
LEMMA MessageByType ==
    ASSUME NEW m \in Message
    PROVE  /\ m.type = "make_payment_order" => m \in OrderRequest
           /\ m.type = "cancel_formal_offer" => m \in CancelRequest
           /\ m.type = "prepare_transfer" => m \in PrepareTransferSignal
           /\ m.type = "finalize_prepared_transfer" => m \in FinalizePreparedTransferSignal
           /\ m.type = "prepared_transfer" => m \in PreparedTransferSignal
           /\ m.type = "rejected_transfer" => m \in RejectedTransferSignal
  BY DEF Message, OrderRequest, CancelRequest, PrepareTransferSignal,
         FinalizePreparedTransferSignal, PreparedTransferSignal,
         RejectedTransferSignal

\* The rows that FlushSignals hands to the broker are messages.
LEMMA PendingRequestsAreMessages ==
    ASSUME TypeOK, NEW type \in RequestType
    PROVE  Pending(type) \subseteq Message
<1> SUFFICES ASSUME NEW s \in Signal, s.type \in RequestType
             PROVE  s \in Message
  BY DEF TypeOK, Pending
<1> QED
  BY DEF RequestType, Message, Signal, CreatedFormalOfferSignal,
         CanceledFormalOfferSignal, FailedReciprocalPaymentSignal,
         SuccessfulPaymentSignal, FailedPaymentSignal, PrepareTransferSignal,
         FinalizePreparedTransferSignal

LEMMA SenderType ==
    ASSUME NEW k \in OrderKey, NEW leg \in Leg
    PROVE  Sender(k, leg) \in Creditor /\ Recipient(k, leg) \in Creditor
  BY DEF Sender, Recipient, Creditor, OrderKey, Leg

LEMMA FinalizationType ==
    ASSUME NEW key \in TransferKey, NEW committed \in Amount \cup {0}
    PROVE  Finalization(key, committed) \in Signal
  BY DEF Finalization, Signal, FinalizePreparedTransferSignal

LEMMA HeldTransferType ==
    ASSUME NEW k \in OrderKey, NEW po \in PaymentOrder, NEW leg \in Held(po)
    PROVE  HeldTransfer(k, po, leg) \in TransferKey
  BY SenderType DEF HeldTransfer, Held, TransferKey, PaymentOrder, Payment

LEMMA FailedPaymentType ==
    ASSUME NEW k \in OrderKey, NEW reason \in FailureReason
    PROVE  FailedPayment(k, reason) \in Signal
  BY DEF FailedPayment, Signal, FailedPaymentSignal

\* What aborting an order emits.
LEMMA AbortRowsType ==
    ASSUME NEW k \in OrderKey, NEW po \in PaymentOrder, NEW reason \in FailureReason
    PROVE  AbortRows(k, po, reason) \subseteq Signal
<1>1. \A leg \in Held(po) : Finalization(HeldTransfer(k, po, leg), 0) \in Signal
  BY HeldTransferType, FinalizationType
<1>2. FailedPayment(k, reason) \in Signal
  BY FailedPaymentType
<1> QED
  BY <1>1, <1>2 DEF AbortRows

\* What executing an order emits for its own transfers.
LEMMA CommitRowsType ==
    ASSUME NEW k \in OrderKey, NEW po \in PaymentOrder
    PROVE  CommitRows(k, po) \subseteq Signal
<1> SUFFICES ASSUME NEW leg \in Held(po)
             PROVE  Finalization(HeldTransfer(k, po, leg), po.terms[leg].amount) \in Signal
  BY DEF CommitRows
<1>1. po.terms[leg].amount \in Amount
  BY DEF Held, PaymentOrder, Payment
<1> QED
  BY <1>1, HeldTransferType, FinalizationType

LEMMA PrepareTransferRowType ==
    ASSUME NEW k \in OrderKey, NEW po \in PaymentOrder, NEW leg \in Leg
    PROVE  PrepareTransferRow(k, po, leg) \in Signal
<1>1. po.terms[leg] \in Payment /\ po.request \in Nat \ {0}
  BY DEF PaymentOrder
<1>2. RequestNumber(po, leg) \in Int \ {0}
  BY <1>1 DEF RequestNumber
<1> QED
  BY <1>1, <1>2, SenderType
  DEF PrepareTransferRow, Signal, PrepareTransferSignal, Payment

LEMMA SuccessRowType ==
    ASSUME NEW k \in OrderKey, NEW po \in PaymentOrder
    PROVE  SuccessRow(k, po) \in Signal
  BY DEF SuccessRow, Signal, SuccessfulPaymentSignal, PaymentOrder

LEMMA FinalizedType ==
    ASSUME NEW po \in PaymentOrder
    PROVE  Finalized(po) \in PaymentOrder
  BY DEF Finalized, PaymentOrder

----------------------------------------------------------------------------
(* The transactions keep the types of the tables.                          *)

DatabaseOK ==
    /\ offers \in [OfferId -> FormalOffer \cup {None}]
    /\ orders \in [OrderKey -> PaymentOrder \cup {None}]
    /\ proofs \subseteq PaymentProof
    /\ lastOffer \in 0..MaxOffers
    /\ lastRequest \in Nat
    /\ outbox \subseteq emitted
    /\ emitted \subseteq Signal

LEMMA EmitOK ==
    ASSUME outbox \subseteq emitted, emitted \subseteq Signal,
           NEW rows \in SUBSET Signal, Emit(rows)
    PROVE  outbox' \subseteq emitted' /\ emitted' \subseteq Signal
  BY DEF Emit

\* A row that is placed is a payment order; so is the row of an order that a
\* query finds, or that is not final.
LEMMA PlacedType ==
    ASSUME DatabaseOK, NEW k \in OrderKey, Placed(k)
    PROVE  orders[k] \in PaymentOrder
  BY DEF DatabaseOK, Placed

LEMMA UnfinalizedType ==
    ASSUME DatabaseOK, NEW f
    PROVE  Unfinalized(f) \subseteq {k \in OrderKey : Placed(k)}
  BY DEF Unfinalized, IsUnfinalized

LEMMA FinalizeAllType ==
    ASSUME DatabaseOK, NEW ks \in SUBSET {k \in OrderKey : Placed(k)}
    PROVE  FinalizeAll(ks) \in [OrderKey -> PaymentOrder \cup {None}]
<1>1. \A k \in ks : Finalized(orders[k]) \in PaymentOrder
  BY PlacedType, FinalizedType
<1> QED
  BY <1>1 DEF FinalizeAll, DatabaseOK

LEMMA AbortAllRowsType ==
    ASSUME DatabaseOK, NEW ks \in SUBSET {k \in OrderKey : Placed(k)}
    PROVE  AbortAllRows(ks) \subseteq Signal
<1>1. "PAY004" \in FailureReason
  BY DEF FailureReason
<1>2. \A k \in ks : AbortRows(k, orders[k], "PAY004") \subseteq Signal
  BY <1>1, PlacedType, AbortRowsType
<1> QED
  BY <1>2 DEF AbortAllRows

LEMMA WithoutOfferType ==
    ASSUME DatabaseOK, NEW f \in OfferId
    PROVE  WithoutOffer(f) \in [OfferId -> FormalOffer \cup {None}]
  BY DEF DatabaseOK, WithoutOffer

LEMMA ExecuteOK ==
    ASSUME DatabaseOK, NEW k \in OrderKey, NEW po \in PaymentOrder, Execute(k, po),
           lastOffer' \in 0..MaxOffers, lastRequest' \in Nat
    PROVE  DatabaseOK'
<1> DEFINE losers == Unfinalized(k.offer) \ {k}
           rows   == CommitRows(k, po) \cup AbortAllRows(losers) \cup {SuccessRow(k, po)}
<1>1. losers \in SUBSET {l \in OrderKey : Placed(l)}
  BY UnfinalizedType
<1>2. orders' \in [OrderKey -> PaymentOrder \cup {None}]
  <2>1. FinalizeAll(losers) \in [OrderKey -> PaymentOrder \cup {None}]
    BY <1>1, FinalizeAllType
  <2>2. Finalized(po) \in PaymentOrder
    BY FinalizedType
  <2>3. orders' = [FinalizeAll(losers) EXCEPT ![k] = Finalized(po)]
    BY DEF Execute, PayAborting
  <2> HIDE DEF losers
  <2> QED
    BY <2>1, <2>2, <2>3
<1>3. proofs' \subseteq PaymentProof
  <2>1. proofs' = proofs \cup {[order |-> k, terms |-> po.terms]}
    BY DEF Execute, PayAborting
  <2> QED
    BY <2>1 DEF DatabaseOK, PaymentProof, PaymentOrder
<1>4. offers' \in [OfferId -> FormalOffer \cup {None}]
  BY WithoutOfferType DEF Execute, PayAborting, OrderKey
<1>5. rows \in SUBSET Signal
  BY <1>1, CommitRowsType, AbortAllRowsType, SuccessRowType
<1>6. Emit(rows)
  BY DEF Execute, PayAborting
<1>7. outbox' \subseteq emitted' /\ emitted' \subseteq Signal
  <2> HIDE DEF rows
  <2> QED
    BY <1>5, <1>6, EmitOK DEF DatabaseOK
<1> QED
  BY <1>2, <1>3, <1>4, <1>7 DEF DatabaseOK

LEMMA AwaitTransferOK ==
    ASSUME DatabaseOK, NEW k \in OrderKey, NEW po \in PaymentOrder, NEW leg \in Leg,
           AwaitTransfer(k, po, leg),
           lastOffer' \in 0..MaxOffers, lastRequest' \in Nat
    PROVE  DatabaseOK'
<1>1. {PrepareTransferRow(k, po, leg)} \in SUBSET Signal
  BY PrepareTransferRowType
<1>2. outbox' \subseteq emitted' /\ emitted' \subseteq Signal
  BY <1>1, EmitOK DEF AwaitTransfer, DatabaseOK
<1>3. orders' \in [OrderKey -> PaymentOrder \cup {None}]
  BY DEF AwaitTransfer, DatabaseOK
<1> QED
  BY <1>2, <1>3 DEF AwaitTransfer, DatabaseOK

LEMMA TryToFinalizeOK ==
    ASSUME DatabaseOK, NEW k \in OrderKey, NEW po \in PaymentOrder, TryToFinalize(k, po),
           lastOffer' \in 0..MaxOffers, lastRequest' \in Nat
    PROVE  DatabaseOK'
  BY ExecuteOK, AwaitTransferOK DEF TryToFinalize

\* A transaction that changes no table and emits some rows, or none.
LEMMA EmitOnlyOK ==
    ASSUME DatabaseOK, UNCHANGED tables,
           EmitNothing \/ \E rows \in SUBSET Signal : Emit(rows)
    PROVE  DatabaseOK'
<1>1. CASE EmitNothing
  BY <1>1 DEF DatabaseOK, EmitNothing, tables
<1>2. CASE \E rows \in SUBSET Signal : Emit(rows)
  BY <1>2, EmitOK DEF DatabaseOK, tables
<1> QED
  BY <1>1, <1>2

LEMMA CreateFormalOfferOK ==
    ASSUME DatabaseOK, NEW terms \in Announced, CreateFormalOffer(terms)
    PROVE  DatabaseOK'
<1> DEFINE f   == lastOffer + 1
           row == [type |-> "created_formal_offer", offer |-> f]
           new == [options |-> terms.options, reciprocal |-> terms.reciprocal,
                   expired |-> FALSE]
<1>1. f \in OfferId /\ lastOffer' = f /\ f \in 0..MaxOffers
  BY BoundAssumption DEF CreateFormalOffer, OfferId
<1>2. {row} \in SUBSET Signal
  BY <1>1 DEF Signal, CreatedFormalOfferSignal
<1>3. outbox' \subseteq emitted' /\ emitted' \subseteq Signal
  BY <1>2, EmitOK DEF CreateFormalOffer, DatabaseOK
<1>4. new \in FormalOffer
  BY EnvironmentAssumption DEF OfferTerms, FormalOffer
<1>5. offers' \in [OfferId -> FormalOffer \cup {None}]
  <2>1. offers' = [offers EXCEPT ![f] = new]
    BY DEF CreateFormalOffer
  <2> HIDE DEF new, f
  <2> QED
    BY <1>4, <2>1 DEF DatabaseOK
<1> QED
  BY <1>1, <1>3, <1>5 DEF CreateFormalOffer, DatabaseOK

LEMMA CancelFormalOfferOK ==
    ASSUME DatabaseOK, NEW m \in CancelRequest, CancelFormalOffer(m)
    PROVE  DatabaseOK'
<1>0. m.offer \in OfferId
  BY DEF CancelRequest
<1>1. CASE ~OfferIsVisible(m.offer, m.secret)
  BY <1>1, EmitOnlyOK DEF CancelFormalOffer, CancelAborting
<1>2. CASE OfferIsVisible(m.offer, m.secret)
  <2> DEFINE row  == [type |-> "canceled_formal_offer", offer |-> m.offer]
             rows == AbortAllRows(Unfinalized(m.offer)) \cup {row}
  <2>1. Unfinalized(m.offer) \in SUBSET {k \in OrderKey : Placed(k)}
    BY UnfinalizedType
  <2>2. row \in Signal
    BY <1>0 DEF Signal, CanceledFormalOfferSignal
  <2>3. rows \in SUBSET Signal
    BY <2>1, <2>2, AbortAllRowsType
  <2>4. Emit(rows)
    BY <1>2 DEF CancelFormalOffer, CancelAborting
  <2>5. outbox' \subseteq emitted' /\ emitted' \subseteq Signal
    <3> HIDE DEF rows
    <3> QED
      BY <2>3, <2>4, EmitOK DEF DatabaseOK
  <2>6. orders' \in [OrderKey -> PaymentOrder \cup {None}]
    BY <1>2, <2>1, FinalizeAllType DEF CancelFormalOffer, CancelAborting
  <2>7. offers' \in [OfferId -> FormalOffer \cup {None}]
    BY <1>0, <1>2, WithoutOfferType DEF CancelFormalOffer, CancelAborting
  <2> QED
    BY <1>2, <2>5, <2>6, <2>7 DEF CancelFormalOffer, CancelAborting, DatabaseOK
<1> QED
  BY <1>1, <1>2

\* The row that make_payment_order inserts.
LEMMA NewOrderType ==
    ASSUME DatabaseOK, NEW payment \in Payment, NEW reciprocal \in Payment
    PROVE  NewOrder(NextRequest, payment, reciprocal) \in PaymentOrder
  BY DEF DatabaseOK, NewOrder, NextRequest, PaymentOrder, Leg

LEMMA MakePaymentOrderOK ==
    ASSUME DatabaseOK, NEW m \in OrderRequest, MakePaymentOrder(m)
    PROVE  DatabaseOK'
<1> DEFINE f     == m.order.offer
           offer == offers[f]
           po    == NewOrder(NextRequest, m.payment, offer.reciprocal)
<1>0. m.order \in OrderKey /\ f \in OfferId
  BY DEF OrderRequest, OrderKey
<1>1. CASE IsRedelivered(m)
  BY <1>1, EmitOnlyOK DEF MakePaymentOrder
<1>2. ASSUME NEW reason \in FailureReason, Refuse(m, reason)
      PROVE  DatabaseOK'
  <2>1. {FailedPayment(m.order, reason)} \in SUBSET Signal
    BY <1>0, FailedPaymentType
  <2> QED
    BY <1>2, <2>1, EmitOnlyOK DEF Refuse
<1>3. CASE /\ OfferIsVisible(f, m.secret)
           /\ m.payment \in offer.options
           /\ lastRequest' = lastRequest + 1
           /\ IF offer.expired THEN PlaceExpired(m, po) ELSE TryToFinalize(m.order, po)
           /\ UNCHANGED lastOffer
  <2>1. offer \in FormalOffer
    BY <1>0, <1>3 DEF OfferIsVisible, DatabaseOK
  <2>2. m.payment \in Payment /\ offer.reciprocal \in Payment
    BY <1>3, <2>1 DEF FormalOffer
  <2>3. po \in PaymentOrder
    BY <2>2, NewOrderType
  <2>4. lastOffer' \in 0..MaxOffers /\ lastRequest' \in Nat
    BY <1>3 DEF DatabaseOK
  <2>5. CASE PlaceExpired(m, po)
    <3>1. "PAY006" \in FailureReason
      BY DEF FailureReason
    <3>2. AbortRows(m.order, po, "PAY006") \in SUBSET Signal
      <4> HIDE DEF po
      <4> QED
        BY <1>0, <2>3, <3>1, AbortRowsType
    <3>3. outbox' \subseteq emitted' /\ emitted' \subseteq Signal
      BY <2>5, <3>2, EmitOK DEF PlaceExpired, DatabaseOK
    <3>4. orders' \in [OrderKey -> PaymentOrder \cup {None}]
      <4>1. Finalized(po) \in PaymentOrder
        BY <2>3, FinalizedType
      <4> HIDE DEF po
      <4> QED
        BY <2>5, <4>1 DEF PlaceExpired, DatabaseOK
    <3> QED
      BY <2>4, <2>5, <3>3, <3>4 DEF PlaceExpired, DatabaseOK
  <2>6. CASE TryToFinalize(m.order, po)
    <3> HIDE DEF po
    <3> QED
      BY <1>0, <2>3, <2>4, <2>6, TryToFinalizeOK
  <2> QED
    BY <1>3, <2>5, <2>6
<1>4. {"PAY001", "PAY002", "PAY003"} \subseteq FailureReason
  BY DEF FailureReason
<1> QED
  BY <1>1, <1>2, <1>3, <1>4 DEF MakePaymentOrder

LEMMA FoundType ==
    ASSUME DatabaseOK, NEW request, NEW k \in Found(request)
    PROVE  k \in OrderKey /\ Placed(k) /\ orders[k] \in PaymentOrder
  BY PlacedType DEF Found

LEMMA LegOfType ==
    ASSUME NEW request
    PROVE  LegOf(request) \in Leg
  BY DEF LegOf, Leg

LEMMA DismissTransferOK ==
    ASSUME DatabaseOK, NEW m \in PreparedTransferSignal, DismissTransfer(m)
    PROVE  DatabaseOK'
<1>1. {Finalization(m.transfer, 0)} \in SUBSET Signal
  BY FinalizationType DEF PreparedTransferSignal
<1> QED
  BY <1>1, EmitOnlyOK DEF DismissTransfer

LEMMA ProcessPreparedTransferOK ==
    ASSUME DatabaseOK, NEW m \in PreparedTransferSignal, ProcessPreparedTransfer(m)
    PROVE  DatabaseOK'
<1>1. ASSUME NEW k \in Found(m.request), AcceptTransfer(k, m)
      PROVE  DatabaseOK'
  <2> DEFINE leg == LegOf(m.request)
             po  == [orders[k] EXCEPT !.transfer[leg] = m.transfer.id]
  <2>1. k \in OrderKey /\ orders[k] \in PaymentOrder
    BY FoundType
  <2>2. leg \in Leg /\ m.transfer.id \in TransferId
    BY LegOfType DEF PreparedTransferSignal, TransferKey
  <2>3. po \in PaymentOrder
    <3> HIDE DEF leg
    <3> QED
      BY <2>1, <2>2 DEF PaymentOrder
  <2>4. TryToFinalize(k, po) /\ lastOffer' \in 0..MaxOffers /\ lastRequest' \in Nat
    BY <1>1 DEF AcceptTransfer, DatabaseOK
  <2> HIDE DEF po
  <2> QED
    BY <2>1, <2>3, <2>4, TryToFinalizeOK
<1>2. CASE DismissTransfer(m)
  BY <1>2, DismissTransferOK
<1>3. CASE EmitNothing /\ UNCHANGED tables
  BY <1>3, EmitOnlyOK
<1> QED
  BY <1>1, <1>2, <1>3 DEF ProcessPreparedTransfer

LEMMA RejectionRowsType ==
    ASSUME DatabaseOK, NEW request, NEW k \in Found(request)
    PROVE  RejectionRows(k, request) \subseteq Signal
<1>1. k \in OrderKey /\ orders[k] \in PaymentOrder
  BY FoundType
<1>2. \A reason \in {"PAY005", "rejected"} : AbortRows(k, orders[k], reason) \subseteq Signal
  BY <1>1, AbortRowsType DEF FailureReason
<1>3. [type |-> "failed_reciprocal_payment", offer |-> k.offer] \in Signal
  BY <1>1 DEF OrderKey, Signal, FailedReciprocalPaymentSignal
<1> QED
  BY <1>2, <1>3 DEF RejectionRows

LEMMA ProcessRejectedTransferOK ==
    ASSUME DatabaseOK, NEW m, ProcessRejectedTransfer(m)
    PROVE  DatabaseOK'
<1>1. ASSUME NEW k \in Found(m.request),
             orders' = FinalizeAll({k}),
             Emit(RejectionRows(k, m.request)),
             UNCHANGED <<offers, proofs, lastOffer, lastRequest>>
      PROVE  DatabaseOK'
  <2>1. {k} \in SUBSET {l \in OrderKey : Placed(l)}
    BY FoundType
  <2>2. RejectionRows(k, m.request) \in SUBSET Signal
    BY RejectionRowsType
  <2>3. outbox' \subseteq emitted' /\ emitted' \subseteq Signal
    BY <1>1, <2>2, EmitOK DEF DatabaseOK
  <2>4. orders' \in [OrderKey -> PaymentOrder \cup {None}]
    BY <1>1, <2>1, FinalizeAllType
  <2> QED
    BY <1>1, <2>3, <2>4 DEF DatabaseOK
<1>2. CASE EmitNothing /\ UNCHANGED tables
  BY <1>2, EmitOnlyOK
<1> QED
  BY <1>1, <1>2 DEF ProcessRejectedTransfer

LEMMA FlushOK ==
    ASSUME DatabaseOK, NEW old,
           FlushPaymentOrders(old) \/ FlushPaymentProofs(old)
    PROVE  DatabaseOK'
<1>1. CASE FlushPaymentOrders(old)
  BY <1>1 DEF FlushPaymentOrders, DatabaseOK, EmitNothing
<1>2. CASE FlushPaymentProofs(old)
  BY <1>2 DEF FlushPaymentProofs, DatabaseOK, EmitNothing
<1> QED
  BY <1>1, <1>2

----------------------------------------------------------------------------
(* The broker, the accounts service and the clients.                       *)

EnvironmentOK ==
    /\ queue \subseteq Message
    /\ repeats \in 0..MaxRepeats
    /\ transfers \subseteq PreparedTransfer
    /\ settled \subseteq Settlement
    /\ issued \subseteq ClientRequest

LEMMA TypeParts ==
    /\ TypeOK <=> DatabaseOK /\ EnvironmentOK
    /\ TypeOK' <=> DatabaseOK' /\ EnvironmentOK'
  BY DEF TypeOK, DatabaseOK, EnvironmentOK

LEMMA CompletedOK ==
    ASSUME repeats \in 0..MaxRepeats, NEW complete, Completed(complete)
    PROVE  repeats' \in 0..MaxRepeats
  BY RepeatAssumption DEF Completed

LEMMA ConsumeOK ==
    ASSUME EnvironmentOK, NEW m, NEW sent \in SUBSET Message, NEW acknowledged,
           Consume(m, sent, acknowledged)
    PROVE  queue' \subseteq Message /\ repeats' \in 0..MaxRepeats
  BY CompletedOK DEF Consume, EnvironmentOK

\* The actors of the service change nothing but the queue out there.
LEMMA ActorOK ==
    ASSUME EnvironmentOK, NEW m, NEW acknowledged,
           Consume(m, {}, acknowledged), UNCHANGED external
    PROVE  EnvironmentOK'
<1>1. {} \in SUBSET Message
  OBVIOUS
<1> QED
  BY <1>1, ConsumeOK DEF EnvironmentOK, external

LEMMA PrepareTransferOK ==
    ASSUME EnvironmentOK, NEW m \in PrepareTransferSignal, NEW acknowledged,
           PrepareTransfer(m, acknowledged)
    PROVE  /\ queue' \subseteq Message /\ repeats' \in 0..MaxRepeats
           /\ transfers' \subseteq PreparedTransfer
<1> DEFINE key(x) == [debtor |-> m.debtor, sender |-> m.sender, id |-> x]
           unused == {x \in TransferId : ~IsPrepared(key(x))}
           id     == CHOOSE x \in unused : TRUE
           new    == [transfer |-> key(id), request |-> m.request,
                      recipient |-> m.recipient, amount |-> m.amount]
           answer == [type |-> "prepared_transfer", transfer |-> key(id),
                      request |-> m.request, recipient |-> m.recipient,
                      amount |-> m.amount]
<1>1. id \in TransferId
  BY DEF PrepareTransfer
<1>2. key(id) \in TransferKey
  <2> HIDE DEF id
  <2> QED
    BY <1>1 DEF PrepareTransferSignal, TransferKey
<1>3. new \in PreparedTransfer /\ answer \in Message
  <2> HIDE DEF key
  <2> QED
    BY <1>2 DEF PrepareTransferSignal, PreparedTransfer, PreparedTransferSignal, Message
<1>4. transfers' = transfers \cup {new} /\ Consume(m, {answer}, acknowledged)
  BY DEF PrepareTransfer
<1> HIDE DEF new, answer
<1> QED
  BY <1>3, <1>4, ConsumeOK DEF EnvironmentOK

LEMMA AccountsPrepareOK ==
    ASSUME EnvironmentOK, NEW m \in Message, NEW acknowledged,
           AccountsPrepare(m, acknowledged)
    PROVE  EnvironmentOK'
<1>1. m \in PrepareTransferSignal
  BY MessageByType DEF AccountsPrepare
<1>2. CASE PrepareTransfer(m, acknowledged)
  BY <1>1, <1>2, PrepareTransferOK DEF AccountsPrepare, PrepareTransfer, EnvironmentOK
<1>3. CASE RejectTransfer(m, acknowledged)
  <2>1. {[type |-> "rejected_transfer", request |-> m.request]} \in SUBSET Message
    BY <1>1 DEF PrepareTransferSignal, RejectedTransferSignal, Message
  <2> QED
    BY <1>3, <2>1, ConsumeOK DEF AccountsPrepare, RejectTransfer, EnvironmentOK
<1> QED
  BY <1>2, <1>3 DEF AccountsPrepare

LEMMA AccountsFinalizeOK ==
    ASSUME EnvironmentOK, NEW m \in Message, NEW acknowledged,
           AccountsFinalize(m, acknowledged)
    PROVE  EnvironmentOK'
<1>1. m \in FinalizePreparedTransferSignal
  BY MessageByType DEF AccountsFinalize
<1>2. [transfer |-> m.transfer, committed |-> m.committed] \in Settlement
  BY <1>1 DEF FinalizePreparedTransferSignal, Settlement
<1>3. settled' \subseteq Settlement
  BY <1>2 DEF AccountsFinalize, FinalizePreparedTransfer, EnvironmentOK
<1>4. queue' \subseteq Message /\ repeats' \in 0..MaxRepeats
  <2>1. {} \in SUBSET Message
    OBVIOUS
  <2> QED
    BY <2>1, ConsumeOK DEF AccountsFinalize, FinalizePreparedTransfer
<1> QED
  BY <1>3, <1>4 DEF AccountsFinalize, FinalizePreparedTransfer, EnvironmentOK

----------------------------------------------------------------------------
(* Type correctness.                                                       *)

LEMMA InitTypeOK == Init => TypeOK
  BY BoundAssumption, RepeatAssumption
  DEF Init, TypeOK, SignalbusInit, PaymentsInit, AccountsInit

LEMMA HandleTypeOK ==
    ASSUME TypeOK, NEW m \in queue, NEW acknowledged, Handle(m, acknowledged)
    PROVE  TypeOK'
<1>1. DatabaseOK /\ EnvironmentOK /\ m \in Message
  BY TypeParts DEF EnvironmentOK
<1>2. CASE HandleOrder(m, acknowledged)
  <2>1. m \in OrderRequest
    BY <1>1, <1>2, MessageByType DEF HandleOrder
  <2> QED
    BY <1>1, <1>2, <2>1, MakePaymentOrderOK, ActorOK, TypeParts DEF HandleOrder
<1>3. CASE HandleCancel(m, acknowledged)
  <2>1. m \in CancelRequest
    BY <1>1, <1>3, MessageByType DEF HandleCancel
  <2> QED
    BY <1>1, <1>3, <2>1, CancelFormalOfferOK, ActorOK, TypeParts DEF HandleCancel
<1>4. CASE HandlePrepared(m, acknowledged)
  <2>1. m \in PreparedTransferSignal
    BY <1>1, <1>4, MessageByType DEF HandlePrepared
  <2> QED
    BY <1>1, <1>4, <2>1, ProcessPreparedTransferOK, ActorOK, TypeParts DEF HandlePrepared
<1>5. CASE HandleRejected(m, acknowledged)
  BY <1>1, <1>5, ProcessRejectedTransferOK, ActorOK, TypeParts DEF HandleRejected
<1>6. CASE AccountsPrepare(m, acknowledged)
  BY <1>1, <1>6, AccountsPrepareOK, EmitOnlyOK, TypeParts DEF AccountsPrepare
<1>7. CASE AccountsFinalize(m, acknowledged)
  BY <1>1, <1>7, AccountsFinalizeOK, EmitOnlyOK, TypeParts DEF AccountsFinalize
<1> QED
  BY <1>2, <1>3, <1>4, <1>5, <1>6, <1>7 DEF Handle

LEMMA FlushTypeOK ==
    ASSUME TypeOK, NEW type, NEW deleted, Flush(type, deleted)
    PROVE  TypeOK'
<1>1. queue' \subseteq Message
  BY PendingRequestsAreMessages DEF Flush, FlushSignals, TypeOK
<1>2. repeats' \in 0..MaxRepeats
  BY CompletedOK DEF Flush, FlushSignals, TypeOK
<1> QED
  BY <1>1, <1>2 DEF Flush, FlushSignals, TypeOK, tables, external, Pending

\* Every step keeps the types.
LEMMA NextTypeOK == TypeOK /\ [Next]_vars => TypeOK'
<1> SUFFICES ASSUME TypeOK, [Next]_vars
             PROVE  TypeOK'
  OBVIOUS
<1>0. DatabaseOK /\ EnvironmentOK
  BY TypeParts
<1>1. CASE Create
  <2>1. DatabaseOK'
    BY <1>0, <1>1, CreateFormalOfferOK DEF Create
  <2> QED
    BY <1>0, <1>1, <2>1, TypeParts DEF Create, CreateFormalOffer, EnvironmentOK, external, Emit
<1>2. ASSUME NEW m \in ClientRequest, Issue(m)
      PROVE  TypeOK'
  <2>1. m \in Message
    BY EnvironmentAssumption DEF Message
  <2> QED
    BY <1>2, <2>1 DEF Issue, TypeOK, tables, EmitNothing
<1>3. ASSUME NEW m \in queue, NEW acknowledged \in BOOLEAN, Handle(m, acknowledged)
      PROVE  TypeOK'
  BY <1>3, HandleTypeOK
<1>4. ASSUME NEW type \in RequestType \cup EventType, NEW deleted \in BOOLEAN,
             Flush(type, deleted)
      PROVE  TypeOK'
  BY <1>4, FlushTypeOK
<1>5. ASSUME NEW f \in OfferId, Expire(f)
      PROVE  TypeOK'
  <2>1. offers[f] \in FormalOffer
    BY <1>5 DEF Expire, TypeOK
  <2>2. [offers[f] EXCEPT !.expired = TRUE] \in FormalOffer
    BY <2>1 DEF FormalOffer
  <2>3. offers' \in [OfferId -> FormalOffer \cup {None}]
    BY <1>5, <2>2 DEF Expire, TypeOK
  <2> QED
    BY <1>5, <2>3 DEF Expire, TypeOK, EmitNothing, external
<1>6. ASSUME NEW old \in SUBSET OrderKey, PurgeOrders(old)
      PROVE  TypeOK'
  BY <1>0, <1>6, FlushOK, TypeParts DEF PurgeOrders, EnvironmentOK, external
<1>7. ASSUME NEW old \in SUBSET proofs, PurgeProofs(old)
      PROVE  TypeOK'
  BY <1>0, <1>7, FlushOK, TypeParts DEF PurgeProofs, EnvironmentOK, external
<1>8. CASE UNCHANGED vars
  BY <1>8 DEF TypeOK, vars, tables
<1> QED
  BY <1>1, <1>2, <1>3, <1>4, <1>5, <1>6, <1>7, <1>8 DEF Next

\* Tables, signals and messages always have the types that models.py and the
\* actors declare, whatever is repeated, reordered or rejected.
THEOREM TypeCorrect == Spec => []TypeOK
<1>1. Init => TypeOK
  BY InitTypeOK
<1>2. TypeOK /\ [Next]_vars => TypeOK'
  BY NextTypeOK
<1> QED
  BY <1>1, <1>2, PTL DEF Spec

=============================================================================
