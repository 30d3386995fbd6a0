----------------------- MODULE TransferSafety_proofs -----------------------
(***************************************************************************)
(* Payment orders and the transfers that the accounts service prepares for *)
(* them: every answer is what its order has asked for, the reciprocal      *)
(* transfer comes last, no transfer is both committed and dismissed, and   *)
(* nothing stays open when all messages have been handled.                 *)
(***************************************************************************)
EXTENDS OrderSafety_proofs, FiniteSetTheorems

----------------------------------------------------------------------------
(* Requests are numbered, and an answer finds the order that has asked.    *)

\* The messages that speak of a request to prepare a transfer.
TransferTypes == {"prepare_transfer", "prepared_transfer", "rejected_transfer"}

RequestsAreNumbered ==
    /\ \A k \in OrderKey : Placed(k) => orders[k].request <= lastRequest
    /\ \A k, l \in OrderKey :
         Placed(k) /\ Placed(l) /\ orders[k].request = orders[l].request => k = l
    /\ \A s \in Emitted("prepare_transfer") : Abs(s.request) <= lastRequest
    /\ \A t \in transfers : Abs(t.request) <= lastRequest

MessagesHaveOrders ==
    \A m \in queue \cup outbox : m.type \in TransferTypes =>
      /\ Found(m.request) # {}
      /\ \E s \in Emitted("prepare_transfer") : s.request = m.request

RequestsFit ==
    \A s \in queue \cup outbox : s.type = "prepare_transfer" =>
      \A k \in Found(s.request) :
        s = PrepareTransferRow(k, orders[k], LegOf(s.request))

TransfersAreUnique == \A t, u \in transfers : t.transfer = u.transfer => t = u

TransfersFit == \A t \in transfers : \A k \in Found(t.request) : Matches(k, t)

\* Message m announces transfer t.
Announces(m, t) ==
    /\ t.transfer = m.transfer
    /\ t.request = m.request
    /\ t.recipient = m.recipient
    /\ t.amount = m.amount

AnswersAreTrue ==
    \A m \in queue : m.type = "prepared_transfer" => \E t \in transfers : Announces(m, t)

\* The transfers that the row po of order k holds have been prepared for it.
HoldsPrepared(k, po) ==
    \A leg \in Held(po) : \E t \in transfers :
      t.transfer = HeldTransfer(k, po, leg) /\ t.request = RequestNumber(po, leg)

HeldArePrepared == \A k \in OrderKey : Placed(k) => HoldsPrepared(k, orders[k])

\* The inductive invariant.
RequestInvariant ==
    /\ RequestsAreNumbered
    /\ MessagesHaveOrders
    /\ RequestsFit
    /\ TransfersAreUnique
    /\ TransfersFit
    /\ AnswersAreTrue
    /\ HeldArePrepared
    /\ ReciprocalComesLast

LEMMA AbsType ==
    ASSUME NEW r \in Int
    PROVE  Abs(r) \in Nat
  BY DEF Abs

\* A request number tells the order and the leg.
LEMMA RequestNumberFields ==
    ASSUME NEW po, po.request \in Nat \ {0}, NEW leg \in Leg
    PROVE  /\ Abs(RequestNumber(po, leg)) = po.request
           /\ LegOf(RequestNumber(po, leg)) = leg
           /\ RequestNumber(po, leg) \in Int \ {0}
  BY DEF RequestNumber, Abs, LegOf, Leg

LEMMA RequestNumberInverse ==
    ASSUME NEW po, NEW r \in Int \ {0}, po.request = Abs(r)
    PROVE  RequestNumber(po, LegOf(r)) = r
  BY DEF RequestNumber, Abs, LegOf

LEMMA PrepareTransferRowFields ==
    ASSUME NEW k, NEW po, NEW leg
    PROVE  /\ PrepareTransferRow(k, po, leg).type = "prepare_transfer"
           /\ PrepareTransferRow(k, po, leg).request = RequestNumber(po, leg)
           /\ PrepareTransferRow(k, po, leg).debtor = po.terms[leg].debtor
           /\ PrepareTransferRow(k, po, leg).sender = Sender(k, leg)
           /\ PrepareTransferRow(k, po, leg).recipient = Recipient(k, leg)
           /\ PrepareTransferRow(k, po, leg).amount = po.terms[leg].amount
  BY DEF PrepareTransferRow

LEMMA SignalTypes ==
    ASSUME NEW s \in Signal
    PROVE  /\ s.type = "prepare_transfer" => s \in PrepareTransferSignal
           /\ s.type = "finalize_prepared_transfer" => s \in FinalizePreparedTransferSignal
           /\ s.type \notin {"prepared_transfer", "rejected_transfer"}
  BY DEF Signal, CreatedFormalOfferSignal, CanceledFormalOfferSignal,
         FailedReciprocalPaymentSignal, SuccessfulPaymentSignal, FailedPaymentSignal,
         PrepareTransferSignal, FinalizePreparedTransferSignal

LEMMA TransferMessageType ==
    ASSUME TypeOK, NEW m \in queue \cup outbox, m.type \in TransferTypes
    PROVE  m.request \in Int \ {0}
<1>1. CASE m \in queue
  BY <1>1, MessageByType
  DEF TypeOK, TransferTypes, PrepareTransferSignal, PreparedTransferSignal,
      RejectedTransferSignal
<1>2. CASE m \in outbox
  BY <1>2, SignalTypes DEF TypeOK, TransferTypes, PrepareTransferSignal
<1> QED
  BY <1>1, <1>2

\* At most one order is found.
LEMMA FoundOnce ==
    ASSUME RequestsAreNumbered, NEW r, NEW k \in Found(r), NEW l \in Found(r)
    PROVE  k = l
  BY DEF RequestsAreNumbered, Found

\* A transfer message or a transfer that is found by its request has the
\* number of the order that is found.
LEMMA FoundRequest ==
    ASSUME NEW r \in Int \ {0}, NEW k \in Found(r)
    PROVE  /\ k \in OrderKey
           /\ Placed(k)
           /\ orders[k].request = Abs(r)
           /\ RequestNumber(orders[k], LegOf(r)) = r
           /\ LegOf(r) \in Leg
  BY RequestNumberInverse DEF Found, LegOf, Leg

----------------------------------------------------------------------------
(* What an actor does to requests.                                         *)

\* The rows that an actor emits: of the transfer messages, only the request
\* of the order that it works on.
LEMMA ActorRows ==
    ASSUME NEW m, ActorStep(m)
    PROVE  \E rows :
             /\ Acts(m, rows)
             /\ \A s \in rows : s.type \in TransferTypes =>
                  \E k \in OrderKey, po \in PaymentOrder, leg \in Leg :
                    Awaiting(m, k, po, leg) /\ s = PrepareTransferRow(k, po, leg)
<1> DEFINE Quiet == \E r : Acts(m, r) /\ \A s \in r : s.type \notin TransferTypes
<1>2. CASE Ignoring(m)
  <2>1. Acts(m, {})
    BY <1>2 DEF Ignoring
  <2>2. Quiet
    BY <2>1
  <2> QED
    BY <2>2
<1>3. ASSUME Refusing(m)
      PROVE  Quiet
  BY <1>3, FailedPaymentFields DEF Refusing, TransferTypes
<1>4. ASSUME Dismissing(m)
      PROVE  Quiet
  BY <1>4 DEF Dismissing, Finalization, TransferTypes
<1>5. ASSUME NEW k \in OrderKey, NEW po \in PaymentOrder, Expiring(m, k, po)
      PROVE  Quiet
  BY <1>5, FailedPaymentFields DEF Expiring, TransferTypes
<1>6. ASSUME NEW k \in OrderKey, NEW po \in PaymentOrder, NEW leg \in Leg,
             Awaiting(m, k, po, leg)
      PROVE  \E rows :
               /\ Acts(m, rows)
               /\ \A s \in rows : s = PrepareTransferRow(k, po, leg)
  BY <1>6 DEF Awaiting
<1>7. ASSUME NEW k \in OrderKey, NEW po \in PaymentOrder, Executing(m, k, po)
      PROVE  Quiet
  <2> DEFINE rows == CommitRows(k, po) \cup AbortAllRows(Losers(k)) \cup {SuccessRow(k, po)}
  <2>1. \A s \in rows : s.type \notin TransferTypes
    BY CommitRowTypes, AbortAllRowTypes, SuccessRowFields, FailedPaymentFields
    DEF TransferTypes
  <2>2. Acts(m, rows)
    BY <1>7 DEF Executing
  <2> HIDE DEF rows
  <2> QED
    BY <2>1, <2>2
<1>8. ASSUME Canceling(m)
      PROVE  Quiet
  <2> DEFINE row  == [type |-> "canceled_formal_offer", offer |-> m.offer]
             rows == AbortAllRows(Unfinalized(m.offer)) \cup {row}
  <2>1. \A s \in rows : s.type \notin TransferTypes
    BY AbortAllRowTypes, FailedPaymentFields DEF TransferTypes
  <2>2. Acts(m, rows)
    BY <1>8 DEF Canceling
  <2> HIDE DEF rows
  <2> QED
    BY <2>1, <2>2
<1>9. ASSUME NEW k \in OrderKey, Rejecting(m, k)
      PROVE  Quiet
  <2>1. \A s \in RejectionRows(k, m.request) : s.type \notin TransferTypes
    BY RejectionRowTypes DEF TransferTypes
  <2> QED
    BY <1>9, <2>1 DEF Rejecting
<1>10. Quiet =>
         \E rows :
           /\ Acts(m, rows)
           /\ \A s \in rows : s.type \in TransferTypes =>
                \E k \in OrderKey, po \in PaymentOrder, leg \in Leg :
                  Awaiting(m, k, po, leg) /\ s = PrepareTransferRow(k, po, leg)
  OBVIOUS
<1> HIDE DEF Quiet
<1>11. CASE Quiet
  BY <1>10, <1>11
<1>12. CASE \E k \in OrderKey, po \in PaymentOrder, leg \in Leg : Awaiting(m, k, po, leg)
  BY <1>6, <1>12
<1> QED
  BY <1>2, <1>3, <1>4, <1>5, <1>7, <1>8, <1>9, <1>11, <1>12 DEF ActorStep

\* An order that keeps its row keeps its terms and its number.
KeepsRow(k) ==
    /\ Placed(k)
    /\ orders'[k] # None
    /\ orders'[k].terms = orders[k].terms
    /\ orders'[k].request = orders[k].request

\* An order that gets a row gets the next number.
GetsRow(m, k) ==
    /\ ~Placed(k)
    /\ orders'[k] # None
    /\ m \in OrderRequest
    /\ k = m.order
    /\ orders'[k].request = lastRequest + 1
    /\ lastRequest' = lastRequest + 1
    /\ \A leg \in Leg : orders'[k].transfer[leg] = None

LEMMA ActorRowKinds ==
    ASSUME DatabaseOK, NEW m, ActorStep(m), NEW k \in OrderKey
    PROVE  \/ ~Placed(k) /\ orders'[k] = None
           \/ KeepsRow(k)
           \/ GetsRow(m, k)
<1>1. CASE orders'[k] = orders[k]
  BY <1>1 DEF KeepsRow, Placed
<1>2. CASE IsUnfinalized(k) /\ Ends(k, orders[k])
  BY <1>2 DEF IsUnfinalized, Ends, Holds, KeepsRow
<1>3. ASSUME NEW po \in PaymentOrder, Works(m, k, po), Pends(k, po) \/ Ends(k, po)
      PROVE  KeepsRow(k) \/ GetsRow(m, k)
  <2>1. Holds(k, po)
    BY <1>3 DEF Pends, Ends
  <2>2. CASE Places(m, k, po)
    BY <2>1, <2>2 DEF Places, Holds, GetsRow
  <2>3. CASE Records(m, k, po)
    BY <2>1, <2>3 DEF Records, Found, Holds, KeepsRow
  <2> QED
    BY <1>3, <2>2, <2>3 DEF Works
<1> QED
  BY <1>1, <1>2, <1>3, ActorRowChange DEF RowChange

LEMMA ActorLastRequest ==
    ASSUME DatabaseOK, NEW m, ActorStep(m)
    PROVE  lastRequest <= lastRequest' /\ lastRequest' \in Nat
<1>1. lastRequest' = lastRequest \/ lastRequest' = lastRequest + 1
  <2>1. ASSUME NEW k \in OrderKey, NEW po \in PaymentOrder, Works(m, k, po)
        PROVE  lastRequest' = lastRequest \/ lastRequest' = lastRequest + 1
    BY <2>1 DEF Works, Places, Records
  <2> QED
    BY <2>1 DEF ActorStep, Ignoring, Refusing, Dismissing, Expiring, Awaiting, Executing,
                Canceling, Rejecting, tables
<1> QED
  BY <1>1 DEF DatabaseOK

\* The orders that are found by a number that was given before.
LEMMA ActorFound ==
    ASSUME DatabaseOK, RequestsAreNumbered, NEW m, ActorStep(m),
           NEW r \in Int, Abs(r) <= lastRequest
    PROVE  Found(r)' = Found(r)
<1>1. ASSUME NEW k \in OrderKey
      PROVE  k \in Found(r)' <=> k \in Found(r)
  <2>1. k \in Found(r)' <=> orders'[k] # None /\ orders'[k].request = Abs(r)
    BY DEF Found, Placed
  <2>2. k \in Found(r) <=> Placed(k) /\ orders[k].request = Abs(r)
    BY DEF Found
  <2>3. Abs(r) # lastRequest + 1
    BY AbsType DEF DatabaseOK
  <2> QED
    BY <2>1, <2>2, <2>3, ActorRowKinds DEF KeepsRow, GetsRow
<1>2. Found(r)' \subseteq OrderKey /\ Found(r) \subseteq OrderKey
  BY DEF Found
<1> QED
  BY <1>1, <1>2

LEMMA ActorNumbers ==
    ASSUME TypeOK, RequestsAreNumbered, NEW m, ActorStep(m)
    PROVE  RequestsAreNumbered'
<1>0. DatabaseOK /\ transfers' = transfers
  BY TypeParts, ActorRows DEF Acts
<1>1. lastRequest <= lastRequest' /\ lastRequest \in Nat /\ lastRequest' \in Nat
  BY <1>0, ActorLastRequest DEF DatabaseOK
<1>2. \A k \in OrderKey : Placed(k) => orders[k].request \in Nat
  BY <1>0, PlacedType DEF PaymentOrder
<1>3. ASSUME NEW k \in OrderKey, Placed(k)'
      PROVE  orders'[k].request <= lastRequest'
  <2>1. KeepsRow(k) \/ GetsRow(m, k)
    BY <1>0, <1>3, ActorRowKinds DEF Placed
  <2> QED
    BY <1>1, <1>2, <2>1 DEF KeepsRow, GetsRow, RequestsAreNumbered
<1>4. ASSUME NEW k \in OrderKey, NEW l \in OrderKey, Placed(k)', Placed(l)',
             orders'[k].request = orders'[l].request
      PROVE  k = l
  <2>1. KeepsRow(k) \/ GetsRow(m, k)
    BY <1>0, <1>4, ActorRowKinds DEF Placed
  <2>2. KeepsRow(l) \/ GetsRow(m, l)
    BY <1>0, <1>4, ActorRowKinds DEF Placed
  <2>3. CASE KeepsRow(k) /\ KeepsRow(l)
    BY <1>4, <2>3 DEF KeepsRow, RequestsAreNumbered
  <2>4. CASE GetsRow(m, k) /\ GetsRow(m, l)
    BY <2>4 DEF GetsRow
  <2>5. \A j \in OrderKey : KeepsRow(j) => orders'[j].request # lastRequest + 1
    BY <1>1, <1>2 DEF KeepsRow, RequestsAreNumbered
  <2> QED
    BY <1>4, <2>1, <2>2, <2>3, <2>4, <2>5 DEF GetsRow
<1>5. ASSUME NEW s \in Emitted("prepare_transfer")'
      PROVE  Abs(s.request) <= lastRequest'
  <2>1. CASE s \in Emitted("prepare_transfer")
    <3>1. Abs(s.request) <= lastRequest /\ s.request \in Int
      BY <1>0, <2>1, SignalTypes
      DEF RequestsAreNumbered, Emitted, DatabaseOK, PrepareTransferSignal
    <3> QED
      BY <1>1, <3>1, AbsType
  <2>2. CASE s \notin Emitted("prepare_transfer")
    <3>1. PICK k \in OrderKey, po \in PaymentOrder, leg \in Leg :
                 Awaiting(m, k, po, leg) /\ s = PrepareTransferRow(k, po, leg)
      <4>1. s \in emitted' /\ s \notin emitted /\ s.type = "prepare_transfer"
        BY <2>2 DEF Emitted
      <4> QED
        BY <4>1, ActorRows DEF Acts, TransferTypes
    <3>2. s.request = RequestNumber(po, leg) /\ po.request \in Nat \ {0}
      BY <3>1, PrepareTransferRowFields DEF PaymentOrder
    <3>3. orders'[k] # None /\ orders'[k].request = po.request
      BY <3>1 DEF Awaiting, Pends, Holds
    <3> QED
      BY <1>3, <3>2, <3>3, RequestNumberFields DEF Placed
  <2> QED
    BY <2>1, <2>2
<1>6. ASSUME NEW t \in transfers'
      PROVE  Abs(t.request) <= lastRequest'
  <2>1. Abs(t.request) <= lastRequest /\ t.request \in Int
    BY <1>0, <1>6 DEF RequestsAreNumbered, TypeOK, PreparedTransfer
  <2> QED
    BY <1>1, <2>1, AbsType
<1> QED
  BY <1>3, <1>4, <1>5, <1>6 DEF RequestsAreNumbered

\* The transfers that the row an actor works on holds.
LEMMA WorksPrepared ==
    ASSUME TypeOK, RequestInvariant, NEW m \in queue, NEW k, NEW po, Works(m, k, po)
    PROVE  HoldsPrepared(k, po)
<1>1. CASE Places(m, k, po)
  BY <1>1 DEF Places, HoldsPrepared, Held
<1>2. CASE Records(m, k, po)
  <2> DEFINE leg == LegOf(m.request)
  <2>1. /\ m \in PreparedTransferSignal
        /\ m.type = "prepared_transfer"
        /\ m.request \in Int \ {0}
        /\ m.transfer = [debtor |-> m.transfer.debtor, sender |-> m.transfer.sender,
                         id |-> m.transfer.id]
    BY <1>2 DEF Records, PreparedTransferSignal, TransferKey
  <2>2. /\ k \in OrderKey /\ Placed(k)
        /\ RequestNumber(orders[k], leg) = m.request
        /\ leg \in Leg
    BY <1>2, <2>1, FoundRequest DEF Records
  <2>3. /\ Matches(k, m)
        /\ po.terms = orders[k].terms
        /\ po.request = orders[k].request
        /\ po.transfer[leg] = m.transfer.id
        /\ \A other \in Leg \ {leg} : po.transfer[other] = orders[k].transfer[other]
    BY <1>2 DEF Records
  <2>4. PICK t \in transfers : Announces(m, t)
    BY <2>1 DEF RequestInvariant, AnswersAreTrue
  <2>5. m.transfer = HeldTransfer(k, po, leg)
    BY <2>1, <2>3 DEF HeldTransfer, Matches
  <2>6. RequestNumber(po, leg) = m.request
    BY <2>2, <2>3 DEF RequestNumber
  <2>7. t.transfer = HeldTransfer(k, po, leg) /\ t.request = RequestNumber(po, leg)
    BY <2>4, <2>5, <2>6 DEF Announces
  <2>8. ASSUME NEW other \in Held(po), other # leg
        PROVE  \E u \in transfers : /\ u.transfer = HeldTransfer(k, po, other)
                                    /\ u.request = RequestNumber(po, other)
    <3>1. other \in Leg \ {leg} /\ po.transfer[other] # None
      BY <2>8 DEF Held
    <3>2. other \in Held(orders[k])
      BY <2>3, <3>1 DEF Held
    <3>3. PICK u \in transfers : /\ u.transfer = HeldTransfer(k, orders[k], other)
                                 /\ u.request = RequestNumber(orders[k], other)
      BY <2>2, <3>2 DEF RequestInvariant, HeldArePrepared, HoldsPrepared
    <3> QED
      BY <2>3, <3>1, <3>3 DEF HeldTransfer, RequestNumber
  <2> QED
    BY <2>7, <2>8 DEF HoldsPrepared
<1> QED
  BY <1>1, <1>2 DEF Works

\* An actor that records a reciprocal transfer has nothing left to ask for.
LEMMA RecordsReciprocal ==
    ASSUME TypeOK, RequestInvariant, NEW m \in queue, NEW k, NEW po, Works(m, k, po),
           po.transfer["reciprocal"] # None
    PROVE  \A leg \in Leg : ~ShouldPrepare(po, leg)
<1>1. Records(m, k, po)
  BY DEF Works, Places, Leg
<1>2. m \in PreparedTransferSignal /\ m.request \in Int \ {0} /\ m.type = "prepared_transfer"
  BY <1>1 DEF Records, PreparedTransferSignal
<1>3. /\ k \in OrderKey /\ Placed(k)
      /\ RequestNumber(orders[k], LegOf(m.request)) = m.request
  BY <1>1, <1>2, FoundRequest DEF Records
<1>4. IsUnfinalized(k)
  BY <1>1, <1>3 DEF Records, Accepts, IsUnfinalized
<1>5. orders[k].transfer["reciprocal"] = None
  BY <1>3, <1>4 DEF RequestInvariant, ReciprocalComesLast
<1>6. LegOf(m.request) = "reciprocal"
  BY <1>1, <1>5 DEF Records, Leg, LegOf
<1>7. \E s \in Emitted("prepare_transfer") : s.request = -orders[k].request
  <2>1. \E s \in Emitted("prepare_transfer") : s.request = m.request
    BY <1>2 DEF RequestInvariant, MessagesHaveOrders, TransferTypes
  <2>2. m.request = -orders[k].request
    BY <1>3, <1>6 DEF RequestNumber
  <2> QED
    BY <2>1, <2>2
<1>8. ~ShouldPrepare(orders[k], "payment")
  BY <1>3, <1>4, <1>7 DEF RequestInvariant, ReciprocalComesLast
<1>9. ~ShouldPrepare(po, "payment")
  BY <1>1, <1>6, <1>8 DEF Records, ShouldPrepare, Leg
<1> QED
  BY <1>9 DEF ShouldPrepare, Leg

\* What a request or a transfer says fits the row as it was, then it fits it
\* as it is.
LEMMA KeptRowFits ==
    ASSUME NEW k, KeepsRow(k), NEW leg
    PROVE  /\ RequestNumber(orders'[k], leg) = RequestNumber(orders[k], leg)
           /\ PrepareTransferRow(k, orders'[k], leg) = PrepareTransferRow(k, orders[k], leg)
           /\ \A m : LegOf(m.request) = leg => (Matches(k, m)' <=> Matches(k, m))
  BY DEF KeepsRow, RequestNumber, PrepareTransferRow, Matches

LEMMA ActorMessages ==
    ASSUME TypeOK, RequestInvariant, NEW m \in queue, ActorStep(m)
    PROVE  MessagesHaveOrders' /\ RequestsFit'
<1>0. DatabaseOK /\ RequestsAreNumbered /\ RequestsAreNumbered'
  BY TypeParts, ActorNumbers DEF RequestInvariant
<1>1. PICK rows :
        /\ Acts(m, rows)
        /\ \A s \in rows : s.type \in TransferTypes =>
             \E k \in OrderKey, po \in PaymentOrder, leg \in Leg :
               Awaiting(m, k, po, leg) /\ s = PrepareTransferRow(k, po, leg)
  BY ActorRows
<1>2. /\ queue' \cup outbox' \subseteq queue \cup outbox \cup rows
      /\ rows \subseteq emitted'
      /\ emitted \subseteq emitted'
  BY <1>1 DEF Acts
<1>3. ASSUME NEW x \in queue \cup outbox, x.type \in TransferTypes
      PROVE  /\ x.request \in Int \ {0}
             /\ Found(x.request) # {}
             /\ Found(x.request)' = Found(x.request)
             /\ \E s \in Emitted("prepare_transfer") : s.request = x.request
  <2>1. x.request \in Int \ {0}
    BY <1>3, TransferMessageType
  <2>2. Found(x.request) # {} /\ \E s \in Emitted("prepare_transfer") : s.request = x.request
    BY <1>3 DEF RequestInvariant, MessagesHaveOrders
  <2>3. Abs(x.request) <= lastRequest
    BY <2>2 DEF RequestInvariant, RequestsAreNumbered, Found
  <2> QED
    BY <1>0, <2>1, <2>2, <2>3, ActorFound
<1>4. ASSUME NEW x \in rows, x.type \in TransferTypes
      PROVE  \E k \in OrderKey, po \in PaymentOrder, leg \in Leg :
               /\ x = PrepareTransferRow(k, po, leg)
               /\ Found(x.request)' = {k}
               /\ LegOf(x.request) = leg
               /\ PrepareTransferRow(k, orders'[k], leg) = x
  <2>1. PICK k \in OrderKey, po \in PaymentOrder, leg \in Leg :
               Awaiting(m, k, po, leg) /\ x = PrepareTransferRow(k, po, leg)
    BY <1>1, <1>4
  <2>2. po.request \in Nat \ {0}
    BY DEF PaymentOrder
  <2>3. /\ x.request = RequestNumber(po, leg)
        /\ Abs(x.request) = po.request
        /\ LegOf(x.request) = leg
    BY <2>1, <2>2, PrepareTransferRowFields, RequestNumberFields
  <2>4. orders'[k] # None /\ orders'[k].request = po.request /\ orders'[k].terms = po.terms
    BY <2>1 DEF Awaiting, Pends, Holds
  <2>5. Found(x.request)' = {k}
    BY <1>0, <2>3, <2>4 DEF Found, Placed, RequestsAreNumbered
  <2>6. PrepareTransferRow(k, orders'[k], leg) = x
    BY <2>1, <2>4 DEF PrepareTransferRow, RequestNumber
  <2> QED
    BY <2>1, <2>3, <2>5, <2>6
<1>5. MessagesHaveOrders'
  <2> SUFFICES ASSUME NEW x \in queue' \cup outbox', x.type \in TransferTypes
               PROVE  /\ Found(x.request)' # {}
                      /\ \E s \in Emitted("prepare_transfer")' : s.request = x.request
    BY DEF MessagesHaveOrders
  <2>1. CASE x \in queue \cup outbox
    BY <1>2, <1>3, <2>1 DEF Emitted
  <2>2. CASE x \in rows
    <3>1. x.type = "prepare_transfer"
      BY <1>4, <2>2, PrepareTransferRowFields
    <3> QED
      BY <1>2, <1>4, <2>2, <3>1 DEF Emitted
  <2> QED
    BY <1>2, <2>1, <2>2
<1>6. RequestsFit'
  <2> SUFFICES ASSUME NEW x \in queue' \cup outbox', x.type = "prepare_transfer",
                      NEW k \in Found(x.request)'
               PROVE  x = PrepareTransferRow(k, orders'[k], LegOf(x.request))
    BY DEF RequestsFit
  <2>1. x.type \in TransferTypes
    BY DEF TransferTypes
  <2>2. CASE x \in queue \cup outbox
    <3>1. k \in Found(x.request) /\ x.request \in Int \ {0}
      BY <1>3, <2>1, <2>2
    <3>2. x = PrepareTransferRow(k, orders[k], LegOf(x.request))
      BY <2>2, <3>1 DEF RequestInvariant, RequestsFit
    <3>3. KeepsRow(k)
      BY <1>0, <3>1, FoundRequest, ActorRowKinds DEF Found, Placed, GetsRow
    <3> QED
      BY <3>2, <3>3, KeptRowFits
  <2>3. CASE x \in rows
    BY <1>4, <2>1, <2>3
  <2> QED
    BY <1>2, <2>2, <2>3
<1> QED
  BY <1>5, <1>6

\* Every row is what it was, has ended, or is the one that the actor works on.
LEMMA ActorHeld ==
    ASSUME TypeOK, RequestInvariant, NEW m \in queue, ActorStep(m)
    PROVE  HeldArePrepared'
<1> SUFFICES ASSUME NEW k \in OrderKey, Placed(k)'
             PROVE  HoldsPrepared(k, orders'[k])
  <2>1. transfers' = transfers
    BY ActorRows DEF Acts
  <2> QED
    BY <2>1 DEF HeldArePrepared, HoldsPrepared, Held, HeldTransfer, RequestNumber
<1>1. ASSUME NEW po, Holds(k, po), HoldsPrepared(k, po)
      PROVE  HoldsPrepared(k, orders'[k])
  BY <1>1 DEF Holds, HoldsPrepared, Held, HeldTransfer, RequestNumber
<1>2. Placed(k) => HoldsPrepared(k, orders[k])
  BY DEF RequestInvariant, HeldArePrepared
<1>3. CASE orders'[k] = orders[k]
  BY <1>2, <1>3 DEF Placed
<1>4. CASE IsUnfinalized(k) /\ Ends(k, orders[k])
  BY <1>1, <1>2, <1>4 DEF IsUnfinalized, Ends
<1>5. ASSUME NEW po \in PaymentOrder, Works(m, k, po), Pends(k, po) \/ Ends(k, po)
      PROVE  HoldsPrepared(k, orders'[k])
  BY <1>1, <1>5, WorksPrepared DEF Pends, Ends
<1> QED
  BY <1>3, <1>4, <1>5, TypeParts, ActorRowChange DEF RowChange

\* An order that is pending after the step is as it was, or waits from now on.
LEMMA ActorPending ==
    ASSUME DatabaseOK, NEW m, ActorStep(m), NEW l \in OrderKey, IsUnfinalized(l)'
    PROVE  \/ orders'[l] = orders[l]
           \/ \E po \in PaymentOrder, leg \in Leg : Awaiting(m, l, po, leg)
<1>0. ~orders'[l].finalized
  BY DEF IsUnfinalized
<1>1. CASE Ignoring(m) \/ Refusing(m) \/ Dismissing(m)
  BY <1>1 DEF Ignoring, Refusing, Dismissing, tables
<1>2. ASSUME NEW k \in OrderKey, NEW po \in PaymentOrder, Expiring(m, k, po)
      PROVE  orders'[l] = orders[l]
  BY <1>0, <1>2 DEF Expiring, OthersStay, Ends
<1>3. ASSUME NEW k \in OrderKey, NEW po \in PaymentOrder, NEW leg \in Leg,
             Awaiting(m, k, po, leg), k # l
      PROVE  orders'[l] = orders[l]
  BY <1>3 DEF Awaiting, OthersStay
<1>4. ASSUME NEW k \in OrderKey, NEW po \in PaymentOrder, Executing(m, k, po)
      PROVE  orders'[l] = orders[l]
  BY <1>0, <1>4 DEF Executing, OthersStay, AllEnd, Ends
<1>5. CASE Canceling(m)
  BY <1>0, <1>5 DEF Canceling, OthersStay, AllEnd, Ends
<1>6. ASSUME NEW k \in OrderKey, Rejecting(m, k)
      PROVE  orders'[l] = orders[l]
  BY <1>0, <1>6 DEF Rejecting, OthersStay, AllEnd, Ends
<1> QED
  BY <1>1, <1>2, <1>3, <1>4, <1>5, <1>6 DEF ActorStep

LEMMA ActorReciprocal ==
    ASSUME TypeOK, RequestInvariant, NEW m \in queue, ActorStep(m)
    PROVE  ReciprocalComesLast'
<1>0. DatabaseOK /\ RequestsAreNumbered /\ RequestsAreNumbered' /\ lastRequest \in Nat
  BY TypeParts, ActorNumbers DEF RequestInvariant, DatabaseOK
<1> SUFFICES ASSUME NEW k \in OrderKey, IsUnfinalized(k)'
             PROVE  /\ orders'[k].transfer["reciprocal"] = None
                    /\ \A s \in Emitted("prepare_transfer")' :
                         s.request = -orders'[k].request => ~ShouldPrepare(orders'[k], "payment")
  BY DEF ReciprocalComesLast, ShouldPrepare
<1>1. IsUnfinalized(k) =>
        /\ orders[k].transfer["reciprocal"] = None
        /\ \A s \in Emitted("prepare_transfer") :
             s.request = -orders[k].request => ~ShouldPrepare(orders[k], "payment")
  BY DEF RequestInvariant, ReciprocalComesLast
<1>2. ASSUME NEW s \in Emitted("prepare_transfer")', s \notin Emitted("prepare_transfer"),
             s.request = -orders'[k].request
      PROVE  ~ShouldPrepare(orders'[k], "payment")
  <2>1. PICK j \in OrderKey, po \in PaymentOrder, leg \in Leg :
          Awaiting(m, j, po, leg) /\ s = PrepareTransferRow(j, po, leg)
    <3>1. s \in emitted' \ emitted /\ s.type = "prepare_transfer"
      BY <1>2 DEF Emitted
    <3> QED
      BY <3>1, ActorRows DEF Acts, TransferTypes
  <2>2. po.request \in Nat \ {0}
    BY DEF PaymentOrder
  <2>3. s.request = RequestNumber(po, leg)
    BY <2>1, PrepareTransferRowFields
  <2>4. Holds(j, po) /\ InTurn(po, leg)
    BY <2>1 DEF Awaiting, Pends
  <2>5. Placed(j)' /\ Placed(k)'
    BY <2>4 DEF Holds, Placed, IsUnfinalized
  <2>6. orders'[k].request \in Nat
    <3>1. CASE orders'[k] = orders[k]
      BY <1>0, <2>5, <3>1, PlacedType DEF Placed, PaymentOrder
    <3>2. ASSUME NEW p \in PaymentOrder, NEW other \in Leg, Awaiting(m, k, p, other)
          PROVE  orders'[k].request \in Nat
      BY <3>2 DEF Awaiting, Pends, Holds, PaymentOrder
    <3> QED
      BY <1>0, <3>1, <3>2, ActorPending
  <2>7. leg = "reciprocal" /\ po.request = orders'[k].request
    BY <1>2, <2>2, <2>3, <2>6 DEF RequestNumber, Leg
  <2>8. j = k
    BY <1>0, <2>4, <2>5, <2>7 DEF RequestsAreNumbered, Holds
  <2> QED
    BY <2>4, <2>7, <2>8 DEF InTurn, Holds, ShouldPrepare
<1>3. CASE orders'[k] = orders[k]
  <2>1. IsUnfinalized(k)
    BY <1>3 DEF IsUnfinalized, Placed
  <2> QED
    BY <1>1, <1>2, <1>3, <2>1
<1>4. ASSUME NEW po \in PaymentOrder, NEW leg \in Leg, Awaiting(m, k, po, leg)
      PROVE  /\ orders'[k].transfer["reciprocal"] = None
             /\ \A s \in Emitted("prepare_transfer") :
                  s.request = -orders'[k].request => ~ShouldPrepare(orders'[k], "payment")
  <2>1. Works(m, k, po) /\ ShouldPrepare(po, leg) /\ Holds(k, po)
    BY <1>4 DEF Awaiting, Pends
  <2>2. po.transfer["reciprocal"] = None
    BY <2>1, RecordsReciprocal
  <2>3. ASSUME NEW s \in Emitted("prepare_transfer"), s.request = -po.request
        PROVE  ~ShouldPrepare(po, "payment")
    <3>1. po.request \in Nat /\ Abs(s.request) = po.request /\ Abs(s.request) <= lastRequest
      BY <1>0, <2>3 DEF PaymentOrder, Abs, RequestsAreNumbered
    <3>2. Records(m, k, po)
      BY <1>0, <2>1, <3>1 DEF Works, Places
    <3>3. IsUnfinalized(k) /\ po.request = orders[k].request /\ po.terms = orders[k].terms
      BY <3>2 DEF Records, Accepts, Found, IsUnfinalized
    <3>4. ~ShouldPrepare(orders[k], "payment")
      BY <1>1, <2>3, <3>3
    <3>5. m.transfer.id # None
      BY <3>2, NoneAssumption DEF Records, PreparedTransferSignal, TransferKey
    <3> QED
      BY <3>2, <3>3, <3>4, <3>5 DEF Records, ShouldPrepare, Leg
  <2> QED
    BY <2>1, <2>2, <2>3 DEF Holds, ShouldPrepare
<1>5. CASE \E po \in PaymentOrder, leg \in Leg : Awaiting(m, k, po, leg)
  BY <1>2, <1>4, <1>5
<1> QED
  BY <1>0, <1>3, <1>5, ActorPending

LEMMA ActorRequests ==
    ASSUME TypeOK, RequestInvariant, NEW m \in queue, ActorStep(m)
    PROVE  RequestInvariant'
<1>0. /\ DatabaseOK /\ RequestsAreNumbered
      /\ transfers' = transfers /\ queue' \subseteq queue
      /\ transfers \subseteq PreparedTransfer
  BY TypeParts, ActorRows DEF RequestInvariant, Acts, TypeOK
<1>1. TransfersAreUnique'
  BY <1>0 DEF RequestInvariant, TransfersAreUnique
<1>2. TransfersFit'
  <2> SUFFICES ASSUME NEW t \in transfers, NEW k \in Found(t.request)'
               PROVE  Matches(k, t)'
    BY <1>0 DEF TransfersFit
  <2>1. t.request \in Int \ {0} /\ Abs(t.request) <= lastRequest
    BY <1>0 DEF PreparedTransfer, RequestsAreNumbered
  <2>2. k \in Found(t.request)
    BY <1>0, <2>1, ActorFound
  <2>3. Matches(k, t)
    BY <2>2 DEF RequestInvariant, TransfersFit
  <2>4. KeepsRow(k)
    BY <1>0, <2>1, <2>2, FoundRequest, ActorRowKinds DEF Found, Placed, GetsRow
  <2> QED
    BY <2>3, <2>4, KeptRowFits
<1>3. AnswersAreTrue'
  BY <1>0 DEF RequestInvariant, AnswersAreTrue, Announces
<1> QED
  BY <1>1, <1>2, <1>3, ActorNumbers, ActorMessages, ActorHeld, ActorReciprocal
  DEF RequestInvariant

----------------------------------------------------------------------------
(* What the other steps do to requests.                                    *)

\* No request is made; of the transfer messages, only rejections appear.
Carrying ==
    /\ UNCHANGED <<orders, lastRequest, transfers>>
    /\ Emitted("prepare_transfer")' = Emitted("prepare_transfer")
    /\ \A x \in queue' \cup outbox' : x.type \in TransferTypes =>
         \/ x \in queue \cup outbox
         \/ /\ x.type = "rejected_transfer"
            /\ \E y \in queue : y.type = "prepare_transfer" /\ x.request = y.request
    /\ \A x \in queue' : x.type = "prepared_transfer" => x \in queue

LEMMA CarryingRequests ==
    ASSUME RequestInvariant, Carrying
    PROVE  RequestInvariant'
<1>1. \A r : Found(r)' = Found(r)
  BY DEF Carrying, Found, Placed
<1>2. RequestsAreNumbered'
  BY DEF Carrying, RequestInvariant, RequestsAreNumbered, Placed
<1>3. MessagesHaveOrders'
  BY <1>1 DEF Carrying, RequestInvariant, MessagesHaveOrders, TransferTypes
<1>4. RequestsFit'
  BY <1>1 DEF Carrying, RequestInvariant, RequestsFit, TransferTypes
<1>5. TransfersAreUnique'
  BY DEF Carrying, RequestInvariant, TransfersAreUnique
<1>6. TransfersFit'
  BY <1>1 DEF Carrying, RequestInvariant, TransfersFit, Matches
<1>7. AnswersAreTrue'
  BY DEF Carrying, RequestInvariant, AnswersAreTrue, Announces
<1>8. HeldArePrepared'
  BY DEF Carrying, RequestInvariant, HeldArePrepared, HoldsPrepared, Placed
<1>9. ReciprocalComesLast'
  BY DEF Carrying, RequestInvariant, ReciprocalComesLast, IsUnfinalized, Placed
<1> QED
  BY <1>2, <1>3, <1>4, <1>5, <1>6, <1>7, <1>8, <1>9 DEF RequestInvariant

LEMMA QuietStepsCarry ==
    ASSUME \/ \E m \in queue : TurningDown(m) \/ Settling(m)
           \/ Publishing
           \/ \E terms \in Announced : Creating(terms)
           \/ Ageing
           \/ Idling
    PROVE  Carrying
<1>1. ASSUME NEW m \in queue, TurningDown(m)
      PROVE  Carrying
  <2>1. /\ m.type = "prepare_transfer"
        /\ RejectionFor(m).type = "rejected_transfer"
        /\ RejectionFor(m).request = m.request
    BY <1>1 DEF TurningDown, PrepareTransferSignal, RejectionFor
  <2> QED
    BY <1>1, <2>1 DEF TurningDown, Serves, ServiceRests, Carrying, Emitted
<1>2. ASSUME NEW m \in queue, Settling(m)
      PROVE  Carrying
  BY <1>2 DEF Settling, Serves, ServiceRests, Carrying, Emitted
<1>3. CASE Publishing
  BY <1>3 DEF Publishing, RequestType, Carrying, Emitted
<1>4. ASSUME NEW terms \in Announced, Creating(terms)
      PROVE  Carrying
  <2> DEFINE row == [type |-> "created_formal_offer", offer |-> lastOffer + 1]
  <2>1. row.type = "created_formal_offer"
    OBVIOUS
  <2>2. /\ outbox' = outbox \cup {row}
        /\ emitted' = emitted \cup {row}
        /\ UNCHANGED <<orders, lastRequest, queue, transfers>>
    BY <1>4 DEF Creating
  <2> HIDE DEF row
  <2> QED
    BY <2>1, <2>2 DEF Carrying, Emitted, TransferTypes
<1>5. CASE Ageing \/ Idling
  BY <1>5 DEF Ageing, Idling, Carrying, Emitted
<1> QED
  BY <1>1, <1>2, <1>3, <1>4, <1>5

LEMMA IssuingCarries ==
    ASSUME NEW m \in ClientRequest, Issuing(m)
    PROVE  Carrying
<1>1. m.type \notin TransferTypes
  BY EnvironmentAssumption DEF OrderRequest, CancelRequest, TransferTypes
<1> QED
  BY <1>1 DEF Issuing, ServiceRests, Carrying, Emitted, TransferTypes

LEMMA PreparingRequests ==
    ASSUME TypeOK, RequestInvariant, NEW m \in queue, NEW key \in TransferKey,
           Preparing(m, key)
    PROVE  RequestInvariant'
<1> DEFINE t == TransferFor(m, key)
<1>0. m.type = "prepare_transfer" /\ m.request \in Int \ {0}
  BY DEF Preparing, PrepareTransferSignal
<1>1. /\ t.transfer = key /\ t.request = m.request
      /\ t.recipient = m.recipient /\ t.amount = m.amount
      /\ AnswerFor(m, key).type = "prepared_transfer"
      /\ AnswerFor(m, key).request = m.request
      /\ AnswerFor(m, key).transfer = key
      /\ AnswerFor(m, key).recipient = m.recipient
      /\ AnswerFor(m, key).amount = m.amount
  BY DEF TransferFor, AnswerFor
<1>2. /\ UNCHANGED <<orders, lastRequest, emitted, outbox>>
      /\ transfers' = transfers \cup {t}
      /\ queue' \subseteq queue \cup {AnswerFor(m, key)}
  BY DEF Preparing, Serves, ServiceRests
<1> HIDE DEF t
<1>3. /\ \A r : Found(r)' = Found(r)
      /\ \A type : Emitted(type)' = Emitted(type)
      /\ \A k : Placed(k)' <=> Placed(k)
  BY <1>2 DEF Found, Placed, Emitted
<1>4. Found(m.request) # {} /\ \E s \in Emitted("prepare_transfer") : s.request = m.request
  BY <1>0 DEF RequestInvariant, MessagesHaveOrders, TransferTypes
<1>5. RequestsAreNumbered'
  BY <1>1, <1>2, <1>3, <1>4 DEF RequestInvariant, RequestsAreNumbered
<1>6. MessagesHaveOrders'
  BY <1>1, <1>2, <1>3, <1>4 DEF RequestInvariant, MessagesHaveOrders
<1>7. RequestsFit'
  BY <1>1, <1>2, <1>3 DEF RequestInvariant, RequestsFit
<1>8. TransfersAreUnique'
  BY <1>1, <1>2 DEF RequestInvariant, TransfersAreUnique, Preparing, IsPrepared
<1>9. TransfersFit'
  <2>1. ASSUME NEW k \in Found(m.request)
        PROVE  Matches(k, t)
    <3>1. m = PrepareTransferRow(k, orders[k], LegOf(m.request))
      BY <1>0 DEF RequestInvariant, RequestsFit
    <3>2. key.debtor = m.debtor /\ key.sender = m.sender
      BY DEF Preparing
    <3> QED
      BY <1>1, <3>1, <3>2, PrepareTransferRowFields DEF Matches
  <2> QED
    BY <1>1, <1>2, <1>3, <2>1 DEF RequestInvariant, TransfersFit, Matches
<1>10. AnswersAreTrue'
  BY <1>1, <1>2 DEF RequestInvariant, AnswersAreTrue, Announces
<1>11. HeldArePrepared'
  BY <1>2, <1>3 DEF RequestInvariant, HeldArePrepared, HoldsPrepared
<1>12. ReciprocalComesLast'
  BY <1>2, <1>3 DEF RequestInvariant, ReciprocalComesLast, IsUnfinalized
<1> QED
  BY <1>5, <1>6, <1>7, <1>8, <1>9, <1>10, <1>11, <1>12 DEF RequestInvariant

\* No row is deleted that a message may still look for.
LEMMA PurgingFound ==
    ASSUME NEW old \in SUBSET OrderKey, Purging(old), NEW m \in queue \cup outbox,
           m.type \in TransferTypes
    PROVE  Found(m.request)' = Found(m.request)
<1>1. ASSUME NEW k \in Found(m.request)
      PROVE  k \notin old
  BY DEF Purging, Outdated, Concerns, TransferTypes, Found
<1> QED
  BY <1>1, NoneAssumption DEF Purging, Found, Placed

LEMMA PurgingRequests ==
    ASSUME TypeOK, RequestInvariant, NEW old \in SUBSET OrderKey, Purging(old)
    PROVE  RequestInvariant'
<1>1. /\ UNCHANGED <<lastRequest, transfers, queue, outbox>>
      /\ \A type : Emitted(type)' = Emitted(type)
  BY DEF Purging, Emitted
<1>2. \A k \in OrderKey : Placed(k)' => Placed(k) /\ orders'[k] = orders[k]
  BY DEF Purging, Placed
<1>3. \A r : Found(r)' \subseteq Found(r)
  BY <1>2 DEF Found
<1>4. RequestsAreNumbered'
  BY <1>1, <1>2 DEF RequestInvariant, RequestsAreNumbered
<1>5. MessagesHaveOrders'
  BY <1>1, PurgingFound DEF RequestInvariant, MessagesHaveOrders
<1>6. RequestsFit'
  BY <1>1, <1>2, <1>3 DEF RequestInvariant, RequestsFit, Found
<1>7. TransfersAreUnique'
  BY <1>1 DEF RequestInvariant, TransfersAreUnique
<1>8. TransfersFit'
  BY <1>1, <1>2, <1>3 DEF RequestInvariant, TransfersFit, Found, Matches
<1>9. AnswersAreTrue'
  BY <1>1 DEF RequestInvariant, AnswersAreTrue, Announces
<1>10. HeldArePrepared'
  BY <1>1, <1>2 DEF RequestInvariant, HeldArePrepared, HoldsPrepared
<1>11. ReciprocalComesLast'
  BY <1>1, <1>2 DEF RequestInvariant, ReciprocalComesLast, IsUnfinalized
<1> QED
  BY <1>4, <1>5, <1>6, <1>7, <1>8, <1>9, <1>10, <1>11 DEF RequestInvariant

LEMMA InitRequests == Init => RequestInvariant
  BY DEF Init, SignalbusInit, PaymentsInit, AccountsInit, RequestInvariant,
         RequestsAreNumbered, MessagesHaveOrders, RequestsFit, TransfersAreUnique,
         TransfersFit, AnswersAreTrue, HeldArePrepared, ReciprocalComesLast,
         IsUnfinalized, Placed, Emitted

LEMMA NextRequests ==
    ASSUME TypeOK, RequestInvariant, [Next]_vars
    PROVE  RequestInvariant'
  BY NextSteps, ActorRequests, PreparingRequests, QuietStepsCarry, IssuingCarries,
     CarryingRequests, PurgingRequests DEF Step

LEMMA RequestInvariantHolds == Spec => []RequestInvariant
<1>1. TypeOK /\ RequestInvariant /\ [Next]_vars => RequestInvariant'
  BY NextRequests
<1> QED
  BY <1>1, InitRequests, TypeCorrect, PTL DEF Spec

\* At most one order is found for an answer of the accounts service, and a
\* prepared transfer is what it has asked for: no assertion of
\* process_prepared_payment_transfer_signal fails, however late the answer is
\* and however often it comes.
THEOREM NoAssertionFails == Spec => []AssertionsHold
<1>1. TypeOK /\ RequestInvariant => AssertionsHold
  <2> SUFFICES ASSUME TypeOK, RequestInvariant, NEW m \in queue,
                      m.type \in {"prepared_transfer", "rejected_transfer"}
               PROVE  /\ \A k, l \in Found(m.request) : k = l
                      /\ m.type = "prepared_transfer" =>
                           \A k \in Found(m.request) : Matches(k, m)
    BY DEF AssertionsHold
  <2>1. \A k, l \in Found(m.request) : k = l
    BY FoundOnce DEF RequestInvariant
  <2>2. ASSUME m.type = "prepared_transfer", NEW k \in Found(m.request)
        PROVE  Matches(k, m)
    <3>1. PICK t \in transfers : Announces(m, t)
      BY <2>2 DEF RequestInvariant, AnswersAreTrue
    <3>2. Matches(k, t)
      BY <2>2, <3>1 DEF RequestInvariant, TransfersFit, Announces
    <3> QED
      BY <3>1, <3>2 DEF Announces, Matches
  <2> QED
    BY <2>1, <2>2
<1> QED
  BY <1>1, RequestInvariantHolds, TypeCorrect, PTL

\* The reciprocal transfer is asked for only when the primary one is held,
\* and an order that can still be aborted never holds it.
THEOREM ReciprocalAlwaysLast == Spec => []ReciprocalComesLast
<1>1. RequestInvariant => ReciprocalComesLast
  BY DEF RequestInvariant
<1> QED
  BY <1>1, RequestInvariantHolds, PTL

----------------------------------------------------------------------------
(* Finalizations: no transfer is both committed and dismissed.             *)

\* Finalization s fits the order that has asked for transfer t: a transfer
\* that the order has recorded is committed if the order is paid, and
\* dismissed if it fails; any other transfer is dismissed.
Fits(s, t) ==
    \A k \in Found(t.request) :
      LET leg == LegOf(t.request)
      IN  /\ ~Accepts(k, leg)
          /\ IF orders[k].transfer[leg] = t.transfer.id
             THEN /\ orders[k].finalized
                  /\ s.committed = IF Succeeded(k) THEN orders[k].terms[leg].amount ELSE 0
             ELSE s.committed = 0

FinalizationsFit ==
    \A s \in Emitted("finalize_prepared_transfer") :
      \E t \in transfers : t.transfer = s.transfer /\ Fits(s, t)

\* The inductive invariant.
FinalizationInvariant == FinalizationsFit /\ CommitXorDismiss

\* Every step leaves what it does not add.
LEMMA StepGrows ==
    ASSUME Step
    PROVE  emitted \subseteq emitted' /\ transfers \subseteq transfers'
<1>1. ASSUME NEW m, ActorStep(m)
      PROVE  emitted \subseteq emitted' /\ transfers' = transfers
  BY <1>1, ActorRows DEF Acts
<1> QED
  BY <1>1 DEF Step, Preparing, TurningDown, Settling, Serves, ServiceRests, Publishing,
              Creating, Issuing, Ageing, Purging, Idling

\* No step makes an answer find an order that it has not found before.
LEMMA StepFound ==
    ASSUME TypeOK, RequestInvariant, Step, NEW t \in transfers
    PROVE  Found(t.request)' \subseteq Found(t.request)
<1>0. t.request \in Int /\ Abs(t.request) <= lastRequest
  BY DEF RequestInvariant, RequestsAreNumbered, TypeOK, PreparedTransfer
<1>1. ASSUME NEW m \in queue, ActorStep(m)
      PROVE  Found(t.request)' = Found(t.request)
  BY <1>0, <1>1, ActorFound, TypeParts DEF RequestInvariant
<1>2. ASSUME NEW old \in SUBSET OrderKey, Purging(old)
      PROVE  Found(t.request)' \subseteq Found(t.request)
  BY <1>2 DEF Purging, Found, Placed
<1>3. CASE orders' = orders
  BY <1>3 DEF Found, Placed
<1> QED
  BY <1>1, <1>2, <1>3
  DEF Step, Preparing, TurningDown, Settling, Serves, ServiceRests, Publishing,
      Creating, Issuing, Ageing, Idling

\* What fits stays fitting.
LEMMA FitsStays ==
    ASSUME TypeOK, RequestInvariant, OutcomeInvariant, OutcomeInvariant', [Next]_vars,
           NEW s, NEW t \in transfers, Fits(s, t)
    PROVE  Fits(s, t)'
<1>0. Step /\ emitted \subseteq emitted'
  BY NextSteps, StepGrows
<1> DEFINE leg == LegOf(t.request)
<1> SUFFICES ASSUME NEW k \in Found(t.request)'
             PROVE  /\ ~Accepts(k, leg)'
                    /\ IF orders'[k].transfer[leg] = t.transfer.id
                       THEN /\ orders'[k].finalized
                            /\ s.committed = IF Succeeded(k)' THEN orders'[k].terms[leg].amount
                                                              ELSE 0
                       ELSE s.committed = 0
  BY DEF Fits
<1>1. k \in Found(t.request) /\ k \in OrderKey /\ Placed(k) /\ Placed(k)'
  BY <1>0, StepFound DEF Found
<1>2. /\ ~Accepts(k, leg)
      /\ IF orders[k].transfer[leg] = t.transfer.id
         THEN /\ orders[k].finalized
              /\ s.committed = IF Succeeded(k) THEN orders[k].terms[leg].amount ELSE 0
         ELSE s.committed = 0
  BY <1>1 DEF Fits
<1>3. IsKept(k)
  BY <1>1, NextKeeps
<1> HIDE DEF leg
<1>4. CASE orders[k].finalized
  <2>1. orders'[k] = orders[k]
    BY <1>1, <1>3, <1>4 DEF IsKept, Placed
  <2>2. Succeeded(k) => Succeeded(k)'
    BY <1>0 DEF Succeeded, Emitted
  <2>3. Failed(k) => Failed(k)'
    BY <1>0 DEF Failed, Emitted
  <2>4. Succeeded(k) \/ Failed(k)
    BY <1>1, <1>4, OutcomeParts DEF OutcomeInvariant, FinalHasOutcome
  <2>5. ~(Succeeded(k)' /\ Failed(k)')
    BY <1>1 DEF OutcomeInvariant, OneSuccess
  <2> QED
    BY <1>2, <2>1, <2>2, <2>3, <2>4, <2>5 DEF Accepts
<1>5. CASE ~orders[k].finalized
  <2>1. leg \in Leg /\ orders[k].transfer[leg] # None
    BY <1>2, <1>5 DEF Accepts, leg, LegOf, Leg
  <2>2. orders'[k].transfer[leg] = orders[k].transfer[leg]
    BY <1>1, <1>3, <1>5, <2>1 DEF IsKept, Held, Placed
  <2> QED
    BY <1>2, <1>5, <2>1, <2>2 DEF Accepts
<1> QED
  BY <1>4, <1>5

\* Order l ends with the row p, and s finalizes the transfer that it holds.
Releases(m, l, p, leg, s) ==
    /\ Ends(l, p)
    /\ (IsUnfinalized(l) /\ p = orders[l]) \/ Works(m, l, p)
    /\ s.transfer = HeldTransfer(l, p, leg)
    /\ s.committed = IF Succeeded(l)' THEN p.terms[leg].amount ELSE 0

LEMMA FinalizationFields ==
    ASSUME NEW key, NEW committed
    PROVE  /\ Finalization(key, committed).type = "finalize_prepared_transfer"
           /\ Finalization(key, committed).transfer = key
           /\ Finalization(key, committed).committed = committed
  BY DEF Finalization

\* The rows of an order that fails.
LEMMA AbortReleases ==
    ASSUME OutcomeInvariant', NEW m, NEW l \in OrderKey, NEW p, NEW reason,
           AbortRows(l, p, reason) \subseteq emitted', Ends(l, p),
           (IsUnfinalized(l) /\ p = orders[l]) \/ Works(m, l, p),
           NEW s \in AbortRows(l, p, reason), s.type = "finalize_prepared_transfer"
    PROVE  \E leg \in Held(p) : Releases(m, l, p, leg, s)
<1>1. s # FailedPayment(l, reason)
  BY FailedPaymentFields
<1>2. PICK leg \in Held(p) : s = Finalization(HeldTransfer(l, p, leg), 0)
  BY <1>1 DEF AbortRows
<1>3. FailedPayment(l, reason) \in emitted'
  BY DEF AbortRows
<1>4. ~Succeeded(l)'
  BY <1>3, FailedPaymentFields DEF OutcomeInvariant, OneSuccess, Failed, Emitted
<1> QED
  BY <1>2, <1>4, FinalizationFields DEF Releases

LEMMA AbortAllReleases ==
    ASSUME OutcomeInvariant', NEW m, NEW ks \in SUBSET OrderKey,
           AbortAllRows(ks) \subseteq emitted', AllEnd(ks),
           \A l \in ks : IsUnfinalized(l),
           NEW s \in AbortAllRows(ks), s.type = "finalize_prepared_transfer"
    PROVE  \E l \in OrderKey : \E leg \in Held(orders[l]) : Releases(m, l, orders[l], leg, s)
<1>1. PICK l \in ks : s \in AbortRows(l, orders[l], "PAY004")
  BY DEF AbortAllRows
<1>2. AbortRows(l, orders[l], "PAY004") \subseteq emitted' /\ Ends(l, orders[l])
  BY DEF AbortAllRows, AllEnd
<1>3. \E leg \in Held(orders[l]) : Releases(m, l, orders[l], leg, s)
  BY <1>1, <1>2, AbortReleases
<1> QED
  BY <1>3

\* A finalization that an actor emits dismisses the transfer that it was told
\* of, or releases what an order holds that ends.
LEMMA ActorFinalizations ==
    ASSUME TypeOK, OutcomeInvariant', NEW m \in queue, ActorStep(m),
           NEW s \in Emitted("finalize_prepared_transfer")',
           s \notin Emitted("finalize_prepared_transfer")
    PROVE  \/ Dismissing(m) /\ s.transfer = m.transfer /\ s.committed = 0
           \/ \E l \in OrderKey, p \in PaymentOrder :
                \E leg \in Held(p) : Releases(m, l, p, leg, s)
<1>0. s \in emitted' /\ s \notin emitted /\ s.type = "finalize_prepared_transfer"
  BY DEF Emitted
<1> DEFINE Goal == \E l \in OrderKey, p \in PaymentOrder :
                     \E leg \in Held(p) : Releases(m, l, p, leg, s)
<1>1. ASSUME Ignoring(m) \/ Refusing(m)
      PROVE  FALSE
  BY <1>0, <1>1, FailedPaymentFields DEF Ignoring, Refusing, Acts
<1>2. ASSUME Dismissing(m)
      PROVE  s.transfer = m.transfer /\ s.committed = 0
  BY <1>0, <1>2, FinalizationFields DEF Dismissing, Acts
<1>3. ASSUME NEW k \in OrderKey, NEW po \in PaymentOrder,
             Expiring(m, k, po) \/ \E leg \in Leg : Awaiting(m, k, po, leg)
      PROVE  FALSE
  BY <1>0, <1>3, FailedPaymentFields, PrepareTransferRowFields DEF Expiring, Awaiting, Acts
<1>4. ASSUME NEW k \in OrderKey, NEW po \in PaymentOrder, Executing(m, k, po)
      PROVE  Goal
  <2>1. /\ Works(m, k, po) /\ Ends(k, po) /\ AllEnd(Losers(k))
        /\ emitted' = emitted \cup (CommitRows(k, po) \cup AbortAllRows(Losers(k))
                                      \cup {SuccessRow(k, po)})
    BY <1>4 DEF Executing, Acts
  <2>2. CASE s \in CommitRows(k, po)
    <3>1. PICK leg \in Held(po) :
            s = Finalization(HeldTransfer(k, po, leg), po.terms[leg].amount)
      BY <2>2 DEF CommitRows
    <3>2. Succeeded(k)'
      BY <2>1, SuccessRowFields DEF Succeeded, Emitted
    <3>3. Releases(m, k, po, leg, s)
      BY <2>1, <3>1, <3>2, FinalizationFields DEF Releases
    <3> QED
      BY <3>3
  <2>3. CASE s \in AbortAllRows(Losers(k))
    <3>1. /\ Losers(k) \in SUBSET OrderKey
          /\ \A l \in Losers(k) : IsUnfinalized(l)
      BY DEF Losers, Unfinalized
    <3>2. AbortAllRows(Losers(k)) \subseteq emitted'
      BY <2>1
    <3>3. PICK l \in OrderKey : \E leg \in Held(orders[l]) : Releases(m, l, orders[l], leg, s)
      BY <1>0, <2>1, <2>3, <3>1, <3>2, AbortAllReleases
    <3>4. orders[l] \in PaymentOrder
      BY <2>3, <3>3, PlacedType, TypeParts DEF Releases, IsUnfinalized, Works
    <3> QED
      BY <3>3, <3>4
  <2>4. s # SuccessRow(k, po)
    BY <1>0, SuccessRowFields
  <2> QED
    BY <1>0, <2>1, <2>2, <2>3, <2>4
<1>5. ASSUME Canceling(m)
      PROVE  Goal
  <2> DEFINE ks  == Unfinalized(m.offer)
             row == [type |-> "canceled_formal_offer", offer |-> m.offer]
  <2>1. row.type = "canceled_formal_offer"
    OBVIOUS
  <2>2. AllEnd(ks) /\ emitted' = emitted \cup (AbortAllRows(ks) \cup {row})
    BY <1>5 DEF Canceling, Acts
  <2>3. ks \in SUBSET OrderKey /\ \A l \in ks : IsUnfinalized(l)
    BY DEF Unfinalized
  <2> HIDE DEF ks, row
  <2>4. s \in AbortAllRows(ks) /\ AbortAllRows(ks) \subseteq emitted'
    BY <1>0, <2>1, <2>2
  <2>5. PICK l \in OrderKey : \E leg \in Held(orders[l]) : Releases(m, l, orders[l], leg, s)
    BY <1>0, <2>2, <2>3, <2>4, AbortAllReleases
  <2>6. orders[l] \in PaymentOrder
    BY <2>5, PlacedType, TypeParts DEF Releases, IsUnfinalized, Works
  <2> QED
    BY <2>5, <2>6
<1>6. ASSUME NEW k \in OrderKey, Rejecting(m, k)
      PROVE  Goal
  <2> DEFINE row == [type |-> "failed_reciprocal_payment", offer |-> k.offer]
  <2>1. row.type = "failed_reciprocal_payment"
    OBVIOUS
  <2>2. PICK reason : \/ RejectionRows(k, m.request) = AbortRows(k, orders[k], reason) \cup {row}
                      \/ RejectionRows(k, m.request) = AbortRows(k, orders[k], reason)
    BY DEF RejectionRows
  <2>3. Ends(k, orders[k]) /\ IsUnfinalized(k)
        /\ emitted' = emitted \cup RejectionRows(k, m.request)
    BY <1>6 DEF Rejecting, Acts, AllEnd
  <2> HIDE DEF row
  <2>4. s \in AbortRows(k, orders[k], reason)
        /\ AbortRows(k, orders[k], reason) \subseteq emitted'
    BY <1>0, <2>1, <2>2, <2>3
  <2>5. \E leg \in Held(orders[k]) : Releases(m, k, orders[k], leg, s)
    BY <1>0, <2>3, <2>4, AbortReleases
  <2>6. orders[k] \in PaymentOrder
    BY <2>3, PlacedType, TypeParts DEF IsUnfinalized
  <2> QED
    BY <2>5, <2>6
<1> HIDE DEF Goal
<1>7. Goal \/ (Dismissing(m) /\ s.transfer = m.transfer /\ s.committed = 0)
  BY <1>1, <1>2, <1>3, <1>4, <1>5, <1>6 DEF ActorStep
<1> QED
  BY <1>7 DEF Goal

\* What is dismissed because nobody waits for it.
LEMMA DismissingFits ==
    ASSUME TypeOK, RequestInvariant, NEW m \in queue, Dismissing(m),
           NEW s, s.transfer = m.transfer, s.committed = 0
    PROVE  \E t \in transfers :
             t.transfer = s.transfer /\ Fits(s, t)' /\ Found(t.request)' # {}
<1>1. m.type = "prepared_transfer"
  BY DEF Dismissing, PreparedTransferSignal
<1>2. PICK t \in transfers : Announces(m, t)
  BY <1>1 DEF RequestInvariant, AnswersAreTrue
<1>3. t.request = m.request /\ t.transfer = m.transfer
  BY <1>2 DEF Announces
<1>4. Found(m.request) # {}
  BY <1>1 DEF RequestInvariant, MessagesHaveOrders, TransferTypes
<1>5. PICK k \in Found(m.request) : ~Accepts(k, LegOf(m.request)) /\ ~IsRecorded(k, m)
  BY <1>4 DEF Dismissing
<1>6. \A l \in Found(m.request) : l = k
  BY FoundOnce DEF RequestInvariant
<1>7. Fits(s, t)
  BY <1>3, <1>5, <1>6 DEF Fits, IsRecorded
<1>8. orders' = orders /\ Found(t.request)' = Found(t.request)
  BY DEF Dismissing, tables, Found, Placed
<1>9. Fits(s, t)'
  BY <1>3, <1>5, <1>6, <1>8 DEF Fits, IsRecorded, Accepts
<1> QED
  BY <1>3, <1>4, <1>8, <1>9

\* What an order held when it ended.
LEMMA ReleasesFits ==
    ASSUME TypeOK, RequestInvariant, RequestInvariant', NEW m \in queue,
           NEW l \in OrderKey, NEW p \in PaymentOrder, NEW leg \in Held(p), NEW s,
           Releases(m, l, p, leg, s), transfers' = transfers
    PROVE  \E t \in transfers :
             t.transfer = s.transfer /\ Fits(s, t)' /\ Found(t.request)' # {}
<1>1. HoldsPrepared(l, p)
  <2>1. CASE IsUnfinalized(l) /\ p = orders[l]
    BY <2>1 DEF RequestInvariant, HeldArePrepared, IsUnfinalized
  <2>2. CASE Works(m, l, p)
    BY <2>2, WorksPrepared
  <2> QED
    BY <2>1, <2>2 DEF Releases
<1>2. PICK t \in transfers :
        t.transfer = HeldTransfer(l, p, leg) /\ t.request = RequestNumber(p, leg)
  BY <1>1 DEF HoldsPrepared
<1>3. /\ leg \in Leg /\ p.transfer[leg] # None
      /\ p.request \in Nat \ {0}
  BY DEF Held, PaymentOrder
<1>4. Abs(t.request) = p.request /\ LegOf(t.request) = leg
  BY <1>2, <1>3, RequestNumberFields
<1>5. t.transfer.id = p.transfer[leg]
  BY <1>2 DEF HeldTransfer
<1>6. /\ orders'[l] # None /\ orders'[l].finalized
      /\ orders'[l].terms = p.terms
      /\ orders'[l].request = p.request
      /\ orders'[l].transfer = p.transfer
  BY DEF Releases, Ends, Holds
<1>7. Found(t.request)' = {l}
  BY <1>4, <1>6 DEF Found, Placed, RequestInvariant, RequestsAreNumbered
<1>8. s.transfer = t.transfer
      /\ s.committed = IF Succeeded(l)' THEN p.terms[leg].amount ELSE 0
  BY <1>2 DEF Releases
<1>9. Fits(s, t)'
  BY <1>3, <1>4, <1>5, <1>6, <1>7, <1>8 DEF Fits, Accepts
<1> QED
  BY <1>7, <1>8, <1>9

LEMMA StepFinalizations ==
    ASSUME Step, NEW s \in Emitted("finalize_prepared_transfer")',
           s \notin Emitted("finalize_prepared_transfer")
    PROVE  \E m \in queue : ActorStep(m)
<1>1. s \in emitted' /\ s \notin emitted /\ s.type = "finalize_prepared_transfer"
  BY DEF Emitted
<1>2. ASSUME NEW terms, Creating(terms)
      PROVE  FALSE
  BY <1>1, <1>2 DEF Creating
<1> QED
  BY <1>1, <1>2
  DEF Step, Preparing, TurningDown, Settling, Serves, ServiceRests, Publishing,
      Issuing, Ageing, Purging, Idling

LEMMA InitFinalizations == Init => FinalizationInvariant
  BY DEF Init, SignalbusInit, FinalizationInvariant, FinalizationsFit, CommitXorDismiss,
         Emitted

LEMMA NextFinalizations ==
    ASSUME TypeOK, RequestInvariant, RequestInvariant', OutcomeInvariant, OutcomeInvariant',
           FinalizationInvariant, [Next]_vars
    PROVE  FinalizationInvariant'
<1>0. Step /\ transfers \subseteq transfers'
  BY NextSteps, StepGrows
<1>1. ASSUME NEW s \in Emitted("finalize_prepared_transfer")
      PROVE  \E t \in transfers' : t.transfer = s.transfer /\ Fits(s, t)'
  <2>1. PICK t \in transfers : t.transfer = s.transfer /\ Fits(s, t)
    BY DEF FinalizationInvariant, FinalizationsFit
  <2> QED
    BY <1>0, <2>1, FitsStays
<1>2. ASSUME NEW s \in Emitted("finalize_prepared_transfer")',
             s \notin Emitted("finalize_prepared_transfer")
      PROVE  \E t \in transfers' :
               t.transfer = s.transfer /\ Fits(s, t)' /\ Found(t.request)' # {}
  <2>1. PICK m \in queue : ActorStep(m)
    BY <1>0, <1>2, StepFinalizations
  <2>2. transfers' = transfers
    BY <2>1, ActorRows DEF Acts
  <2>3. CASE Dismissing(m) /\ s.transfer = m.transfer /\ s.committed = 0
    BY <2>2, <2>3, DismissingFits
  <2>4. ASSUME NEW l \in OrderKey, NEW p \in PaymentOrder, NEW leg \in Held(p),
               Releases(m, l, p, leg, s)
        PROVE  \E t \in transfers' :
                 t.transfer = s.transfer /\ Fits(s, t)' /\ Found(t.request)' # {}
    BY <2>2, <2>4, ReleasesFits
  <2> QED
    BY <1>2, <2>1, <2>3, <2>4, ActorFinalizations
<1>3. FinalizationsFit'
  BY <1>1, <1>2 DEF FinalizationsFit
<1>4. CommitXorDismiss'
  <2> SUFFICES ASSUME NEW s \in Emitted("finalize_prepared_transfer")',
                      NEW u \in Emitted("finalize_prepared_transfer")',
                      s.transfer = u.transfer
               PROVE  s.committed = u.committed
    BY DEF CommitXorDismiss
  <2>1. ASSUME NEW x \in Emitted("finalize_prepared_transfer")',
               NEW y \in Emitted("finalize_prepared_transfer")',
               x.transfer = y.transfer,
               x \notin Emitted("finalize_prepared_transfer")
        PROVE  x.committed = y.committed
    <3>1. PICK t \in transfers' :
            t.transfer = x.transfer /\ Fits(x, t)' /\ Found(t.request)' # {}
      BY <1>2, <2>1
    <3>2. PICK v \in transfers' : v.transfer = y.transfer /\ Fits(y, v)'
      BY <1>3 DEF FinalizationsFit
    <3>3. v = t
      BY <2>1, <3>1, <3>2 DEF RequestInvariant, TransfersAreUnique
    <3>4. PICK k : k \in Found(t.request)'
      BY <3>1
    <3> QED
      BY <3>1, <3>2, <3>3, <3>4 DEF Fits
  <2>2. CASE s \in Emitted("finalize_prepared_transfer")
             /\ u \in Emitted("finalize_prepared_transfer")
    BY <2>2 DEF FinalizationInvariant, CommitXorDismiss
  <2> QED
    BY <2>1, <2>2
<1> QED
  BY <1>3, <1>4 DEF FinalizationInvariant

LEMMA FinalizationInvariantHolds == Spec => []FinalizationInvariant
<1>1. TypeOK /\ RequestInvariant /\ RequestInvariant' /\ OutcomeInvariant
        /\ OutcomeInvariant' /\ FinalizationInvariant /\ [Next]_vars
          => FinalizationInvariant'
  BY NextFinalizations
<1> QED
  BY <1>1, InitFinalizations, TypeCorrect, RequestInvariantHolds, OutcomeInvariantHolds,
     PTL DEF Spec

\* The service never asks to commit a transfer that it dismisses elsewhere,
\* so the order in which the accounts service handles the finalizations does
\* not matter.
THEOREM NeverBothWays == Spec => []CommitXorDismiss
<1>1. FinalizationInvariant => CommitXorDismiss
  BY DEF FinalizationInvariant
<1> QED
  BY <1>1, FinalizationInvariantHolds, PTL

----------------------------------------------------------------------------
(* Nothing stays open: what has to be done has a message that drives it.   *)

\* Message x carries the transfer that the row of order k waits for.
Drives(x, k) ==
    /\ x.type \in TransferTypes
    /\ \E leg \in Leg :
         /\ ShouldPrepare(orders[k], leg)
         /\ x.request = RequestNumber(orders[k], leg)

PendingIsAwaited ==
    \A k \in OrderKey : IsUnfinalized(k) => \E x \in queue \cup outbox : Drives(x, k)

FinalizationsArrive ==
    \A s \in Emitted("finalize_prepared_transfer") :
      s \in queue \cup outbox \/ IsSettled(s.transfer)

IsReleased(key) == \E s \in Emitted("finalize_prepared_transfer") : s.transfer = key

\* An order that is final has released what it held.
FinalsAreReleased ==
    \A k \in OrderKey : Placed(k) /\ orders[k].finalized =>
      \A leg \in Held(orders[k]) : IsReleased(HeldTransfer(k, orders[k], leg))

IsHeld(key) ==
    \E k \in OrderKey :
      IsUnfinalized(k) /\ \E leg \in Held(orders[k]) : HeldTransfer(k, orders[k], leg) = key

TransfersAreTaken ==
    \A t \in transfers :
      \/ IsReleased(t.transfer)
      \/ \E m \in queue : m.type = "prepared_transfer" /\ m.transfer = t.transfer
      \/ IsHeld(t.transfer)

\* The inductive invariant.
ProgressInvariant ==
    /\ PendingIsAwaited
    /\ FinalizationsArrive
    /\ FinalsAreReleased
    /\ TransfersAreTaken

\* The messages that actors handle.
LEMMA ActorMessageTypes ==
    ASSUME NEW m, ActorStep(m)
    PROVE  /\ \/ m \in OrderRequest
              \/ m \in CancelRequest
              \/ m \in PreparedTransferSignal
              \/ m \in RejectedTransferSignal
           /\ m.type \notin {"prepare_transfer", "finalize_prepared_transfer"}
<1>1. \/ m \in OrderRequest
      \/ m \in CancelRequest
      \/ m \in PreparedTransferSignal
      \/ m \in RejectedTransferSignal
  <2>1. ASSUME NEW k, NEW po, Works(m, k, po)
        PROVE  m \in OrderRequest \/ m \in PreparedTransferSignal
    BY <2>1 DEF Works, Places, Records
  <2> QED
    BY <2>1 DEF ActorStep, Ignoring, Refusing, Dismissing, Expiring, Awaiting, Executing,
                Canceling, Rejecting
<1> QED
  BY <1>1 DEF OrderRequest, CancelRequest, PreparedTransferSignal, RejectedTransferSignal

\* The message that drives an order decides it, or makes it wait for another.
LEMMA DriverMoves ==
    ASSUME TypeOK, RequestInvariant, NEW m \in queue, ActorStep(m), NEW k \in OrderKey,
           IsUnfinalized(k), Drives(m, k), orders'[k] = orders[k]
    PROVE  FALSE
<1>0. DatabaseOK
  BY TypeParts
<1>1. PICK leg \in Leg :
        /\ m.type \in TransferTypes
        /\ ShouldPrepare(orders[k], leg)
        /\ m.request = RequestNumber(orders[k], leg)
  BY DEF Drives
<1>2. orders[k].request \in Nat \ {0} /\ orders'[k].finalized = FALSE
  BY <1>0, PlacedType DEF IsUnfinalized, PaymentOrder
<1>3. k \in Found(m.request) /\ LegOf(m.request) = leg /\ \A j \in Found(m.request) : j = k
  <2>1. Abs(m.request) = orders[k].request /\ LegOf(m.request) = leg
    BY <1>1, <1>2, RequestNumberFields
  <2> QED
    BY <2>1, FoundOnce DEF Found, IsUnfinalized, RequestInvariant
<1>4. Accepts(k, leg) /\ orders'[k].transfer[leg] = None
  BY <1>1 DEF Accepts, ShouldPrepare, IsUnfinalized
<1>5. m \notin OrderRequest /\ m \notin CancelRequest
  BY <1>1 DEF OrderRequest, CancelRequest, TransferTypes
<1>6. ASSUME NEW l \in OrderKey, NEW po \in PaymentOrder, Works(m, l, po)
      PROVE  l = k /\ po.transfer[leg] # None
  <2>1. Records(m, l, po)
    BY <1>5, <1>6 DEF Works, Places
  <2> QED
    BY <1>3, <2>1, NoneAssumption DEF Records, PreparedTransferSignal, TransferKey
<1>7. ASSUME NEW l \in OrderKey, NEW po \in PaymentOrder, Works(m, l, po),
             Pends(l, po) \/ Ends(l, po)
      PROVE  FALSE
  BY <1>4, <1>6, <1>7 DEF Pends, Ends, Holds
<1>8. CASE Ignoring(m)
  <2>1. \/ \E j \in Found(m.request) : ~Accepts(j, LegOf(m.request))
        \/ \A j \in Found(m.request) : ~IsUnfinalized(j)
    BY <1>5, <1>8 DEF Ignoring
  <2> QED
    BY <1>3, <1>4, <2>1
<1>9. CASE Dismissing(m)
  <2>1. \/ \E j \in Found(m.request) : ~Accepts(j, LegOf(m.request))
        \/ Found(m.request) = {}
    BY <1>9 DEF Dismissing
  <2> QED
    BY <1>3, <1>4, <2>1
<1>10. ASSUME NEW l \in OrderKey, Rejecting(m, l)
       PROVE  FALSE
  BY <1>2, <1>3, <1>10 DEF Rejecting, AllEnd, Ends
<1> QED
  BY <1>5, <1>7, <1>8, <1>9, <1>10
  DEF ActorStep, Refusing, Expiring, Awaiting, Executing, Canceling

LEMMA ActorAwaited ==
    ASSUME TypeOK, RequestInvariant, PendingIsAwaited, NEW m \in queue, ActorStep(m)
    PROVE  PendingIsAwaited'
<1>0. DatabaseOK
  BY TypeParts
<1> SUFFICES ASSUME NEW k \in OrderKey, IsUnfinalized(k)'
             PROVE  \E x \in queue' \cup outbox' : Drives(x, k)'
  BY DEF PendingIsAwaited
<1>1. queue \ {m} \subseteq queue' /\ outbox \subseteq outbox'
  BY ActorRows DEF Acts
<1>2. CASE orders'[k] = orders[k]
  <2>1. IsUnfinalized(k)
    BY <1>2 DEF IsUnfinalized, Placed
  <2>2. PICK x \in queue \cup outbox : Drives(x, k)
    BY <2>1 DEF PendingIsAwaited
  <2>3. Drives(x, k)'
    BY <1>2, <2>2 DEF Drives, ShouldPrepare, RequestNumber
  <2>4. x # m
    BY <1>2, <2>1, <2>2, DriverMoves
  <2> QED
    BY <1>1, <2>2, <2>3, <2>4
<1>3. ASSUME NEW po \in PaymentOrder, NEW leg \in Leg, Awaiting(m, k, po, leg)
      PROVE  \E x \in queue' \cup outbox' : Drives(x, k)'
  <2> DEFINE x == PrepareTransferRow(k, po, leg)
  <2>1. x \in outbox'
    BY <1>3 DEF Awaiting, Acts
  <2>2. x.type \in TransferTypes /\ x.request = RequestNumber(po, leg)
    BY PrepareTransferRowFields DEF TransferTypes
  <2>3. ShouldPrepare(po, leg) /\ Holds(k, po)
    BY <1>3 DEF Awaiting, Pends
  <2> HIDE DEF x
  <2>4. Drives(x, k)'
    BY <2>2, <2>3 DEF Drives, ShouldPrepare, RequestNumber, Holds
  <2> QED
    BY <2>1, <2>4
<1> QED
  BY <1>0, <1>2, <1>3, ActorPending

\* An order that ends releases what it holds.
LEMMA ActorReleases ==
    ASSUME TypeOK, NEW m \in queue, ActorStep(m), NEW l \in OrderKey,
           orders'[l] # orders[l], orders'[l].finalized,
           NEW leg \in Held(orders'[l])
    PROVE  \E s \in Emitted("finalize_prepared_transfer")' :
             s.transfer = HeldTransfer(l, orders'[l], leg)
<1> DEFINE Releasing(p) ==
             \E c : Finalization(HeldTransfer(l, p, leg), c) \in emitted'
<1>1. ASSUME NEW p, Holds(l, p), Releasing(p)
      PROVE  \E s \in Emitted("finalize_prepared_transfer")' :
             s.transfer = HeldTransfer(l, orders'[l], leg)
  <2>1. HeldTransfer(l, p, leg) = HeldTransfer(l, orders'[l], leg)
    BY <1>1 DEF HeldTransfer, Holds
  <2>2. PICK c : Finalization(HeldTransfer(l, p, leg), c) \in emitted'
    BY <1>1
  <2> QED
    BY <2>1, <2>2, FinalizationFields DEF Emitted
<1>2. ASSUME NEW reason, Ends(l, orders[l]),
             AbortRows(l, orders[l], reason) \subseteq emitted'
      PROVE  Holds(l, orders[l]) /\ Releasing(orders[l])
  <2>1. Holds(l, orders[l]) /\ leg \in Held(orders[l])
    BY <1>2 DEF Ends, Holds, Held
  <2>2. Finalization(HeldTransfer(l, orders[l], leg), 0) \in AbortRows(l, orders[l], reason)
    BY <2>1 DEF AbortRows
  <2> QED
    BY <1>2, <2>1, <2>2
<1>3. ASSUME NEW ks, l \in ks, AllEnd(ks), AbortAllRows(ks) \subseteq emitted'
      PROVE  Holds(l, orders[l]) /\ Releasing(orders[l])
  <2>1. AbortRows(l, orders[l], "PAY004") \subseteq emitted' /\ Ends(l, orders[l])
    BY <1>3 DEF AbortAllRows, AllEnd
  <2> QED
    BY <1>2, <2>1
<1>4. CASE Ignoring(m) \/ Refusing(m) \/ Dismissing(m)
  BY <1>4 DEF Ignoring, Refusing, Dismissing, tables
<1>5. ASSUME NEW k \in OrderKey, NEW po \in PaymentOrder, Expiring(m, k, po)
      PROVE  FALSE
  BY <1>5 DEF Expiring, OthersStay, Ends, Holds, Places, Held
<1>6. ASSUME NEW k \in OrderKey, NEW po \in PaymentOrder, NEW other \in Leg,
             Awaiting(m, k, po, other)
      PROVE  FALSE
  BY <1>6 DEF Awaiting, OthersStay, Pends
<1>7. ASSUME NEW k \in OrderKey, NEW po \in PaymentOrder, Executing(m, k, po)
      PROVE  \E p : Holds(l, p) /\ Releasing(p)
  <2>1. /\ Ends(k, po) /\ AllEnd(Losers(k)) /\ OthersStay(Losers(k) \cup {k})
        /\ CommitRows(k, po) \subseteq emitted'
        /\ AbortAllRows(Losers(k)) \subseteq emitted'
    BY <1>7 DEF Executing, Acts
  <2>2. CASE l \in Losers(k)
    BY <1>3, <2>1, <2>2
  <2>3. CASE l = k
    <3>1. Holds(l, po) /\ leg \in Held(po)
      BY <2>1, <2>3 DEF Ends, Holds, Held
    <3>2. Finalization(HeldTransfer(l, po, leg), po.terms[leg].amount) \in CommitRows(k, po)
      BY <2>3, <3>1 DEF CommitRows
    <3> QED
      BY <2>1, <3>1, <3>2
  <2> QED
    BY <2>1, <2>2, <2>3 DEF OthersStay
<1>8. CASE Canceling(m)
  <2>1. /\ AllEnd(Unfinalized(m.offer)) /\ OthersStay(Unfinalized(m.offer))
        /\ AbortAllRows(Unfinalized(m.offer)) \subseteq emitted'
    BY <1>8 DEF Canceling, Acts
  <2>2. l \in Unfinalized(m.offer)
    BY <2>1 DEF OthersStay
  <2> QED
    BY <1>1, <1>3, <2>1, <2>2
<1>9. ASSUME NEW k \in OrderKey, Rejecting(m, k)
      PROVE  \E p : Holds(l, p) /\ Releasing(p)
  <2>1. l = k /\ Ends(l, orders[l]) /\ RejectionRows(k, m.request) \subseteq emitted'
    BY <1>9 DEF Rejecting, OthersStay, AllEnd, Acts
  <2>2. \E reason : AbortRows(l, orders[l], reason) \subseteq emitted'
    BY <2>1 DEF RejectionRows
  <2> QED
    BY <1>2, <2>1, <2>2
<1> HIDE DEF Releasing
<1> QED
  BY <1>1, <1>4, <1>5, <1>6, <1>7, <1>8, <1>9 DEF ActorStep

\* A row that is there after a step is as it was, or an actor has changed it.
LEMMA StepRowPlaced ==
    ASSUME TypeOK, Step, NEW k \in OrderKey, Placed(k)'
    PROVE  orders'[k] = orders[k] \/ \E m \in queue : ActorStep(m)
  BY StepRow DEF Placed

LEMMA NextReleased ==
    ASSUME TypeOK, FinalsAreReleased, Step
    PROVE  FinalsAreReleased'
<1> SUFFICES ASSUME NEW k \in OrderKey, Placed(k)', orders'[k].finalized,
                    NEW leg \in Held(orders'[k])
             PROVE  \E s \in Emitted("finalize_prepared_transfer")' :
                      s.transfer = HeldTransfer(k, orders'[k], leg)
  BY DEF FinalsAreReleased, IsReleased, HeldTransfer
<1>1. CASE orders'[k] = orders[k]
  <2>1. Placed(k) /\ orders[k].finalized /\ leg \in Held(orders[k])
    BY <1>1 DEF Placed
  <2>2. IsReleased(HeldTransfer(k, orders[k], leg))
    BY <2>1 DEF FinalsAreReleased
  <2> QED
    BY <1>1, <2>2, StepGrows DEF IsReleased, Emitted
<1>2. CASE orders'[k] # orders[k]
  BY <1>2, StepRowPlaced, ActorReleases
<1> QED
  BY <1>1, <1>2

LEMMA NextAwaited ==
    ASSUME TypeOK, RequestInvariant, PendingIsAwaited, Step
    PROVE  PendingIsAwaited'
<1>1. ASSUME NEW m \in queue, ActorStep(m)
      PROVE  PendingIsAwaited'
  BY <1>1, ActorAwaited
<1>2. ASSUME /\ \A k \in OrderKey : IsUnfinalized(k)' =>
                  IsUnfinalized(k) /\ orders'[k] = orders[k]
             /\ \A x \in queue \cup outbox : x.type \in TransferTypes =>
                  \E y \in queue' \cup outbox' :
                    y.type \in TransferTypes /\ y.request = x.request
      PROVE  PendingIsAwaited'
  <2> SUFFICES ASSUME NEW k \in OrderKey, IsUnfinalized(k)'
               PROVE  \E y \in queue' \cup outbox' : Drives(y, k)'
    BY DEF PendingIsAwaited
  <2>1. IsUnfinalized(k) /\ orders'[k] = orders[k]
    BY <1>2
  <2>2. PICK x \in queue \cup outbox : Drives(x, k)
    BY <2>1 DEF PendingIsAwaited
  <2>3. PICK y \in queue' \cup outbox' : y.type \in TransferTypes /\ y.request = x.request
    BY <1>2, <2>2 DEF Drives
  <2>4. Drives(y, k)'
    BY <2>1, <2>2, <2>3 DEF Drives
  <2> QED
    BY <2>4
<1>3. orders' = orders =>
        \A k \in OrderKey : IsUnfinalized(k)' => IsUnfinalized(k) /\ orders'[k] = orders[k]
  BY DEF IsUnfinalized, Placed
<1>4. ASSUME NEW m \in queue, \/ \E key \in TransferKey : Preparing(m, key)
                              \/ TurningDown(m)
                              \/ Settling(m)
      PROVE  PendingIsAwaited'
  <2>1. m.type \in TransferTypes =>
          \E y \in queue' : y.type \in TransferTypes /\ y.request = m.request
    <3>1. ASSUME NEW key \in TransferKey, Preparing(m, key)
          PROVE  /\ AnswerFor(m, key) \in queue'
                 /\ AnswerFor(m, key).type \in TransferTypes
                 /\ AnswerFor(m, key).request = m.request
      BY <3>1 DEF Preparing, Serves, AnswerFor, TransferTypes
    <3>2. CASE TurningDown(m)
      <4>1. /\ RejectionFor(m) \in queue'
            /\ RejectionFor(m).type \in TransferTypes
            /\ RejectionFor(m).request = m.request
        BY <3>2 DEF TurningDown, Serves, RejectionFor, TransferTypes
      <4> QED
        BY <4>1
    <3>3. CASE Settling(m)
      BY <3>3 DEF Settling, FinalizePreparedTransferSignal, TransferTypes
    <3> QED
      BY <1>4, <3>1, <3>2, <3>3
  <2>2. queue \ {m} \subseteq queue' /\ outbox' = outbox /\ orders' = orders
    BY <1>4 DEF Preparing, TurningDown, Settling, Serves, ServiceRests
  <2> QED
    BY <1>2, <1>3, <2>1, <2>2
<1>5. CASE Publishing
  <2>1. ASSUME NEW x \in outbox, x.type \in TransferTypes
        PROVE  x \in queue' \cup outbox'
    BY <1>5, <2>1, SignalTypes DEF Publishing, TypeOK, RequestType, TransferTypes
  <2>2. queue \subseteq queue' /\ orders' = orders
    BY <1>5 DEF Publishing
  <2> QED
    BY <1>2, <1>3, <2>1, <2>2
<1>6. ASSUME NEW old \in SUBSET OrderKey, Purging(old)
      PROVE  PendingIsAwaited'
  <2>1. \A k \in OrderKey : IsUnfinalized(k)' => IsUnfinalized(k) /\ orders'[k] = orders[k]
    BY <1>6 DEF Purging, IsUnfinalized, Placed
  <2>2. queue' = queue /\ outbox' = outbox
    BY <1>6 DEF Purging
  <2> QED
    BY <1>2, <2>1, <2>2
<1>7. CASE \/ \E terms \in Announced : Creating(terms)
           \/ \E m \in ClientRequest : Issuing(m)
           \/ Ageing
           \/ Idling
  <2>1. orders' = orders /\ queue \subseteq queue' /\ outbox \subseteq outbox'
    BY <1>7 DEF Creating, Issuing, ServiceRests, Ageing, Idling
  <2> QED
    BY <1>2, <1>3, <2>1
<1> QED
  BY <1>1, <1>4, <1>5, <1>6, <1>7 DEF Step

LEMMA NextArrive ==
    ASSUME TypeOK, FinalizationInvariant, FinalizationsArrive, Step
    PROVE  FinalizationsArrive'
<1> SUFFICES ASSUME NEW s \in Emitted("finalize_prepared_transfer")'
             PROVE  s \in queue' \cup outbox' \/ IsSettled(s.transfer)'
  BY DEF FinalizationsArrive
<1>0. s.type = "finalize_prepared_transfer" /\ s \in emitted'
  BY DEF Emitted
<1>1. IsSettled(s.transfer) => IsSettled(s.transfer)'
  <2>1. settled \subseteq settled'
    <3>1. ASSUME NEW m, ActorStep(m)
          PROVE  settled' = settled
      BY <3>1, ActorRows DEF Acts
    <3>2. ASSUME NEW terms, Creating(terms)
          PROVE  settled' = settled
      BY <3>2 DEF Creating
    <3> QED
      BY <3>1, <3>2 DEF Step, Preparing, TurningDown, Settling, Publishing, Issuing,
                        Ageing, Purging, Idling
  <2> QED
    BY <2>1 DEF IsSettled
<1>2. s \in emitted => s \in queue \cup outbox \/ IsSettled(s.transfer)
  BY <1>0 DEF FinalizationsArrive, Emitted
<1>3. ASSUME NEW m \in queue, ActorStep(m)
      PROVE  s \in queue' \cup outbox' \/ IsSettled(s.transfer)'
  <2>1. m # s
    BY <1>0, <1>3, ActorMessageTypes
  <2> QED
    BY <1>0, <1>1, <1>2, <1>3, <2>1, ActorRows DEF Acts
<1>4. ASSUME NEW m \in queue, NEW sent, Serves(m, sent), m # s
      PROVE  s \in queue' \cup outbox' \/ IsSettled(s.transfer)'
  BY <1>0, <1>1, <1>2, <1>4 DEF Serves, ServiceRests
<1>5. ASSUME NEW m \in queue, (\E key \in TransferKey : Preparing(m, key)) \/ TurningDown(m)
      PROVE  s \in queue' \cup outbox' \/ IsSettled(s.transfer)'
  <2>1. m # s
    BY <1>0, <1>5 DEF Preparing, TurningDown, PrepareTransferSignal
  <2> QED
    BY <1>4, <1>5, <2>1 DEF Preparing, TurningDown
<1>6. ASSUME NEW m \in queue, Settling(m)
      PROVE  s \in queue' \cup outbox' \/ IsSettled(s.transfer)'
  <2>1. CASE m # s
    BY <1>4, <1>6, <2>1 DEF Settling
  <2>2. CASE m = s
    <3>1. s \in Emitted("finalize_prepared_transfer")
      BY <1>0, <1>6 DEF Settling, Serves, ServiceRests, Emitted
    <3>2. IsPrepared(s.transfer)
      BY <3>1 DEF FinalizationInvariant, FinalizationsFit, IsPrepared
    <3> QED
      BY <1>6, <2>2, <3>2 DEF Settling
  <2> QED
    BY <2>1, <2>2
<1>7. CASE Publishing
  BY <1>0, <1>1, <1>2, <1>7 DEF Publishing, RequestType
<1>8. CASE \/ \E terms \in Announced : Creating(terms)
           \/ \E m \in ClientRequest : Issuing(m)
           \/ Ageing
           \/ \E old \in SUBSET OrderKey : Purging(old)
           \/ Idling
  BY <1>0, <1>1, <1>2, <1>8 DEF Creating, Issuing, ServiceRests, Ageing, Purging, Idling
<1> QED
  BY <1>3, <1>5, <1>6, <1>7, <1>8 DEF Step

LEMMA NextTaken ==
    ASSUME TypeOK, RequestInvariant, FinalsAreReleased, FinalsAreReleased',
           TransfersAreTaken, [Next]_vars
    PROVE  TransfersAreTaken'
<1>0. Step /\ emitted \subseteq emitted' /\ DatabaseOK
  BY NextSteps, StepGrows, TypeParts
<1> DEFINE Taken(key) ==
             \/ \E s \in Emitted("finalize_prepared_transfer")' : s.transfer = key
             \/ \E x \in queue' : x.type = "prepared_transfer" /\ x.transfer = key
             \/ \E k \in OrderKey :
                  /\ IsUnfinalized(k)'
                  /\ \E leg \in Held(orders'[k]) : HeldTransfer(k, orders'[k], leg) = key
<1>1. \A key : IsReleased(key) => Taken(key)
  BY <1>0 DEF IsReleased, Emitted
\* An order that holds a transfer after the step has it released or is pending.
<1>2. ASSUME NEW k \in OrderKey, Placed(k)', NEW leg \in Held(orders'[k])
      PROVE  Taken(HeldTransfer(k, orders'[k], leg))
  <2>1. CASE orders'[k].finalized
    BY <1>2, <2>1 DEF FinalsAreReleased, IsReleased, HeldTransfer
  <2>2. CASE ~orders'[k].finalized
    BY <1>2, <2>2 DEF IsUnfinalized, Placed
  <2> QED
    BY <2>1, <2>2
<1> HIDE DEF Taken
<1>3. ASSUME NEW key, IsHeld(key)
      PROVE  Taken(key)
  <2>1. PICK k \in OrderKey :
          /\ IsUnfinalized(k)
          /\ \E leg \in Held(orders[k]) : HeldTransfer(k, orders[k], leg) = key
    BY <1>3 DEF IsHeld
  <2>2. PICK leg \in Held(orders[k]) : HeldTransfer(k, orders[k], leg) = key
    BY <2>1
  <2>3. /\ Placed(k)'
        /\ orders'[k].terms = orders[k].terms
        /\ orders'[k].transfer[leg] = orders[k].transfer[leg]
    <3>1. IsKept(k)
      BY <2>1, NextKeeps DEF IsUnfinalized
    <3>2. Placed(k)' /\ orders'[k].terms = orders[k].terms
      <4>1. ASSUME NEW m, ActorStep(m)
            PROVE  KeepsRow(k)
        BY <1>0, <2>1, <4>1, ActorRowKinds DEF IsUnfinalized, GetsRow
      <4>2. ~Outdated(k)
        BY <2>1 DEF Outdated, IsUnfinalized
      <4> QED
        BY <1>0, <2>1, <4>1, <4>2, StepRow DEF KeepsRow, Placed, IsUnfinalized
    <3> QED
      BY <2>1, <3>1, <3>2 DEF IsKept, IsUnfinalized
  <2>4. leg \in Held(orders'[k]) /\ HeldTransfer(k, orders'[k], leg) = key
    BY <2>2, <2>3 DEF Held, HeldTransfer
  <2> QED
    BY <1>2, <2>3, <2>4
<1>4. ASSUME NEW m \in queue, ActorStep(m), m.type = "prepared_transfer"
      PROVE  Taken(m.transfer)
  <2> DEFINE own == LegOf(m.request)
  <2>1. /\ m \in PreparedTransferSignal
        /\ m.transfer = [debtor |-> m.transfer.debtor, sender |-> m.transfer.sender,
                         id |-> m.transfer.id]
        /\ m.transfer.id # None
    <3>1. m \in PreparedTransferSignal
      BY <1>4, MessageByType DEF TypeOK
    <3> QED
      BY <3>1, NoneAssumption DEF PreparedTransferSignal, TransferKey
  <2>2. m \notin OrderRequest /\ m \notin CancelRequest /\ m \notin RejectedTransferSignal
    BY <1>4 DEF OrderRequest, CancelRequest, RejectedTransferSignal
  <2>3. own \in Leg
    BY LegOfType
  <2>4. ASSUME NEW k \in Found(m.request)
        PROVE  Matches(k, m)
    <3>1. PICK t \in transfers : Announces(m, t)
      BY <1>4 DEF RequestInvariant, AnswersAreTrue
    <3>2. Matches(k, t)
      BY <3>1 DEF RequestInvariant, TransfersFit, Announces
    <3> QED
      BY <3>1, <3>2 DEF Announces, Matches
  \* The row of an order that has this transfer after the step.
  <2>5. ASSUME NEW k \in Found(m.request), Placed(k)', orders'[k].terms = orders[k].terms,
               orders'[k].transfer[own] = m.transfer.id
        PROVE  Taken(m.transfer)
    <3>1. k \in OrderKey /\ own \in Held(orders'[k])
      BY <2>1, <2>3, <2>5 DEF Found, Held
    <3>2. HeldTransfer(k, orders'[k], own) = m.transfer
      BY <2>1, <2>4, <2>5 DEF HeldTransfer, Matches
    <3> QED
      BY <1>2, <2>5, <3>1, <3>2
  <2>6. CASE Ignoring(m)
    <3>1. PICK k \in Found(m.request) : IsRecorded(k, m)
      BY <2>2, <2>6 DEF Ignoring
    <3>2. Placed(k)' /\ orders' = orders
      BY <2>6 DEF Ignoring, tables, Found, Placed
    <3> QED
      BY <2>5, <3>1, <3>2 DEF IsRecorded
  <2>7. CASE Dismissing(m)
    <3>1. Finalization(m.transfer, 0) \in emitted'
      BY <2>7 DEF Dismissing, Acts
    <3> QED
      BY <3>1, FinalizationFields DEF Taken, Emitted
  <2>8. ASSUME NEW k, NEW po, Works(m, k, po), Holds(k, po)
        PROVE  Taken(m.transfer)
    <3>1. Records(m, k, po)
      BY <2>2, <2>8 DEF Works, Places
    <3> QED
      BY <2>5, <2>8, <3>1 DEF Records, Holds, Placed
  <2> QED
    BY <1>4, <2>2, <2>6, <2>7, <2>8
    DEF ActorStep, Refusing, Expiring, Awaiting, Executing, Canceling, Rejecting,
        Pends, Ends
<1>5. ASSUME NEW key, NEW x \in queue, x.type = "prepared_transfer", x.transfer = key
      PROVE  Taken(key)
  <2>1. CASE x \in queue'
    BY <1>5, <2>1 DEF Taken
  <2>2. ASSUME NEW m \in queue, ActorStep(m), x \notin queue'
        PROVE  x = m
    BY <2>2, ActorRows DEF Acts
  <2>3. ASSUME NEW m \in queue, NEW sent, Serves(m, sent), m.type # "prepared_transfer"
        PROVE  x \in queue'
    BY <1>5, <2>3 DEF Serves
  <2>4. ASSUME NEW m \in queue, \/ \E key2 \in TransferKey : Preparing(m, key2)
                                \/ TurningDown(m)
                                \/ Settling(m)
        PROVE  x \in queue'
    <3>1. m.type # "prepared_transfer"
      BY <2>4 DEF Preparing, TurningDown, Settling, PrepareTransferSignal,
                  FinalizePreparedTransferSignal
    <3> QED
      BY <2>3, <2>4, <3>1 DEF Preparing, TurningDown, Settling
  <2>5. CASE \/ Publishing
             \/ \E terms \in Announced : Creating(terms)
             \/ \E m \in ClientRequest : Issuing(m)
             \/ Ageing
             \/ \E old \in SUBSET OrderKey : Purging(old)
             \/ Idling
    <3>1. queue \subseteq queue'
      BY <2>5 DEF Publishing, Creating, Issuing, Ageing, Purging, Idling
    <3> QED
      BY <2>1, <3>1
  <2> QED
    BY <1>0, <1>4, <1>5, <2>1, <2>2, <2>4, <2>5 DEF Step
<1>6. ASSUME NEW t \in transfers
      PROVE  Taken(t.transfer)
  BY <1>1, <1>3, <1>5 DEF TransfersAreTaken, Taken
<1>7. ASSUME NEW t \in transfers', t \notin transfers
      PROVE  Taken(t.transfer)
  <2>1. PICK m \in queue, key \in TransferKey : Preparing(m, key)
    <3>1. ASSUME NEW m, ActorStep(m)
          PROVE  transfers' = transfers
      BY <3>1, ActorRows DEF Acts
    <3>2. ASSUME NEW terms, Creating(terms)
          PROVE  transfers' = transfers
      BY <3>2 DEF Creating
    <3> QED
      BY <1>0, <1>7, <3>1, <3>2 DEF Step, TurningDown, Settling, Publishing, Issuing,
                                    Ageing, Purging, Idling
  <2>2. t = TransferFor(m, key) /\ AnswerFor(m, key) \in queue'
    BY <1>7, <2>1 DEF Preparing, Serves
  <2>3. /\ t.transfer = key
        /\ AnswerFor(m, key).type = "prepared_transfer"
        /\ AnswerFor(m, key).transfer = key
    BY <2>2 DEF TransferFor, AnswerFor
  <2> QED
    BY <2>2, <2>3 DEF Taken
<1>8. ASSUME NEW t \in transfers', Taken(t.transfer)
      PROVE  \/ IsReleased(t.transfer)'
             \/ \E m \in queue' : m.type = "prepared_transfer" /\ m.transfer = t.transfer
             \/ IsHeld(t.transfer)'
  BY <1>8 DEF Taken, IsReleased, IsHeld, Held, HeldTransfer
<1> QED
  BY <1>6, <1>7, <1>8 DEF TransfersAreTaken

LEMMA InitProgress == Init => ProgressInvariant
  BY DEF Init, SignalbusInit, PaymentsInit, AccountsInit, ProgressInvariant,
         PendingIsAwaited, FinalizationsArrive, FinalsAreReleased, TransfersAreTaken,
         IsUnfinalized, Placed, Emitted

LEMMA NextProgress ==
    ASSUME TypeOK, RequestInvariant, FinalizationInvariant, ProgressInvariant, [Next]_vars
    PROVE  ProgressInvariant'
<1>1. Step
  BY NextSteps
<1>2. PendingIsAwaited' /\ FinalizationsArrive' /\ FinalsAreReleased'
  BY <1>1, NextAwaited, NextArrive, NextReleased DEF ProgressInvariant
<1> QED
  BY <1>2, NextTaken DEF ProgressInvariant

LEMMA ProgressInvariantHolds == Spec => []ProgressInvariant
<1>1. TypeOK /\ RequestInvariant /\ FinalizationInvariant /\ ProgressInvariant /\ [Next]_vars
        => ProgressInvariant'
  BY NextProgress
<1> QED
  BY <1>1, InitProgress, TypeCorrect, RequestInvariantHolds, FinalizationInvariantHolds,
     PTL DEF Spec

\* When nothing is left to deliver, nothing is left open: every order has had
\* its outcome, and no prepared transfer keeps the money of anybody locked,
\* whatever was lost, repeated or late before.
THEOREM QuietMeansSettled == Spec => []QuiescentIsSettled
<1>1. TypeOK /\ OutcomeInvariant /\ ProgressInvariant => QuiescentIsSettled
  <2> SUFFICES ASSUME TypeOK, OutcomeInvariant, ProgressInvariant,
                      queue = {}, outbox = {}
               PROVE  /\ \A k \in OrderKey : ~IsUnfinalized(k)
                      /\ \A m \in issued : IsOrderRequest(m) => HasOutcome(m.order)
                      /\ \A t \in transfers : IsSettled(t.transfer)
    BY DEF QuiescentIsSettled
  <2>1. \A k \in OrderKey : ~IsUnfinalized(k)
    BY DEF ProgressInvariant, PendingIsAwaited
  <2>2. ASSUME NEW m \in issued, IsOrderRequest(m)
        PROVE  HasOutcome(m.order)
    <3>1. m.order \in OrderKey
      BY <2>2, EnvironmentAssumption
      DEF TypeOK, IsOrderRequest, OrderRequest, CancelRequest
    <3> QED
      BY <2>1, <2>2, <3>1
      DEF OutcomeInvariant, IssuedIsHandled, FinalHasOutcome, IsUnfinalized
  <2>3. ASSUME NEW t \in transfers
        PROVE  IsSettled(t.transfer)
    <3>1. IsReleased(t.transfer)
      BY <2>1 DEF ProgressInvariant, TransfersAreTaken, IsHeld
    <3> QED
      BY <3>1 DEF ProgressInvariant, FinalizationsArrive, IsReleased
  <2> QED
    BY <2>1, <2>2, <2>3
<1> QED
  BY <1>1, TypeCorrect, OutcomeInvariantHolds, ProgressInvariantHolds, PTL

----------------------------------------------------------------------------
(* Money moves exactly as the successful payments say.                     *)

SameSize(C, D) == IsFiniteSet(C) /\ IsFiniteSet(D) /\ Cardinality(C) = Cardinality(D)

Balanced(move) == SameSize(CommittedMoves(move), DueMoves(move))

\* The inductive invariant: what MoneyMatchesPayments says, and that there
\* are finitely many movements.
MoneyInvariant ==
    \A debtor \in Debtor, sender, recipient \in Creditor, amount \in Amount \ {0} :
      Balanced(Move(debtor, sender, recipient, amount))

\* What one leg of order k moves.
LegMove(k, terms, leg) ==
    Move(terms[leg].debtor, Sender(k, leg), Recipient(k, leg), terms[leg].amount)

LEMMA DueMembers ==
    ASSUME NEW move, NEW due
    PROVE  /\ due \in DueMoves(move) <=>
                /\ due \in Emitted("successful_payment") \X Leg
                /\ due[1].terms[due[2]].amount > 0
                /\ move = LegMove(due[1].order, due[1].terms, due[2])
           /\ due \in DueMoves(move)' <=>
                /\ due \in Emitted("successful_payment")' \X Leg
                /\ due[1].terms[due[2]].amount > 0
                /\ move = LegMove(due[1].order, due[1].terms, due[2])
<1>1. ASSUME NEW s, NEW leg \in Leg
      PROVE  (move = LegMove(s.order, s.terms, leg)) <=>
               \/ /\ leg = "payment"
                  /\ move = Move(s.terms[leg].debtor, s.order.payer, Payee,
                                 s.terms[leg].amount)
               \/ /\ leg = "reciprocal"
                  /\ move = Move(s.terms[leg].debtor, Payee, s.order.payer,
                                 s.terms[leg].amount)
  BY DEF LegMove, Sender, Recipient, Leg
<1> QED
  BY <1>1 DEF DueMoves

\* One more thing on both sides.
LEMMA AddBoth ==
    ASSUME NEW C, NEW D, SameSize(C, D), NEW x, NEW y, x \notin C, y \notin D
    PROVE  SameSize(C \cup {x}, D \cup {y})
<1>1. IsFiniteSet(C \cup {x}) /\ Cardinality(C \cup {x}) = Cardinality(C) + 1
  BY FS_AddElement DEF SameSize
<1>2. IsFiniteSet(D \cup {y}) /\ Cardinality(D \cup {y}) = Cardinality(D) + 1
  BY FS_AddElement DEF SameSize
<1> QED
  BY <1>1, <1>2 DEF SameSize

\* C2 and D2 have one thing more than C and D for each leg in legs.
AddsLegs(C, D, C2, D2, legs, c, d) ==
    /\ legs \in SUBSET Leg
    /\ \A leg \in legs : c[leg] \notin C /\ d[leg] \notin D
    /\ \A i, j \in legs : i # j => c[i] # c[j] /\ d[i] # d[j]
    /\ C2 = C \cup {c[leg] : leg \in legs}
    /\ D2 = D \cup {d[leg] : leg \in legs}

LEMMA AddLegs ==
    ASSUME NEW C, NEW D, NEW C2, NEW D2, NEW legs, NEW c, NEW d, SameSize(C, D),
           AddsLegs(C, D, C2, D2, legs, c, d)
    PROVE  SameSize(C2, D2)
<1> USE DEF AddsLegs
<1>0. \/ legs = {}
      \/ \E leg \in Leg : legs = {leg}
      \/ legs = {"payment", "reciprocal"}
  BY DEF Leg
<1>1. CASE legs = {}
  <2>1. C2 = C /\ D2 = D
    BY <1>1
  <2> QED
    BY <2>1
<1>2. ASSUME NEW leg \in Leg, legs = {leg}
      PROVE  SameSize(C2, D2)
  <2>1. C2 = C \cup {c[leg]} /\ D2 = D \cup {d[leg]}
    BY <1>2
  <2>2. c[leg] \notin C /\ d[leg] \notin D
    BY <1>2
  <2>3. SameSize(C \cup {c[leg]}, D \cup {d[leg]})
    BY <2>2, AddBoth
  <2> QED
    BY <2>1, <2>3
<1>3. CASE legs = {"payment", "reciprocal"}
  <2> DEFINE C1 == C \cup {c["payment"]}
             D1 == D \cup {d["payment"]}
  <2>1. C2 = C1 \cup {c["reciprocal"]} /\ D2 = D1 \cup {d["reciprocal"]}
    BY <1>3
  <2>2. c["payment"] \notin C /\ d["payment"] \notin D
    BY <1>3
  <2>3. c["reciprocal"] \notin C1 /\ d["reciprocal"] \notin D1
    BY <1>3
  <2>4. SameSize(C1, D1)
    BY <2>2, AddBoth
  <2> HIDE DEF C1, D1
  <2>5. SameSize(C1 \cup {c["reciprocal"]}, D1 \cup {d["reciprocal"]})
    BY <2>3, <2>4, AddBoth
  <2> QED
    BY <2>1, <2>5
<1> QED
  BY <1>0, <1>1, <1>2, <1>3

\* The transfers that belong to a finalization do not change.
LEMMA CommittedMembers ==
    ASSUME TransfersAreUnique', FinalizationsFit, transfers \subseteq transfers',
           NEW move, NEW s \in Emitted("finalize_prepared_transfer"), emitted \subseteq emitted'
    PROVE  s \in CommittedMoves(move)' <=> s \in CommittedMoves(move)
<1>1. s \in Emitted("finalize_prepared_transfer")'
  BY DEF Emitted
<1>2. PICK u \in transfers : u.transfer = s.transfer
  BY DEF FinalizationsFit
<1>3. \A t \in transfers' : t.transfer = s.transfer => t = u
  BY <1>2 DEF TransfersAreUnique
<1> QED
  BY <1>1, <1>2, <1>3 DEF CommittedMoves

\* A step that pays nobody.
LEMMA QuietBalance ==
    ASSUME TransfersAreUnique', FinalizationsFit, transfers \subseteq transfers',
           emitted \subseteq emitted',
           Emitted("successful_payment")' = Emitted("successful_payment"),
           \A s \in Emitted("finalize_prepared_transfer")' :
             s \in Emitted("finalize_prepared_transfer") \/ s.committed = 0,
           NEW move, Balanced(move)
    PROVE  Balanced(move)'
<1>1. DueMoves(move)' = DueMoves(move)
  BY DEF DueMoves
<1>2. ASSUME NEW s
      PROVE  s \in CommittedMoves(move)' <=> s \in CommittedMoves(move)
  <2>1. CASE s \in Emitted("finalize_prepared_transfer")
    BY <2>1, CommittedMembers
  <2>2. CASE s \notin Emitted("finalize_prepared_transfer")
    BY <2>2 DEF CommittedMoves
  <2> QED
    BY <2>1, <2>2
<1>3. CommittedMoves(move)' = CommittedMoves(move)
  BY <1>2
<1> QED
  BY <1>1, <1>3 DEF Balanced

\* What an order holds that is worked on has not been finalized yet.
LEMMA WorksFresh ==
    ASSUME TypeOK, RequestInvariant, FinalizationsFit, NEW m \in queue, NEW k, NEW po,
           Works(m, k, po), NEW leg \in Held(po),
           NEW s \in Emitted("finalize_prepared_transfer")
    PROVE  s.transfer # HeldTransfer(k, po, leg)
<1> SUFFICES ASSUME s.transfer = HeldTransfer(k, po, leg)
             PROVE  FALSE
  OBVIOUS
<1>1. PICK t \in transfers :
        t.transfer = HeldTransfer(k, po, leg) /\ t.request = RequestNumber(po, leg)
  BY WorksPrepared DEF HoldsPrepared
<1>2. Fits(s, t)
  BY <1>1 DEF FinalizationsFit, RequestInvariant, TransfersAreUnique
<1>3. leg \in Leg /\ po.transfer[leg] # None /\ po.request \in Nat \ {0}
  BY DEF Held, Works, PaymentOrder
<1>4. Records(m, k, po)
  BY <1>3 DEF Works, Places
<1>5. k \in Found(t.request) /\ LegOf(t.request) = leg
  BY <1>1, <1>3, <1>4, RequestNumberFields DEF Records, Found
<1>6. t.transfer.id = po.transfer[leg]
  BY <1>1 DEF HeldTransfer
<1>7. ~Accepts(k, leg) /\ (orders[k].transfer[leg] = po.transfer[leg] => orders[k].finalized)
  BY <1>2, <1>5, <1>6 DEF Fits
<1> QED
  BY <1>3, <1>4, <1>7 DEF Records, Accepts


\* The transfer that the order holds for a leg that is paid.
LEMMA ExecutingHeld ==
    ASSUME TypeOK, RequestInvariant, RequestInvariant', NEW m \in queue,
           NEW k \in OrderKey, NEW po \in PaymentOrder, Executing(m, k, po),
           NEW leg \in Held(po)
    PROVE  \E t \in transfers :
             /\ t.transfer = HeldTransfer(k, po, leg)
             /\ t.request = RequestNumber(po, leg)
             /\ t.recipient = Recipient(k, leg)
             /\ \A u \in transfers : u.transfer = t.transfer => u = t
<1>1. /\ Works(m, k, po)
      /\ Ends(k, po)
      /\ transfers' = transfers
  BY DEF Executing, Acts
<1>2. PICK t \in transfers :
        t.transfer = HeldTransfer(k, po, leg) /\ t.request = RequestNumber(po, leg)
  BY <1>1, WorksPrepared DEF HoldsPrepared
<1>3. Abs(t.request) = po.request /\ LegOf(t.request) = leg
  BY <1>2, RequestNumberFields DEF Held, PaymentOrder
<1>4. k \in Found(t.request)'
  BY <1>1, <1>3 DEF Ends, Holds, Found, Placed
<1>5. Matches(k, t)'
  BY <1>1, <1>4 DEF RequestInvariant, TransfersFit
<1>6. t.recipient = Recipient(k, leg)
  BY <1>3, <1>5 DEF Matches
<1> QED
  BY <1>2, <1>6 DEF RequestInvariant, TransfersAreUnique

\* The legs of the order that move something of this kind.
PaidLegs(move, k, po) ==
    {leg \in Leg : po.terms[leg].amount > 0 /\ move = LegMove(k, po.terms, leg)}

\* What a successful payment makes due.
LEMMA ExecutingDue ==
    ASSUME NEW m \in queue, NEW k \in OrderKey, NEW po \in PaymentOrder,
           Executing(m, k, po), NEW move
    PROVE  DueMoves(move)' =
             DueMoves(move) \cup {<<SuccessRow(k, po), leg>> : leg \in PaidLegs(move, k, po)}
<1>1. emitted' = emitted \cup (CommitRows(k, po) \cup AbortAllRows(Losers(k))
                                 \cup {SuccessRow(k, po)})
  BY DEF Executing, Acts
<1>2. \A s \in CommitRows(k, po) \cup AbortAllRows(Losers(k)) : s.type # "successful_payment"
  BY CommitRowTypes, AbortAllRowTypes, FailedPaymentFields
<1>3. Emitted("successful_payment")' = Emitted("successful_payment") \cup {SuccessRow(k, po)}
  BY <1>1, <1>2, SuccessRowFields DEF Emitted
<1>4. ASSUME NEW due
      PROVE  due \in DueMoves(move)' <=>
               \/ due \in DueMoves(move)
               \/ due \in {<<SuccessRow(k, po), leg>> : leg \in PaidLegs(move, k, po)}
  <2>1. due \in {<<SuccessRow(k, po), leg>> : leg \in PaidLegs(move, k, po)} <=>
          /\ due \in {SuccessRow(k, po)} \X Leg
          /\ due[1].terms[due[2]].amount > 0
          /\ move = LegMove(due[1].order, due[1].terms, due[2])
    BY SuccessRowFields DEF PaidLegs
  <2>2. due \in Emitted("successful_payment")' \X Leg <=>
          \/ due \in Emitted("successful_payment") \X Leg
          \/ due \in {SuccessRow(k, po)} \X Leg
    BY <1>3
  <2> QED
    BY <2>1, <2>2, DueMembers
<1> QED
  BY <1>4

\* What a successful payment commits.
LEMMA ExecutingCommitted ==
    ASSUME TypeOK, RequestInvariant, RequestInvariant', FinalizationsFit, NEW m \in queue,
           NEW k \in OrderKey, NEW po \in PaymentOrder, Executing(m, k, po), NEW move
    PROVE  CommittedMoves(move)' =
             CommittedMoves(move) \cup
               {Finalization(HeldTransfer(k, po, leg), po.terms[leg].amount)
                  : leg \in PaidLegs(move, k, po)}
<1> DEFINE row(leg) == Finalization(HeldTransfer(k, po, leg), po.terms[leg].amount)
<1>1. /\ emitted' = emitted \cup (CommitRows(k, po) \cup AbortAllRows(Losers(k))
                                    \cup {SuccessRow(k, po)})
      /\ emitted \subseteq emitted'
      /\ transfers' = transfers
      /\ \A leg \in Leg : ~ShouldPrepare(po, leg)
  BY DEF Executing, Acts
<1>2. ASSUME NEW leg \in Held(po)
      PROVE  row(leg) \in CommittedMoves(move)' <=> leg \in PaidLegs(move, k, po)
  <2>1. PICK t \in transfers :
          /\ t.transfer = HeldTransfer(k, po, leg)
          /\ t.recipient = Recipient(k, leg)
          /\ \A u \in transfers : u.transfer = t.transfer => u = t
    BY ExecutingHeld
  <2>2. row(leg) \in Emitted("finalize_prepared_transfer")'
    BY <1>1, FinalizationFields DEF CommitRows, Emitted
  <2>3. LegMove(k, po.terms, leg) = Move(t.transfer.debtor, t.transfer.sender, t.recipient,
                                         po.terms[leg].amount)
    BY <2>1 DEF LegMove, HeldTransfer
  <2>4. /\ row(leg).transfer = t.transfer
        /\ row(leg).committed = po.terms[leg].amount
    BY <2>1, FinalizationFields
  <2> HIDE DEF row
  <2>5. row(leg) \in CommittedMoves(move)' <=>
          po.terms[leg].amount > 0 /\ move = LegMove(k, po.terms, leg)
    BY <1>1, <2>1, <2>2, <2>3, <2>4 DEF CommittedMoves
  <2> QED
    BY <2>5 DEF PaidLegs, Held
<1>3. \A leg \in PaidLegs(move, k, po) : leg \in Held(po)
  BY <1>1 DEF PaidLegs, ShouldPrepare, Held
<1>4. ASSUME NEW s \in CommittedMoves(move)', s \notin emitted
      PROVE  \E leg \in PaidLegs(move, k, po) : s = row(leg)
  <2>1. s \in emitted' /\ s.type = "finalize_prepared_transfer" /\ s.committed > 0
    BY DEF CommittedMoves, Emitted
  <2>2. s # SuccessRow(k, po)
    BY <2>1, SuccessRowFields
  <2>3. s \notin AbortAllRows(Losers(k))
    BY <2>1, FinalizationFields, FailedPaymentFields DEF AbortAllRows, AbortRows
  <2>4. PICK leg \in Held(po) : s = row(leg)
    BY <1>1, <1>4, <2>1, <2>2, <2>3 DEF CommitRows
  <2> QED
    BY <1>2, <1>4, <2>4
<1>5. ASSUME NEW s
      PROVE  s \in CommittedMoves(move)' <=>
               \/ s \in CommittedMoves(move)
               \/ \E leg \in PaidLegs(move, k, po) : s = row(leg)
  <2>1. CASE s \in Emitted("finalize_prepared_transfer")
    <3>1. s \in CommittedMoves(move)' <=> s \in CommittedMoves(move)
      BY <1>1, <2>1, CommittedMembers DEF RequestInvariant
    <3> QED
      BY <1>2, <1>3, <3>1
  <2>2. CASE s \notin Emitted("finalize_prepared_transfer")
    <3>1. s \notin CommittedMoves(move)
      BY <2>2 DEF CommittedMoves
    <3>2. s \in CommittedMoves(move)' => s \notin emitted
      BY <2>2 DEF CommittedMoves, Emitted
    <3> QED
      BY <1>2, <1>3, <1>4, <3>1, <3>2
  <2> QED
    BY <2>1, <2>2
<1> QED
  BY <1>5

\* A step that pays an order: one movement is due, and one transfer is
\* committed, for each leg.
LEMMA ExecutingBalance ==
    ASSUME TypeOK, RequestInvariant, RequestInvariant', OutcomeInvariant, FinalizationsFit,
           NEW m \in queue, NEW k \in OrderKey, NEW po \in PaymentOrder,
           Executing(m, k, po), NEW move, Balanced(move)
    PROVE  Balanced(move)'
<1> DEFINE legs == PaidLegs(move, k, po)
           c == [leg \in Leg |-> Finalization(HeldTransfer(k, po, leg), po.terms[leg].amount)]
           d == [leg \in Leg |-> <<SuccessRow(k, po), leg>>]
<1>1. Works(m, k, po) /\ \A leg \in Leg : ~ShouldPrepare(po, leg)
  BY DEF Executing
<1>2. legs \in SUBSET Leg
  BY DEF PaidLegs
<1>3. ASSUME NEW leg \in legs
      PROVE  /\ leg \in Held(po)
             /\ c[leg] \notin CommittedMoves(move)
             /\ d[leg] \notin DueMoves(move)
  <2>1. leg \in Leg /\ leg \in Held(po)
    BY <1>1 DEF PaidLegs, ShouldPrepare, Held
  <2>2. c[leg].transfer = HeldTransfer(k, po, leg)
    BY <2>1, FinalizationFields
  <2>3. c[leg] \notin CommittedMoves(move)
    BY <1>1, <2>1, <2>2, WorksFresh DEF CommittedMoves
  <2>4. SuccessRow(k, po) \notin Emitted("successful_payment")
    BY <1>1, WorksUndecided, SuccessRowFields DEF Succeeded, Emitted
  <2>5. d[leg] \notin DueMoves(move)
    BY <2>1, <2>4 DEF DueMoves
  <2> QED
    BY <2>1, <2>3, <2>5
<1>4. ASSUME NEW i \in legs, NEW j \in legs, i # j
      PROVE  c[i] # c[j] /\ d[i] # d[j]
  <2>1. i \in Leg /\ j \in Leg /\ i \in Held(po) /\ j \in Held(po)
    BY <1>3 DEF PaidLegs
  <2>2. c[i].transfer = HeldTransfer(k, po, i) /\ c[j].transfer = HeldTransfer(k, po, j)
    BY <2>1, FinalizationFields
  <2>3. PICK t \in transfers :
          t.transfer = HeldTransfer(k, po, i) /\ t.request = RequestNumber(po, i)
    BY <2>1, ExecutingHeld
  <2>4. PICK u \in transfers :
          u.transfer = HeldTransfer(k, po, j) /\ u.request = RequestNumber(po, j)
    BY <2>1, ExecutingHeld
  <2>5. RequestNumber(po, i) # RequestNumber(po, j)
    BY <1>4, <2>1, RequestNumberFields DEF PaymentOrder
  <2>6. HeldTransfer(k, po, i) # HeldTransfer(k, po, j)
    BY <2>3, <2>4, <2>5 DEF RequestInvariant, TransfersAreUnique
  <2> QED
    BY <1>4, <2>1, <2>2, <2>6
<1> DEFINE C2 == CommittedMoves(move)'
           D2 == DueMoves(move)'
<1>5. C2 = CommittedMoves(move) \cup {c[leg] : leg \in legs}
  <2>1. CommittedMoves(move)' =
          CommittedMoves(move) \cup
            {Finalization(HeldTransfer(k, po, leg), po.terms[leg].amount)
               : leg \in PaidLegs(move, k, po)}
    BY ExecutingCommitted
  <2>2. {Finalization(HeldTransfer(k, po, leg), po.terms[leg].amount)
           : leg \in PaidLegs(move, k, po)} = {c[leg] : leg \in legs}
    BY <1>2
  <2> QED
    BY <2>1, <2>2
<1>6. D2 = DueMoves(move) \cup {d[leg] : leg \in legs}
  <2>1. DueMoves(move)' =
          DueMoves(move) \cup {<<SuccessRow(k, po), leg>> : leg \in PaidLegs(move, k, po)}
    BY ExecutingDue
  <2>2. {<<SuccessRow(k, po), leg>> : leg \in PaidLegs(move, k, po)} = {d[leg] : leg \in legs}
    BY <1>2
  <2> QED
    BY <2>1, <2>2
<1> HIDE DEF legs, c, d, C2, D2
<1>7. \A leg \in legs : c[leg] \notin CommittedMoves(move) /\ d[leg] \notin DueMoves(move)
  BY <1>3
<1>8. \A i, j \in legs : i # j => c[i] # c[j] /\ d[i] # d[j]
  BY <1>4
<1>9. SameSize(CommittedMoves(move), DueMoves(move))
  BY DEF Balanced
<1>10. AddsLegs(CommittedMoves(move), DueMoves(move), C2, D2, legs, c, d)
  BY <1>2, <1>5, <1>6, <1>7, <1>8 DEF AddsLegs
<1>11. SameSize(C2, D2)
  BY <1>9, <1>10, AddLegs
<1> QED
  BY <1>11 DEF Balanced, C2, D2

\* What a step other than a payment finalizes, it dismisses.
LEMMA OnlyPaymentsCommit ==
    ASSUME TypeOK, OutcomeInvariant, OutcomeInvariant', Step,
           Emitted("successful_payment")' = Emitted("successful_payment"),
           NEW s \in Emitted("finalize_prepared_transfer")',
           s \notin Emitted("finalize_prepared_transfer")
    PROVE  s.committed = 0
<1>1. PICK m \in queue : ActorStep(m)
  BY StepFinalizations
<1>2. ASSUME NEW l \in OrderKey, NEW p \in PaymentOrder, NEW leg \in Held(p),
             Releases(m, l, p, leg, s)
      PROVE  s.committed = 0
  <2>1. ~Succeeded(l)
    BY <1>2, UnfinalizedUndecided, WorksUndecided DEF Releases
  <2>2. ~Succeeded(l)'
    BY <2>1 DEF Succeeded
  <2> QED
    BY <1>2, <2>2 DEF Releases
<1> QED
  BY <1>1, <1>2, ActorFinalizations

LEMMA InitMoney == Init => MoneyInvariant
<1> SUFFICES ASSUME Init, NEW move
             PROVE  Balanced(move)
  BY DEF MoneyInvariant
<1>1. CommittedMoves(move) = {} /\ DueMoves(move) = {}
  BY DEF Init, SignalbusInit, CommittedMoves, DueMoves, Emitted
<1> QED
  BY <1>1, FS_EmptySet DEF Balanced, SameSize

LEMMA NextMoney ==
    ASSUME TypeOK, RequestInvariant, RequestInvariant', OutcomeInvariant, OutcomeInvariant',
           FinalizationInvariant, [Next]_vars, MoneyInvariant
    PROVE  MoneyInvariant'
<1>0. Step /\ emitted \subseteq emitted' /\ transfers \subseteq transfers'
  BY NextSteps, StepGrows
<1>1. FinalizationsFit /\ TransfersAreUnique'
  BY DEF FinalizationInvariant, RequestInvariant
<1>2. ASSUME NEW move, Balanced(move)
      PROVE  Balanced(move)'
  <2>1. CASE \E m \in queue, k \in OrderKey, po \in PaymentOrder : Executing(m, k, po)
    BY <1>1, <1>2, <2>1, ExecutingBalance
  <2>2. CASE ~\E m \in queue, k \in OrderKey, po \in PaymentOrder : Executing(m, k, po)
    <3>1. Emitted("successful_payment")' \subseteq Emitted("successful_payment")
      BY <1>0, <2>2, StepSuccesses
    <3>2. Emitted("successful_payment") \subseteq Emitted("successful_payment")'
      BY <1>0 DEF Emitted
    <3>3. Emitted("successful_payment")' = Emitted("successful_payment")
      BY <3>1, <3>2
    <3>4. \A s \in Emitted("finalize_prepared_transfer")' :
            s \in Emitted("finalize_prepared_transfer") \/ s.committed = 0
      BY <1>0, <3>3, OnlyPaymentsCommit
    <3> QED
      BY <1>0, <1>1, <1>2, <3>3, <3>4, QuietBalance
  <2> QED
    BY <2>1, <2>2
<1> QED
  BY <1>2 DEF MoneyInvariant, Move

LEMMA MoneyInvariantHolds == Spec => []MoneyInvariant
<1>1. TypeOK /\ RequestInvariant /\ RequestInvariant' /\ OutcomeInvariant
        /\ OutcomeInvariant' /\ FinalizationInvariant /\ MoneyInvariant /\ [Next]_vars
          => MoneyInvariant'
  BY NextMoney
<1> QED
  BY <1>1, InitMoney, TypeCorrect, RequestInvariantHolds, OutcomeInvariantHolds,
     FinalizationInvariantHolds, PTL DEF Spec

\* Money moves exactly as the successful payments say: both legs of a swap or
\* none, one transfer for each leg, and nothing for an order that failed,
\* whichever transfers were prepared twice or too late.
THEOREM MoneyMatches == Spec => []MoneyMatchesPayments
<1>1. MoneyInvariant => MoneyMatchesPayments
  BY DEF MoneyInvariant, Balanced, SameSize, MoneyMatchesPayments
<1> QED
  BY <1>1, MoneyInvariantHolds, PTL

=============================================================================
