--------------------------- MODULE PaymentSystem ----------------------------
(***************************************************************************)
(* The payments service at work: its transactions, its outbox, the message *)
(* broker, the accounts service, the payee and the payers that send it     *)
(* requests, and the clock that lets offers expire and rows grow old.      *)
(***************************************************************************)
EXTENDS Payments, Accounts

CONSTANTS
    Announced,        \* the terms of the offers that the payee announces
    ClientRequest     \* the orders and cancellations that clients may send

VARIABLE
    issued            \* the client requests that have been sent

vars == <<tables, outbox, emitted, queue, repeats, transfers, settled, issued>>

\* Messages to the actors make_payment_order and cancel_formal_offer.
OrderRequest ==
    [type    : {"make_payment_order"},
     order   : OrderKey,
     secret  : BOOLEAN,
     payment : [debtor : Debtor \cup {None}, amount : Amount]]

CancelRequest ==
    [type : {"cancel_formal_offer"}, offer : OfferId, secret : BOOLEAN]

ASSUME EnvironmentAssumption ==
    /\ Announced \subseteq OfferTerms
    /\ ClientRequest \subseteq OrderRequest \cup CancelRequest

Message ==
    OrderRequest \cup CancelRequest \cup PrepareTransferSignal
      \cup FinalizePreparedTransferSignal \cup PreparedTransferSignal
      \cup RejectedTransferSignal

IsOrderRequest(m) == m.type = "make_payment_order"

OfferOf(m) == IF IsOrderRequest(m) THEN m.order.offer ELSE m.offer

----------------------------------------------------------------------------
Init ==
    /\ SignalbusInit
    /\ PaymentsInit
    /\ AccountsInit
    /\ issued = {}

external == <<transfers, settled, issued>>

\* The create_formal_offer actor: a repeated message creates one more offer.
Create ==
    /\ \E terms \in Announced : CreateFormalOffer(terms)
    /\ UNCHANGED <<queue, repeats, external>>

\* A client sends a request about an offer whose number it has learnt.  A
\* payer never uses a payment order number twice.
Issue(m) ==
    /\ m \in ClientRequest \ issued
    /\ OfferOf(m) <= lastOffer
    /\ IsOrderRequest(m) =>
         \A n \in issued : IsOrderRequest(n) => n.order # m.order
    /\ issued' = issued \cup {m}
    /\ queue' = queue \cup {m}
    /\ EmitNothing
    /\ UNCHANGED <<tables, repeats, transfers, settled>>

\* The actors: each one handles a message in one transaction.
HandleOrder(m, acknowledged) ==
    /\ m.type = "make_payment_order"
    /\ Consume(m, {}, acknowledged)
    /\ MakePaymentOrder(m)
    /\ UNCHANGED external

HandleCancel(m, acknowledged) ==
    /\ m.type = "cancel_formal_offer"
    /\ Consume(m, {}, acknowledged)
    /\ CancelFormalOffer(m)
    /\ UNCHANGED external

HandlePrepared(m, acknowledged) ==
    /\ m.type = "prepared_transfer"
    /\ Consume(m, {}, acknowledged)
    /\ ProcessPreparedTransfer(m)
    /\ UNCHANGED external

HandleRejected(m, acknowledged) ==
    /\ m.type = "rejected_transfer"
    /\ Consume(m, {}, acknowledged)
    /\ ProcessRejectedTransfer(m)
    /\ UNCHANGED external

\* The accounts service handles what the outbox has published.
AccountsPrepare(m, acknowledged) ==
    /\ m.type = "prepare_transfer"
    /\ \/ PrepareTransfer(m, acknowledged)
       \/ RejectTransfer(m, acknowledged)
    /\ EmitNothing
    /\ UNCHANGED <<tables, issued>>

AccountsFinalize(m, acknowledged) ==
    /\ m.type = "finalize_prepared_transfer"
    /\ FinalizePreparedTransfer(m, acknowledged)
    /\ EmitNothing
    /\ UNCHANGED <<tables, issued>>

Handle(m, acknowledged) ==
    \/ HandleOrder(m, acknowledged)
    \/ HandleCancel(m, acknowledged)
    \/ HandlePrepared(m, acknowledged)
    \/ HandleRejected(m, acknowledged)
    \/ AccountsPrepare(m, acknowledged)
    \/ AccountsFinalize(m, acknowledged)

Flush(type, deleted) ==
    /\ FlushSignals(type, deleted)
    /\ UNCHANGED <<tables, external>>

\* The deadline of an offer passes.
Expire(f) ==
    /\ offers[f] # None
    /\ ~offers[f].expired
    /\ offers' = [offers EXCEPT ![f].expired = TRUE]
    /\ EmitNothing
    /\ UNCHANGED <<orders, proofs, lastOffer, lastRequest, queue, repeats, external>>

\* A message that would look for the row of order k is still on its way.
Concerns(m, k) ==
    \/ m.type = "make_payment_order" /\ m.order = k
    \/ /\ m.type \in {"prepare_transfer", "prepared_transfer", "rejected_transfer"}
       /\ Abs(m.request) = orders[k].request

\* "finalized payment orders ... should stay in the database for at least few
\* days": the cutoff is so far in the past that nothing about the rows it
\* selects is delivered any more.
Outdated(k) ==
    /\ Placed(k)
    /\ orders[k].finalized
    /\ \A m \in queue \cup outbox : ~Concerns(m, k)

PurgeOrders(old) ==
    /\ old # {}
    /\ \A k \in old : Outdated(k)
    /\ FlushPaymentOrders(old)
    /\ UNCHANGED <<queue, repeats, external>>

PurgeProofs(old) ==
    /\ old # {}
    /\ FlushPaymentProofs(old)
    /\ UNCHANGED <<queue, repeats, external>>

Next ==
    \/ Create
    \/ \E m \in ClientRequest : Issue(m)
    \/ \E m \in queue, acknowledged \in BOOLEAN : Handle(m, acknowledged)
    \/ \E type \in RequestType \cup EventType, deleted \in BOOLEAN : Flush(type, deleted)
    \/ \E f \in OfferId : Expire(f)
    \/ \E old \in SUBSET OrderKey : PurgeOrders(old)
    \/ \E old \in SUBSET proofs : PurgeProofs(old)

Spec == Init /\ [][Next]_vars

----------------------------------------------------------------------------
TypeOK ==
    /\ offers \in [OfferId -> FormalOffer \cup {None}]
    /\ orders \in [OrderKey -> PaymentOrder \cup {None}]
    /\ proofs \subseteq PaymentProof
    /\ lastOffer \in 0..MaxOffers
    /\ lastRequest \in Nat
    /\ outbox \subseteq emitted
    /\ emitted \subseteq Signal
    /\ queue \subseteq Message
    /\ repeats \in 0..MaxRepeats
    /\ transfers \subseteq PreparedTransfer
    /\ settled \subseteq Settlement
    /\ issued \subseteq ClientRequest

----------------------------------------------------------------------------
(* Safety.                                                                 *)

Emitted(type) == {s \in emitted : s.type = type}

\* _execute_payment_order relies on "the trick": an order that is not final
\* has an offer, whatever cancellations and payments by others come between
\* the messages that drive it; otherwise .one() would raise for ever.
UnfinalizedHasOffer ==
    \A k \in OrderKey : IsUnfinalized(k) => offers[k.offer] # None

SettlementsOf(f) ==
    {s \in Emitted("canceled_formal_offer") : s.offer = f}
      \cup {s \in Emitted("successful_payment") : s.order.offer = f}

\* An offer is paid by one order or canceled, never both and never twice, and
\* it is gone as soon as the payee is told so (cancel_formal_offer,
\* _execute_payment_order).
OfferSettledOnce ==
    \A f \in OfferId :
      /\ \A s, t \in SettlementsOf(f) : s = t
      /\ SettlementsOf(f) # {} => offers[f] = None

\* A payer is never told that the same order has succeeded and failed, and an
\* order that a payer was told about is never pending again, though messages
\* are handled twice and late (make_payment_order, process_*_signal).
OneOutcomePerOrder ==
    \A s \in Emitted("successful_payment") \cup Emitted("failed_payment") :
      /\ ~IsUnfinalized(s.order)
      /\ \A t \in Emitted("successful_payment") :
           t.order = s.order => t = s

\* The service never asks to commit a transfer that it dismisses elsewhere,
\* so the order in which the accounts service handles the finalizations does
\* not matter.
CommitXorDismiss ==
    \A s, t \in Emitted("finalize_prepared_transfer") :
      s.transfer = t.transfer => s.committed = t.committed

\* What the successful payments say should have moved, and what was
\* committed, as who pays whom how much through which debtor.
Move(debtor, sender, recipient, amount) ==
    [debtor |-> debtor, sender |-> sender, recipient |-> recipient, amount |-> amount]

DueMoves(move) ==
    {due \in Emitted("successful_payment") \X Leg :
       LET s   == due[1]
           leg == due[2]
           sum == s.terms[leg]
       IN  /\ sum.amount > 0
           /\ \/ /\ leg = "payment"
                 /\ move = Move(sum.debtor, s.order.payer, Payee, sum.amount)
              \/ /\ leg = "reciprocal"
                 /\ move = Move(sum.debtor, Payee, s.order.payer, sum.amount)}

CommittedMoves(move) ==
    {s \in Emitted("finalize_prepared_transfer") :
       /\ s.committed > 0
       /\ \E t \in transfers :
            /\ t.transfer = s.transfer
            /\ move = Move(t.transfer.debtor, t.transfer.sender,
                           t.recipient, s.committed)}

\* Money moves exactly as the successful payments say: both legs of a swap or
\* none, one transfer for each leg, and nothing for an order that failed,
\* whichever transfers were prepared twice or too late.
MoneyMatchesPayments ==
    \A debtor \in Debtor, sender, recipient \in Creditor, amount \in Amount \ {0} :
      LET move == Move(debtor, sender, recipient, amount)
      IN  Cardinality(CommittedMoves(move)) = Cardinality(DueMoves(move))

\* A prepared transfer is found to be what the order asked for, and at most
\* one order is found: neither the assertions of
\* process_prepared_payment_transfer_signal nor one_or_none() ever raise, not
\* for a message that arrives late or again.
AssertionsHold ==
    \A m \in queue :
      m.type \in {"prepared_transfer", "rejected_transfer"} =>
        /\ \A k, l \in Found(m.request) : k = l
        /\ m.type = "prepared_transfer" => \A k \in Found(m.request) : Matches(k, m)

\* The reciprocal transfer is asked for only when the primary one is held,
\* and an order that can still be aborted never holds it ("Normally, this
\* should never happen", _abort_payment_order).
ReciprocalComesLast ==
    \A k \in OrderKey : IsUnfinalized(k) =>
      /\ orders[k].transfer["reciprocal"] = None
      /\ (\E s \in Emitted("prepare_transfer") : s.request = -orders[k].request)
           => ~ShouldPrepare(orders[k], "payment")

HasOutcome(k) ==
    \E s \in Emitted("successful_payment") \cup Emitted("failed_payment") : s.order = k

\* When nothing is left to deliver, nothing is left open: every order has had
\* its outcome, and no prepared transfer keeps the money of anybody locked.
QuiescentIsSettled ==
    queue = {} /\ outbox = {} =>
      /\ \A k \in OrderKey : ~IsUnfinalized(k)
      /\ \A m \in issued : IsOrderRequest(m) => HasOutcome(m.order)
      /\ \A t \in transfers : IsSettled(t.transfer)

----------------------------------------------------------------------------
(* What no step may do.                                                    *)

\* A final order never changes, until its row is deleted; and a transfer that
\* an order has recorded is never replaced by another one.
RecordedIsKept ==
    [][\A k \in OrderKey : Placed(k) =>
         \/ orders'[k] = None /\ orders[k].finalized
         \/ orders[k].finalized /\ orders'[k] = orders[k]
         \/ /\ ~orders[k].finalized
            /\ \A leg \in Held(orders[k]) :
                 orders'[k].transfer[leg] = orders[k].transfer[leg]]_vars

\* An order succeeds only as its payer has ordered it, knowing the secret of
\* the offer, and on the terms of this very offer, which are still the ones
\* that the payee has announced (make_payment_order, _execute_payment_order).
PaidAsAgreed ==
    [][\A s \in emitted' \ emitted : s.type = "successful_payment" =>
         LET offer == offers[s.order.offer]
         IN  /\ \E m \in issued :
                  /\ IsOrderRequest(m)
                  /\ m.order = s.order
                  /\ m.secret
                  /\ m.payment = s.terms["payment"]
             /\ \E terms \in Announced :
                  /\ offer.options = terms.options
                  /\ offer.reciprocal = terms.reciprocal
             /\ s.terms["payment"] \in offer.options
             /\ s.terms["reciprocal"] = offer.reciprocal]_vars

HasExpired(f) == offers[f] # None /\ offers[f].expired

\* The deadline of an offer cuts off the orders that come after it, and only
\* those: an order that is not pending by then never waits for a transfer and
\* never succeeds, whatever is delivered later, and an order that has been
\* recorded in time does not fail because of the deadline (_make_payment_order).
OnlyLateOrdersExpire ==
    [][\A k \in OrderKey :
         /\ HasExpired(k.offer) /\ ~IsUnfinalized(k) =>
              /\ ~IsUnfinalized(k)'
              /\ \A s \in emitted' \ emitted :
                   s.type = "successful_payment" => s.order # k
         /\ FailedPayment(k, "PAY006") \in emitted' \ emitted =>
              HasExpired(k.offer) /\ ~Placed(k)]_vars

----------------------------------------------------------------------------
(* Progress.                                                               *)

\* Pending rows are published and deleted (the flush after each commit, and
\* "flask signalbus flush" once a minute), and a message that can be handled
\* again and again is acknowledged in the end, whatever its actor is.
Fairness ==
    /\ \A type \in RequestType \cup EventType : WF_vars(Flush(type, TRUE))
    /\ WF_vars(\E m \in queue : HandleOrder(m, TRUE))
    /\ WF_vars(\E m \in queue : HandleCancel(m, TRUE))
    /\ WF_vars(\E m \in queue : HandlePrepared(m, TRUE))
    /\ WF_vars(\E m \in queue : HandleRejected(m, TRUE))
    /\ WF_vars(\E m \in queue : AccountsPrepare(m, TRUE))
    /\ WF_vars(\E m \in queue : AccountsFinalize(m, TRUE))

FairSpec == Spec /\ Fairness

\* Every order that is sent has an outcome in the end (the docstring of the
\* make_payment_order actor).
OrdersGetOutcome ==
    \A m \in ClientRequest :
      (m \in issued /\ IsOrderRequest(m)) ~> (IsOrderRequest(m) /\ HasOutcome(m.order))

\* Every transfer that was prepared is committed or dismissed in the end.
TransfersGetSettled ==
    \A key \in TransferKey : IsPrepared(key) ~> IsSettled(key)
=============================================================================
