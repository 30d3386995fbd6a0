------------------------- MODULE PaymentTransactions -------------------------
(***************************************************************************)
(* The transactions of the message handlers (procedures.py), statement by  *)
(* statement: several workers run them at the same time, each takes the    *)
(* locks that the queries ask for (FOR SHARE, FOR UPDATE), and what it     *)
(* writes is seen by the others when it commits.                           *)
(*                                                                         *)
(* The isolation level is a parameter: the code sets none.  At "read       *)
(* committed", the default of PostgreSQL, each statement sees what is      *)
(* committed when it starts, and a row it has waited for as it is now.  At *)
(* "repeatable read", all statements see what was committed before the     *)
(* first one, and locking a row that has been written since is an error.   *)
(*                                                                         *)
(* An order's number is drawn from its sequence at the commit here, for    *)
(* nobody sees it before.  The purges, of rows that no message is about,   *)
(* are in PaymentSystem only.                                              *)
(***************************************************************************)
EXTENDS PaymentSystem

CONSTANTS
    Worker,       \* the threads of the dramatiq workers
    Isolation     \* the isolation level of the database

ASSUME IsolationAssumption == Isolation \in {"read committed", "repeatable read"}

\* What each worker is at: the message "m", the next "step", the "outcome"
\* that is decided so far, the offers it has locked in either mode, the "rows"
\* of payment orders it has locked or inserted, those it is about to lock
\* ("todo"), and the snapshot of its transaction ("view").
VARIABLE tx

transactionVars == <<vars, tx>>

TransactionsInit ==
    /\ Init
    /\ tx = [w \in Worker |-> None]

\* Mistake: every statement sees the snapshot of the first one.
AlwaysFixed == TRUE

SnapshotIsFixed == Isolation = "repeatable read"

Snapshot == [offers |-> offers, orders |-> orders]

\* What the query that worker w is about to make can see.
Seen(w) == IF SnapshotIsFixed THEN tx[w].view ELSE Snapshot

Busy(w) == tx[w] # None

Others(w) == {v \in Worker \ {w} : Busy(v)}

\* Another worker has the message of w too.
IsShared(w) == \E v \in Others(w) : tx[v].m = tx[w].m

\* The bound on repeats, which those deliveries count against that will find
\* the message handled by another worker.
RepeatsSuffice ==
    LET busy == {w \in Worker : Busy(w)}
    IN  repeats + Cardinality(busy) - Cardinality({tx[w].m : w \in busy}) <= MaxRepeats

At(w, step) == Busy(w) /\ tx[w].step = step

\* The payment order that the transaction of w is about, and its offer.
OwnOrder(w) ==
    IF IsOrderRequest(tx[w].m) THEN tx[w].m.order
                               ELSE CHOOSE k \in Found(tx[w].m.request) : TRUE

OwnOffer(w) ==
    IF tx[w].m.type \in {"make_payment_order", "cancel_formal_offer"}
    THEN OfferOf(tx[w].m) ELSE OwnOrder(w).offer

----------------------------------------------------------------------------
(* What the transaction of worker w writes.                                *)

\* The order of w as the transaction has made or changed it.
Written(w) ==
    LET m == tx[w].m
    IN  IF IsOrderRequest(m)
        THEN NewOrder(NextRequest, m.payment, offers[m.order.offer].reciprocal)
        ELSE [orders[OwnOrder(w)] EXCEPT !.transfer[LegOf(m.request)] = m.transfer.id]

\* The orders that fail with it.
Losers(w) ==
    IF tx[w].outcome = "cancel" THEN tx[w].rows ELSE tx[w].rows \ {OwnOrder(w)}

\* The reasons to turn an order down without recording it.
Refusal == {"PAY001", "PAY002", "PAY003"}

\* The signal rows that it inserts.
SignalRows(w) ==
    LET k == OwnOrder(w)
    IN  CASE tx[w].outcome = "ignore"  -> {}
          [] tx[w].outcome = "dismiss" -> {Finalization(tx[w].m.transfer, 0)}
          [] tx[w].outcome = "reject"  -> RejectionRows(k, tx[w].m.request)
          [] tx[w].outcome = "cancel"  ->
               AbortAllRows(Losers(w))
                 \cup {[type |-> "canceled_formal_offer", offer |-> OwnOffer(w)]}
          [] tx[w].outcome = "await"   ->
               {PrepareTransferRow(k, Written(w), leg) :
                  leg \in {x \in Leg : /\ ShouldPrepare(Written(w), x)
                                       /\ InTurn(Written(w), x)}}
          [] tx[w].outcome = "execute" ->
               CommitRows(k, Written(w)) \cup AbortAllRows(Losers(w))
                 \cup {SuccessRow(k, Written(w))}
          [] tx[w].outcome \in Refusal -> {FailedPayment(k, tx[w].outcome)}
          [] tx[w].outcome = "PAY006"  -> AbortRows(k, Written(w), "PAY006")

\* The orders that it leaves.
OrderRows(w) ==
    LET k == OwnOrder(w)
    IN  CASE tx[w].outcome = "reject"  -> FinalizeAll({k})
          [] tx[w].outcome = "cancel"  -> FinalizeAll(Losers(w))
          [] tx[w].outcome = "await"   -> [orders EXCEPT ![k] = Written(w)]
          [] tx[w].outcome = "PAY006"  -> [orders EXCEPT ![k] = Finalized(Written(w))]
          [] tx[w].outcome = "execute" ->
               [FinalizeAll(Losers(w)) EXCEPT ![k] = Finalized(Written(w))]
          [] OTHER -> orders

Write(w) ==
    /\ Emit(SignalRows(w))
    /\ orders' = OrderRows(w)
    /\ offers' = IF tx[w].outcome \in {"cancel", "execute"}
                 THEN WithoutOffer(OwnOffer(w)) ELSE offers
    /\ proofs' = IF tx[w].outcome = "execute"
                 THEN proofs \cup {[order |-> OwnOrder(w), terms |-> Written(w).terms]}
                 ELSE proofs
    /\ lastRequest' =
         IF tx[w].outcome \in {"PAY006", "await", "execute"} /\ IsOrderRequest(tx[w].m)
         THEN NextRequest ELSE lastRequest
    /\ UNCHANGED lastOffer

----------------------------------------------------------------------------
(* Locks, and the statements that they make wait or fail.                  *)

\* The next query of w locks the row of an offer, if it finds one.
LocksOffer(w) == (At(w, "find offer") /\ tx[w].m.secret) \/ At(w, "take offer")

\* Only make_payment_order asks for a shared lock.
LockMode(w) ==
    IF At(w, "find offer") /\ IsOrderRequest(tx[w].m) THEN "shared" ELSE "exclusive"

Conflicts(v, f, mode) ==
    \/ f \in tx[v].exclusive
    \/ mode = "exclusive" /\ f \in tx[v].shared

\* Mistake: the orders that a closing offer aborts are not locked.
RowsWithoutLosers(w) ==
    CASE At(w, "find order") -> Found(tx[w].m.request)
      [] At(w, "insert")     -> {tx[w].m.order}
      [] OTHER               -> {}

\* The order rows that the next statement of w locks or inserts.
NeededRows(w) ==
    CASE At(w, "find order")  -> Found(tx[w].m.request)
      [] At(w, "insert")      -> {tx[w].m.order}
      [] At(w, "lock losers") -> tx[w].todo
      [] OTHER                -> {}

\* The workers that w has to wait for.
Blockers(w) ==
    {v \in Others(w) :
       \/ LocksOffer(w) /\ Conflicts(v, OwnOffer(w), LockMode(w))
       \/ NeededRows(w) \cap tx[v].rows # {}}

\* Mistake: a row that was written after the snapshot is locked as it is.
NeverOutdated(w) == FALSE

\* The next statement of w would lock a row that was written after the
\* snapshot: "could not serialize access due to concurrent update".
SnapshotIsOutdated(w) ==
    /\ SnapshotIsFixed
    /\ \/ /\ LocksOffer(w)
          /\ tx[w].view.offers[OwnOffer(w)] # None
          /\ offers[OwnOffer(w)] = None
       \/ \E k \in NeededRows(w) :
            /\ tx[w].view.orders[k] # None
            /\ tx[w].view.orders[k] # orders[k]

\* The next statement of w raises: a lost update, an order that another
\* transaction has inserted (retry_on_integrity_error), a number that is too
\* wide for its column, .one() without a row, or a signal whose primary key is
\* the one of a row that is still in the outbox.
Fails(w) ==
    \/ SnapshotIsOutdated(w)
    \/ /\ At(w, "insert") \/ At(w, "commit")
       /\ IsOrderRequest(tx[w].m)
       /\ ~IsStorable(tx[w].m.order)
    \/ At(w, "insert") /\ Placed(tx[w].m.order)
    \/ At(w, "take offer") /\ offers[OwnOffer(w)] = None
    \/ At(w, "commit") /\ Clash(SignalRows(w))

CanRun(w, step) ==
    /\ At(w, step)
    /\ Blockers(w) = {}
    /\ ~Fails(w)

\* Mistake: nobody notices that workers wait for each other.
DeadlockGoesUnnoticed(w) == FALSE

\* A set of workers of which each one waits for another one.
Deadlocked(w) ==
    \E vs \in SUBSET Worker :
      /\ w \in vs
      /\ \A v \in vs : Busy(v) /\ Blockers(v) \cap vs # {}

----------------------------------------------------------------------------
(* The statements.                                                         *)

\* _try_to_finalize_payment_order
Decision(po) ==
    IF \E leg \in Leg : ShouldPrepare(po, leg) THEN "await" ELSE "execute"

\* The step after "outcome" has been decided.
After(outcome) ==
    CASE outcome = "execute" -> "take offer"
      [] outcome = "cancel"  -> "find losers"
      [] OTHER               -> "commit"

\* What make_payment_order finds when it compares the order with the offer.
Verdict(m, offer) ==
    CASE \A option \in offer.options : option.debtor # m.payment.debtor -> "PAY002"
      [] m.payment \notin offer.options -> "PAY003"
      [] offer.expired -> "PAY006"
      [] OTHER -> Decision(NewOrder(1, m.payment, offer.reciprocal))

\* What process_prepared_payment_transfer_signal decides about order k.
PreparedVerdict(k, m) ==
    CASE Accepts(k, LegOf(m.request)) ->
           Decision([orders[k] EXCEPT !.transfer[LegOf(m.request)] = m.transfer.id])
      [] ~Accepts(k, LegOf(m.request)) /\ IsRecorded(k, m) -> "ignore"
      [] OTHER -> "dismiss"

NewTransaction(m, step) ==
    [m         |-> m,
     step      |-> step,
     outcome   |-> "ignore",
     shared    |-> {},
     exclusive |-> {},
     rows      |-> {},
     todo      |-> {},
     view      |-> IF SnapshotIsFixed THEN Snapshot ELSE None]

\* A worker takes a message and starts a transaction; for an order, the first
\* statement is the exists() query.
Begin(w, m) ==
    /\ ~Busy(w)
    /\ \/ /\ m.type = "make_payment_order"
          /\ tx' = [tx EXCEPT ![w] =
               NewTransaction(m, IF IsRedelivered(m) THEN "commit" ELSE "find offer")]
       \/ /\ m.type = "cancel_formal_offer"
          /\ tx' = [tx EXCEPT ![w] = NewTransaction(m, "find offer")]
       \/ /\ m.type \in {"prepared_transfer", "rejected_transfer"}
          /\ tx' = [tx EXCEPT ![w] = NewTransaction(m, "find order")]
    /\ UNCHANGED vars
    /\ RepeatsSuffice'

FindOffer(w) ==
    LET m       == tx[w].m
        f       == OwnOffer(w)
        outcome == CASE ~IsOrderRequest(m) -> "cancel"
                     [] OTHER              -> Verdict(m, offers[f])
    IN  /\ CanRun(w, "find offer")
        /\ IF OfferIsVisible(f, m.secret)
           THEN tx' = [tx EXCEPT
                  ![w].outcome   = outcome,
                  ![w].step      = IF outcome \in {"PAY006", "await", "execute"}
                                   THEN "insert" ELSE After(outcome),
                  ![w].shared    = IF LockMode(w) = "shared" THEN {f} ELSE {},
                  ![w].exclusive = IF LockMode(w) = "exclusive" THEN {f} ELSE {}]
           ELSE tx' = [tx EXCEPT
                  ![w].outcome = IF IsOrderRequest(m) THEN "PAY001" ELSE "ignore",
                  ![w].step    = "commit"]
        /\ UNCHANGED vars

Insert(w) ==
    /\ CanRun(w, "insert")
    /\ tx' = [tx EXCEPT ![w].rows = {OwnOrder(w)},
                        ![w].step = After(tx[w].outcome)]
    /\ UNCHANGED vars

FindOrder(w) ==
    LET m       == tx[w].m
        found   == Found(m.request)
        outcome == IF m.type = "prepared_transfer"
                   THEN IF found = {} THEN "dismiss" ELSE PreparedVerdict(OwnOrder(w), m)
                   ELSE IF \E k \in found : Aborts(k, m) THEN "reject" ELSE "ignore"
    IN  /\ CanRun(w, "find order")
        /\ m.type = "prepared_transfer" => \A k \in found : Matches(k, m)
        /\ tx' = [tx EXCEPT ![w].rows    = found,
                            ![w].outcome = outcome,
                            ![w].step    = After(outcome)]
        /\ UNCHANGED vars

\* _execute_payment_order locks the offer for update.
TakeOffer(w) ==
    /\ CanRun(w, "take offer")
    /\ tx' = [tx EXCEPT ![w].exclusive = {OwnOffer(w)}, ![w].step = "find losers"]
    /\ UNCHANGED vars

\* _abort_unfinalized_payment_orders: the query finds the rows first, and has
\* to wait for the locks of some then.
FindLosers(w) ==
    LET f     == OwnOffer(w)
        found == {k \in OrderKey :
                    /\ k.offer = f
                    /\ Seen(w).orders[k] # None
                    /\ ~Seen(w).orders[k].finalized}
    IN  /\ CanRun(w, "find losers")
        /\ tx' = [tx EXCEPT ![w].todo = found \ tx[w].rows, ![w].step = "lock losers"]
        /\ UNCHANGED vars

\* A row that is final by now is passed over.
LockLosers(w) ==
    /\ CanRun(w, "lock losers")
    /\ tx' = [tx EXCEPT ![w].rows = @ \cup {k \in tx[w].todo : IsUnfinalized(k)},
                        ![w].todo = {},
                        ![w].step = "commit"]
    /\ UNCHANGED vars

\* The transaction commits; its message stays in the queue while another
\* worker has it too.
Commit(w, acknowledged) ==
    /\ CanRun(w, "commit")
    /\ acknowledged => ~IsShared(w)
    /\ Consume(tx[w].m, {}, acknowledged)
    /\ Write(w)
    /\ tx' = [tx EXCEPT ![w] = None]
    /\ UNCHANGED external
    /\ RepeatsSuffice'

\* A statement has failed, or the database has chosen w to end a deadlock:
\* the transaction is rolled back, and will be tried again after a pause.
Abort(w) ==
    /\ Busy(w)
    /\ Fails(w) \/ Deadlocked(w)
    /\ tx' = [tx EXCEPT ![w] = [NewTransaction(tx[w].m, "pause") EXCEPT !.view = None]]
    /\ UNCHANGED vars

Retry(w) ==
    /\ At(w, "pause")
    /\ tx' = [tx EXCEPT ![w] = None]
    /\ UNCHANGED vars

\* The worker stops before its transaction is committed.
Crash(w) ==
    /\ Busy(w)
    /\ tx' = [tx EXCEPT ![w] = None]
    /\ UNCHANGED vars

----------------------------------------------------------------------------
(* Everything that happens outside the transactions of the handlers.       *)
Surroundings ==
    /\ \/ Create
       \/ \E m \in ClientRequest : Issue(m)
       \/ \E m \in queue, acknowledged \in BOOLEAN :
            AccountsPrepare(m, acknowledged) \/ AccountsFinalize(m, acknowledged)
       \/ \E type \in RequestType \cup EventType, deleted \in BOOLEAN : Flush(type, deleted)
       \/ \E f \in OfferId : Expire(f)
    /\ UNCHANGED tx
    /\ RepeatsSuffice'

Statement(w) ==
    \/ FindOffer(w)
    \/ Insert(w)
    \/ FindOrder(w)
    \/ TakeOffer(w)
    \/ FindLosers(w)
    \/ LockLosers(w)

Work ==
    \/ Surroundings
    \/ \E w \in Worker :
         \/ \E m \in queue : Begin(w, m)
         \/ Statement(w)
         \/ \E acknowledged \in BOOLEAN : Commit(w, acknowledged)
         \/ Abort(w)
         \/ Retry(w)

TransactionsNext == Work \/ \E w \in Worker : Crash(w)

TransactionsSpec == TransactionsInit /\ [][TransactionsNext]_transactionVars

----------------------------------------------------------------------------
(* What the locks are for.                                                 *)

\* The database as it was before the deadline of any offer.
Early ==
    INSTANCE PaymentSystem WITH
        offers <- [f \in OfferId |-> IF offers[f] = None THEN None
                                    ELSE [offers[f] EXCEPT !.expired = FALSE]]

\* A transaction that has looked at the clock before the deadline.
InTime == \E m \in queue, acknowledged \in BOOLEAN : Early!HandleOrder(m, acknowledged)

\* The one thing that the locks do not exclude at "read committed": an order
\* that was recorded after the exists() query, and whose offer was deleted
\* while the other delivery waited for it, is refused.
LateRefusal ==
    \E m \in queue, acknowledged \in BOOLEAN :
      /\ IsOrderRequest(m)
      /\ IsRedelivered(m)
      /\ ~OfferIsVisible(m.order.offer, m.secret)
      /\ Consume(m, {}, acknowledged)
      /\ Refuse(m, "PAY001")
      /\ UNCHANGED external

\* The locks make each transaction look like one step of PaymentSystem,
\* whatever the others do between its statements (with_for_update and
\* retry_on_integrity_error).
TransactionsAreAtomic == Init /\ [][Next \/ InTime \/ LateRefusal]_vars

\* An order that has been recorded already is not refused when its message is
\* delivered once more ("We should ignore the request in such cases",
\* make_payment_order).
RedeliveryIsIgnored ==
    [][\A s \in emitted' \ emitted :
         /\ s.type = "failed_payment"
         /\ s.reason \in Refusal
         => ~Placed(s.order)]_transactionVars

----------------------------------------------------------------------------
(* Progress.                                                               *)

\* The pauses grow with every retry, in the end beyond what the transactions
\* take that go on meanwhile.
Patience ==
    \A w \in Worker :
      At(w, "pause") /\ ~Busy(w)' => \A v \in Others(w) : At(v, "pause")

\* Workers take messages, run their statements and commit; the outbox is
\* flushed; the accounts service answers; and the database ends deadlocks.
TransactionsFairness ==
    /\ WF_transactionVars(\E type \in RequestType \cup EventType :
                             Flush(type, TRUE) /\ UNCHANGED tx)
    /\ WF_transactionVars(\E m \in queue :
                             (AccountsPrepare(m, TRUE) \/ AccountsFinalize(m, TRUE))
                               /\ UNCHANGED tx)
    /\ \A w \in Worker :
         /\ WF_transactionVars(\E m \in queue : Begin(w, m))
         /\ WF_transactionVars(Statement(w) \/ Commit(w, ~IsShared(w)))
         /\ WF_transactionVars(Abort(w))
         /\ WF_transactionVars(Retry(w) /\ Patience)

\* No worker crashes any more.
FairTransactionsSpec ==
    TransactionsInit /\ [][Work /\ Patience]_transactionVars /\ TransactionsFairness

\* All messages are handled in the end: no transaction fails or waits for
\* ever, though orders that execute at once upgrade their shared locks on the
\* offer, and a cancellation locks the offer first and the orders then, while
\* a prepared transfer does it the other way round (make_payment_order,
\* cancel_formal_offer, _execute_payment_order).
AllIsHandled == <>[](queue = {} /\ outbox = {})
=============================================================================
