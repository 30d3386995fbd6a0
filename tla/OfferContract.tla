---------------------------- MODULE OfferContract ----------------------------
(***************************************************************************)
(* What the payments service promises (the docstrings of actors.py and the *)
(* comments of the signals in models.py), without messages, transfers and  *)
(* tables: an offer is open until it is paid once or canceled, an order    *)
(* has one outcome, and the orders that are pending when their offer       *)
(* closes fail with it.                                                    *)
(***************************************************************************)
CONSTANTS
    OfferId,
    OrderKey    \* each order k is for the offer k.offer

VARIABLES
    offer,    \* what the payee knows about each offer
    order     \* what the payer knows about each order

contractVars == <<offer, order>>

OfferState == {"none", "open", "paid", "canceled"}

OrderState == {"new", "pending", "paid", "failed"}

Init ==
    /\ offer = [f \in OfferId |-> "none"]
    /\ order = [k \in OrderKey |-> "new"]

PendingOrders(f) == {k \in OrderKey : k.offer = f /\ order[k] = "pending"}

\* The orders after those in "failed" have failed.
Fail(failed) ==
    [k \in OrderKey |-> IF k \in failed THEN "failed" ELSE order[k]]

Announce(f) ==
    /\ offer[f] = "none"
    /\ offer' = [offer EXCEPT ![f] = "open"]
    /\ UNCHANGED order

\* The order is taken up: it waits for money.
Submit(k) ==
    /\ offer[k.offer] = "open"
    /\ order[k] = "new"
    /\ order' = [order EXCEPT ![k] = "pending"]
    /\ UNCHANGED offer

\* The order does not fit the offer, comes too late, or the money is not there.
Decline(k) ==
    /\ offer[k.offer] # "none"
    /\ order[k] \in {"new", "pending"}
    /\ order' = Fail({k})
    /\ UNCHANGED offer

\* The offer is paid by one order; its pending competitors fail.
Pay(k) ==
    /\ offer[k.offer] = "open"
    /\ order[k] \in {"new", "pending"}
    /\ offer' = [offer EXCEPT ![k.offer] = "paid"]
    /\ order' = [Fail(PendingOrders(k.offer)) EXCEPT ![k] = "paid"]

Withdraw(f) ==
    /\ offer[f] = "open"
    /\ offer' = [offer EXCEPT ![f] = "canceled"]
    /\ order' = Fail(PendingOrders(f))

Next ==
    \/ \E f \in OfferId : Announce(f) \/ Withdraw(f)
    \/ \E k \in OrderKey : Submit(k) \/ Decline(k) \/ Pay(k)

Spec == Init /\ [][Next]_contractVars
=============================================================================
