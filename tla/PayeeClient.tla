----------------------------- MODULE PayeeClient -----------------------------
(***************************************************************************)
(* The payee's side of an offer: the Formal Offer (FO) records that the    *)
(* clients of the service must keep, as the docstring of the actor         *)
(* create_formal_offer lays down, together with a service that keeps       *)
(* OfferContract.  The clients are not a part of this repository.          *)
(*                                                                         *)
(* Nothing in the service tells two deliveries of a create_formal_offer    *)
(* message from two messages: each one makes an offer.  It is the records  *)
(* that leave one offer for each announcement.                             *)
(***************************************************************************)
EXTENDS Naturals, FiniteSets

CONSTANTS
    Announcement,    \* the values of offer_announcement_id
    MaxOffers,       \* bound on the number of offers ever created
    MaxRepeats       \* bound on how often a message is delivered once more

ASSUME PayeeAssumption == MaxOffers \in Nat /\ MaxRepeats \in Nat

VARIABLES
    offer,        \* the offers of the service, see OfferContract
    order,        \* the orders of the service, one for each offer
    announced,    \* the announcement that each offer was created for
    record,       \* the payee's FO records
    published,    \* the offers whose secret the payee has given away
    queue,        \* messages to the actors of the service
    events,       \* signals to the payee
    repeats       \* how often a message has been delivered once more

payeeVars == <<offer, order, announced, record, published, queue, events, repeats>>

OfferId == 1..MaxOffers

OrderKey == [offer : OfferId]

Service == INSTANCE OfferContract

\* There is no offer 0.
PayeeInit ==
    /\ Service!Init
    /\ announced = [f \in {} |-> 0]
    /\ record = [a \in Announcement |-> [status |-> "none", offer |-> 0]]
    /\ published = {}
    /\ queue = {}
    /\ events = {}
    /\ repeats = 0

\* A message is delivered, and once more unless it is acknowledged.
Deliver(m, acknowledged) ==
    \/ acknowledged /\ UNCHANGED repeats
    \/ ~acknowledged /\ repeats < MaxRepeats /\ repeats' = repeats + 1

Left(messages, m, acknowledged) == IF acknowledged THEN messages \ {m} ELSE messages

CreateMessage(a) == [type |-> "create_formal_offer", announcement |-> a]

CancelMessage(f) == [type |-> "cancel_formal_offer", offer |-> f]

----------------------------------------------------------------------------
(* The service: its transactions, seen through the contract.               *)

CreateOffer(m, acknowledged) ==
    LET f == Cardinality(DOMAIN announced) + 1
    IN  /\ m.type = "create_formal_offer"
        /\ f \in OfferId
        /\ Service!Announce(f)
        /\ announced' = [g \in 1..f |-> IF g = f THEN m.announcement ELSE announced[g]]
        /\ queue' = Left(queue, m, acknowledged)
        /\ events' = events \cup
             {[type |-> "created", offer |-> f, announcement |-> m.announcement]}
        /\ Deliver(m, acknowledged)
        /\ UNCHANGED <<record, published>>

CancelOffer(m, acknowledged) ==
    /\ m.type = "cancel_formal_offer"
    /\ IF offer[m.offer] = "open"
       THEN /\ Service!Withdraw(m.offer)
            /\ events' = events \cup {[type |-> "canceled", offer |-> m.offer]}
       ELSE UNCHANGED <<offer, order, events>>
    /\ queue' = Left(queue, m, acknowledged)
    /\ Deliver(m, acknowledged)
    /\ UNCHANGED <<announced, record, published>>

\* Who wants to pay has to know the secret of the offer.
PayOffer(k) ==
    /\ k.offer \in published
    /\ Service!Pay(k)
    /\ events' = events \cup {[type |-> "successful", offer |-> k.offer]}
    /\ UNCHANGED <<announced, record, published, queue, repeats>>

----------------------------------------------------------------------------
(* The payee: an offer is published as soon as it has been recorded.       *)

Announce(a) ==
    /\ record[a].status = "none"
    /\ record' = [record EXCEPT ![a].status = "initiated"]
    /\ queue' = queue \cup {CreateMessage(a)}
    /\ UNCHANGED <<offer, order, announced, published, events, repeats>>

\* Mistake: the last offer that was created is the one that counts.
AwaitsAny(a) == record[a].status \in {"initiated", "created"}

AwaitsOffer(a) == record[a].status = "initiated"

\* Mistake: only the offers that no record is there for are canceled.
IsOrphan(e) == record[e.announcement].status = "deleted"

\* An offer that is not the one of its record, or has no record any more.
IsSuperfluous(e) ==
    /\ ~AwaitsOffer(e.announcement)
    /\ record[e.announcement].offer # e.offer

OnCreated(e, acknowledged) ==
    LET a == e.announcement
    IN  /\ e.type = "created"
        /\ IF AwaitsOffer(a)
           THEN /\ record' = [record EXCEPT ![a] = [status |-> "created", offer |-> e.offer]]
                /\ published' = published \cup {e.offer}
           ELSE UNCHANGED <<record, published>>
        /\ queue' = IF IsSuperfluous(e) THEN queue \cup {CancelMessage(e.offer)} ELSE queue
        /\ events' = Left(events, e, acknowledged)
        /\ Deliver(e, acknowledged)
        /\ UNCHANGED <<offer, order, announced>>

\* Mistake: a payment is taken for a cancellation that has not come about.
StaysCreated(e) == IF e.type = "successful" THEN "created" ELSE "canceled"

Outcome(e) == IF e.type = "successful" THEN "paid" ELSE "canceled"

OnSettled(e, acknowledged) ==
    /\ e.type \in {"successful", "canceled"}
    /\ record' = [a \in Announcement |->
                    IF record[a].offer = e.offer /\ record[a].status = "created"
                    THEN [record[a] EXCEPT !.status = Outcome(e)]
                    ELSE record[a]]
    /\ events' = Left(events, e, acknowledged)
    /\ Deliver(e, acknowledged)
    /\ UNCHANGED <<offer, order, announced, published, queue>>

RequestCancel(a) ==
    /\ record[a].status = "created"
    /\ queue' = queue \cup {CancelMessage(record[a].offer)}
    /\ UNCHANGED <<offer, order, announced, record, published, events, repeats>>

\* "paid" and "canceled" records may be deleted.
DeleteRecord(a) ==
    /\ record[a].status \in {"paid", "canceled"}
    /\ record' = [record EXCEPT ![a] = [status |-> "deleted", offer |-> 0]]
    /\ UNCHANGED <<offer, order, announced, published, queue, events, repeats>>

PayeeNext ==
    \/ \E m \in queue, acknowledged \in BOOLEAN :
         CreateOffer(m, acknowledged) \/ CancelOffer(m, acknowledged)
    \/ \E k \in OrderKey : PayOffer(k)
    \/ \E e \in events, acknowledged \in BOOLEAN :
         OnCreated(e, acknowledged) \/ OnSettled(e, acknowledged)
    \/ \E a \in Announcement : Announce(a) \/ RequestCancel(a) \/ DeleteRecord(a)

\* Messages and signals are delivered and acknowledged in the end.
PayeeFairness ==
    /\ \A f \in OfferId : WF_payeeVars(CancelMessage(f) \in queue
                                         /\ CancelOffer(CancelMessage(f), TRUE))
    /\ WF_payeeVars(\E e \in events : OnCreated(e, TRUE))
    /\ WF_payeeVars(\E e \in events : OnSettled(e, TRUE))

PayeeSpec == PayeeInit /\ [][PayeeNext]_payeeVars /\ PayeeFairness

----------------------------------------------------------------------------
OffersOf(a) == {f \in DOMAIN announced : announced[f] = a}

\* When all messages have been delivered, each record tells what has become of
\* its offer, and no other offer is left that was created for the same
\* announcement, however often the messages were delivered and in which order.
RecordsAreTrue ==
    queue = {} /\ events = {} =>
      \A a \in Announcement :
        /\ record[a].status = "created" => offer[record[a].offer] = "open"
        /\ record[a].status \in {"paid", "canceled"} =>
             offer[record[a].offer] = record[a].status
        /\ \A f \in OffersOf(a) : f # record[a].offer => offer[f] # "open"

\* An offer that is superfluous can never be paid: the goods of an
\* announcement are sold once.
PaidOncePerAnnouncement ==
    \A a \in Announcement : Cardinality({f \in OffersOf(a) : offer[f] = "paid"}) <= 1

\* A payee who asks to cancel an offer learns in the end that it is canceled
\* or that it was paid in the meantime (the docstring of the actor
\* cancel_formal_offer).
CancellationIsAnswered ==
    \A a \in Announcement :
      (record[a].status = "created" /\ CancelMessage(record[a].offer) \in queue)
        ~> record[a].status \in {"paid", "canceled", "deleted"}
=============================================================================
