------------------------ MODULE PayeeClient_proofs ------------------------
(***************************************************************************)
(* Why the payee's records leave one offer for each announcement, however  *)
(* often and in which order messages and signals are delivered.            *)
(***************************************************************************)
EXTENDS PayeeClient, FiniteSetTheorems, TLAPS

\* The offers that the service has created.
Created == DOMAIN announced

RecordStatus == {"none", "initiated", "created", "paid", "canceled", "deleted"}

PayeeMessage ==
    [type : {"create_formal_offer"}, announcement : Announcement]
      \cup [type : {"cancel_formal_offer"}, offer : OfferId]

PayeeEvent ==
    [type : {"created"}, offer : OfferId, announcement : Announcement]
      \cup [type : {"successful", "canceled"}, offer : OfferId]

PayeeTypeOK ==
    /\ offer \in [OfferId -> {"none", "open", "paid", "canceled"}]
    /\ \E n \in 0..MaxOffers : announced \in [1..n -> Announcement]
    /\ record \in [Announcement -> [status : RecordStatus, offer : Nat]]
    /\ published \subseteq OfferId
    /\ queue \subseteq PayeeMessage
    /\ events \subseteq PayeeEvent

\* An offer exists from the announcement that it was created for.
CreatedAreOffers == \A f \in OfferId : offer[f] # "none" <=> f \in Created

SettledEvent(type, f) == [type |-> type, offer |-> f]

CreatedEvent(f) == [type |-> "created", offer |-> f, announcement |-> announced[f]]

EventsAreTrue ==
    \A e \in events :
      /\ e.type = "created" => e.offer \in Created /\ announced[e.offer] = e.announcement
      /\ e.type = "successful" => offer[e.offer] = "paid"
      /\ e.type = "canceled" => offer[e.offer] = "canceled"

\* The secret of an offer is given away only when it is the offer of the
\* record of its announcement, which it stays until the record is deleted.
PublishedAreRecorded ==
    \A f \in published :
      /\ f \in Created
      /\ \/ /\ record[announced[f]].status \in {"created", "paid", "canceled"}
            /\ record[announced[f]].offer = f
         \/ /\ record[announced[f]].status = "deleted"
            /\ offer[f] # "open"

PublishedOnce ==
    \A f, g \in published : announced[f] = announced[g] => f = g

PaidArePublished == \A f \in OfferId : offer[f] = "paid" => f \in published

\* The record of an announcement tells what has become of its offer, or the
\* payee is going to hear of it.
RecordsFollow ==
    \A a \in Announcement : LET r == record[a] IN
      /\ r.status \in {"none", "initiated", "deleted"} => r.offer = 0
      /\ r.status \in {"created", "paid", "canceled"} => r.offer \in published
      /\ r.status = "created" =>
           \/ offer[r.offer] = "open"
           \/ offer[r.offer] = "paid" /\ SettledEvent("successful", r.offer) \in events
           \/ offer[r.offer] = "canceled" /\ SettledEvent("canceled", r.offer) \in events
      /\ r.status \in {"paid", "canceled"} => offer[r.offer] = r.status

\* An open offer that is not the one of its record is going to be canceled.
SuperfluousGo ==
    \A f \in Created : offer[f] = "open" =>
      \/ record[announced[f]].offer = f
      \/ CreatedEvent(f) \in events
      \/ CancelMessage(f) \in queue

\* An offer is created only for an announcement that has a record.
AnnouncedFirst ==
    /\ \A a \in Announcement : CreateMessage(a) \in queue => record[a].status # "none"
    /\ \A f \in Created : record[announced[f]].status # "none"

\* As long as the payee waits for the first offer of an announcement, all its
\* offers are open, and nobody has asked to cancel one.
AwaitedAreOpen ==
    /\ \A f \in OfferId : CancelMessage(f) \in queue =>
         f \in Created /\ record[announced[f]].status # "initiated"
    /\ \A f \in Created : record[announced[f]].status = "initiated" => offer[f] = "open"

\* The inductive invariant.
PayeeInvariant ==
    /\ CreatedAreOffers
    /\ EventsAreTrue
    /\ PublishedAreRecorded
    /\ PublishedOnce
    /\ PaidArePublished
    /\ RecordsFollow
    /\ SuperfluousGo
    /\ AnnouncedFirst
    /\ AwaitedAreOpen

----------------------------------------------------------------------------
(* Messages and events, and what each step does with the offers.           *)

LEMMA EventFields ==
    ASSUME NEW e \in PayeeEvent
    PROVE  /\ e.offer \in OfferId
           /\ e.type \in {"created", "successful", "canceled"}
           /\ e.type = "created" =>
                /\ e.announcement \in Announcement
                /\ e = [type |-> "created", offer |-> e.offer, announcement |-> e.announcement]
           /\ e.type # "created" => e = SettledEvent(e.type, e.offer)
BY DEF PayeeEvent, SettledEvent

LEMMA MessageFields ==
    ASSUME NEW m \in PayeeMessage
    PROVE  /\ m.type = "create_formal_offer" =>
                m.announcement \in Announcement /\ m = CreateMessage(m.announcement)
           /\ m.type = "cancel_formal_offer" =>
                m.offer \in OfferId /\ m = CancelMessage(m.offer)
BY DEF PayeeMessage, CreateMessage, CancelMessage

\* An offer f is created for the announcement a.
Creates(f, a) ==
    /\ f \notin Created
    /\ CreateMessage(a) \in queue
    /\ offer' = [offer EXCEPT ![f] = "open"]
    /\ Created' = Created \cup {f}
    /\ announced'[f] = a
    /\ \A g \in Created : announced'[g] = announced[g]
    /\ events' = events \cup {[type |-> "created", offer |-> f, announcement |-> a]}
    /\ queue' \subseteq queue
    /\ \A g \in OfferId : CancelMessage(g) \in queue => CancelMessage(g) \in queue'
    /\ UNCHANGED <<record, published>>

\* An open offer f is paid or canceled.
Closes(f, type, outcome) ==
    /\ offer[f] = "open"
    /\ offer' = [offer EXCEPT ![f] = outcome]
    /\ events' = events \cup {SettledEvent(type, f)}
    /\ \/ type = "successful" /\ outcome = "paid" /\ f \in published
       \/ type = "canceled" /\ outcome = "canceled" /\ CancelMessage(f) \in queue
    /\ queue' \subseteq queue
    /\ \A g \in OfferId : g # f /\ CancelMessage(g) \in queue => CancelMessage(g) \in queue'
    /\ UNCHANGED <<announced, record, published>>

LEMMA CreateOfferCreates ==
    ASSUME PayeeTypeOK, CreatedAreOffers,
           NEW m \in queue, NEW acknowledged \in BOOLEAN, CreateOffer(m, acknowledged)
    PROVE  \E f \in OfferId, a \in Announcement : Creates(f, a)
<1> DEFINE a == m.announcement
<1>1. PICK n \in 0..MaxOffers : announced \in [1..n -> Announcement]
  BY DEF PayeeTypeOK
<1>2. Cardinality(DOMAIN announced) = n
  <2>1. DOMAIN announced = 1..n
    BY <1>1
  <2> QED
    BY <1>1, <2>1, FS_Interval, PayeeAssumption
<1>3. PICK f : f = n + 1
  OBVIOUS
<1>4. f \in OfferId /\ offer' = [offer EXCEPT ![f] = "open"]
  BY <1>2, <1>3 DEF CreateOffer, Service!Announce
<1>5. announced' = [g \in 1..f |-> IF g = f THEN m.announcement ELSE announced[g]]
  BY <1>2, <1>3 DEF CreateOffer
<1>6. m \in PayeeMessage /\ m.type = "create_formal_offer"
  BY DEF PayeeTypeOK, CreateOffer
<1>7. a \in Announcement /\ m = CreateMessage(a)
  BY <1>6, MessageFields
<1>8. /\ f \notin Created
      /\ Created' = Created \cup {f}
      /\ announced'[f] = a
      /\ \A g \in Created : announced'[g] = announced[g]
  <2>1. 1..f = (1..n) \cup {f} /\ f \notin 1..n
    BY <1>1, <1>3, PayeeAssumption
  <2> QED
    BY <1>1, <1>5, <2>1, PayeeAssumption DEF Created
<1>9. events' = events \cup {[type |-> "created", offer |-> f, announcement |-> a]}
  BY <1>2, <1>3 DEF CreateOffer
<1>10. /\ queue' \subseteq queue
       /\ \A g \in OfferId : CancelMessage(g) \in queue => CancelMessage(g) \in queue'
  BY <1>6 DEF CreateOffer, Left, CancelMessage
<1>11. UNCHANGED <<record, published>>
  BY DEF CreateOffer
<1> QED
  BY <1>4, <1>7, <1>8, <1>9, <1>10, <1>11 DEF Creates

LEMMA CancelOfferCloses ==
    ASSUME PayeeTypeOK,
           NEW m \in queue, NEW acknowledged \in BOOLEAN, CancelOffer(m, acknowledged),
           offer[m.offer] = "open"
    PROVE  m.offer \in OfferId /\ Closes(m.offer, "canceled", "canceled")
<1>1. m \in PayeeMessage /\ m.type = "cancel_formal_offer"
  BY DEF PayeeTypeOK, CancelOffer
<1>2. m.offer \in OfferId /\ m = CancelMessage(m.offer)
  BY <1>1, MessageFields
<1>3. \A g \in OfferId : g # m.offer => CancelMessage(g) # m
  BY <1>2 DEF CancelMessage
<1> QED
  BY <1>2, <1>3 DEF CancelOffer, Closes, Service!Withdraw, Left, SettledEvent

LEMMA PayOfferCloses ==
    ASSUME NEW k \in OrderKey, PayOffer(k)
    PROVE  k.offer \in OfferId /\ Closes(k.offer, "successful", "paid")
BY DEF OrderKey, PayOffer, Closes, Service!Pay, SettledEvent

----------------------------------------------------------------------------
(* Every step keeps the types.                                             *)

LEMMA CreatingTypes ==
    ASSUME PayeeTypeOK, NEW m \in queue, NEW acknowledged \in BOOLEAN,
           CreateOffer(m, acknowledged)
    PROVE  PayeeTypeOK'
<1>1. PICK n \in 0..MaxOffers : announced \in [1..n -> Announcement]
  BY DEF PayeeTypeOK
<1>2. Cardinality(DOMAIN announced) = n
  <2>1. DOMAIN announced = 1..n
    BY <1>1
  <2> QED
    BY <1>1, <2>1, FS_Interval, PayeeAssumption
<1>3. m \in PayeeMessage /\ m.type = "create_formal_offer"
  BY DEF PayeeTypeOK, CreateOffer
<1>4. m.announcement \in Announcement
  BY <1>3, MessageFields
<1>5. n + 1 \in OfferId /\ n + 1 \in 0..MaxOffers
  BY <1>1, <1>2, PayeeAssumption DEF CreateOffer, OfferId
<1>6. announced' \in [1..(n + 1) -> Announcement]
  <2>1. announced' = [g \in 1..(n + 1) |->
                        IF g = n + 1 THEN m.announcement ELSE announced[g]]
    BY <1>2 DEF CreateOffer
  <2> QED
    BY <1>1, <1>4, <2>1, PayeeAssumption
<1>7. [type |-> "created", offer |-> n + 1, announcement |-> m.announcement] \in PayeeEvent
  BY <1>4, <1>5 DEF PayeeEvent
<1>8. events' \subseteq PayeeEvent
  BY <1>2, <1>7 DEF CreateOffer, PayeeTypeOK
<1>9. offer' \in [OfferId -> {"none", "open", "paid", "canceled"}]
  BY DEF CreateOffer, Service!Announce, PayeeTypeOK
<1>10. queue' \subseteq PayeeMessage
  BY DEF CreateOffer, Left, PayeeTypeOK
<1> QED
  BY <1>5, <1>6, <1>8, <1>9, <1>10 DEF CreateOffer, PayeeTypeOK

LEMMA ClosingTypes ==
    ASSUME PayeeTypeOK, NEW f \in OfferId, NEW type, NEW outcome,
           Closes(f, type, outcome)
    PROVE  PayeeTypeOK'
<1>1. SettledEvent(type, f) \in PayeeEvent
  BY DEF Closes, SettledEvent, PayeeEvent
<1>2. offer' \in [OfferId -> {"none", "open", "paid", "canceled"}]
  BY DEF Closes, PayeeTypeOK
<1> QED
  BY <1>1, <1>2 DEF Closes, PayeeTypeOK

LEMMA HearingTypes ==
    ASSUME PayeeTypeOK, NEW e \in events, NEW acknowledged \in BOOLEAN,
           OnCreated(e, acknowledged)
    PROVE  PayeeTypeOK'
<1>1. e \in PayeeEvent /\ e.type = "created"
  BY DEF PayeeTypeOK, OnCreated
<1>2. e.offer \in OfferId /\ e.offer \in Nat /\ e.announcement \in Announcement
  BY <1>1, EventFields, PayeeAssumption DEF OfferId
<1>3. CancelMessage(e.offer) \in PayeeMessage
  BY <1>2 DEF CancelMessage, PayeeMessage
<1>4. record' \in [Announcement -> [status : RecordStatus, offer : Nat]]
  BY <1>2 DEF OnCreated, PayeeTypeOK, RecordStatus
<1>5. queue' \subseteq PayeeMessage /\ published' \subseteq OfferId
  BY <1>2, <1>3 DEF OnCreated, PayeeTypeOK
<1> QED
  BY <1>4, <1>5 DEF OnCreated, PayeeTypeOK, Left

LEMMA LearningTypes ==
    ASSUME PayeeTypeOK, NEW e \in events, NEW acknowledged \in BOOLEAN,
           OnSettled(e, acknowledged)
    PROVE  PayeeTypeOK'
<1>1. record' \in [Announcement -> [status : RecordStatus, offer : Nat]]
  BY DEF OnSettled, PayeeTypeOK, RecordStatus, Outcome
<1> QED
  BY <1>1 DEF OnSettled, PayeeTypeOK, Left

LEMMA AskingTypes ==
    ASSUME PayeeTypeOK, RecordsFollow, NEW a \in Announcement,
           Announce(a) \/ RequestCancel(a) \/ DeleteRecord(a)
    PROVE  PayeeTypeOK'
<1>1. CreateMessage(a) \in PayeeMessage
  BY DEF CreateMessage, PayeeMessage
<1>2. record[a].status = "created" => CancelMessage(record[a].offer) \in PayeeMessage
  <2>1. record[a].status = "created" => record[a].offer \in OfferId
    BY DEF RecordsFollow, PayeeTypeOK
  <2> QED
    BY <2>1 DEF CancelMessage, PayeeMessage
<1>3. record' \in [Announcement -> [status : RecordStatus, offer : Nat]]
  BY DEF Announce, RequestCancel, DeleteRecord, PayeeTypeOK, RecordStatus
<1>4. queue' \subseteq PayeeMessage
  BY <1>1, <1>2 DEF Announce, RequestCancel, DeleteRecord, PayeeTypeOK
<1> QED
  BY <1>3, <1>4 DEF Announce, RequestCancel, DeleteRecord, PayeeTypeOK

----------------------------------------------------------------------------
(* A new offer: nothing but an event tells the payee of it.                *)

LEMMA CreatingKeeps ==
    ASSUME PayeeTypeOK, PayeeInvariant, PayeeTypeOK',
           NEW f \in OfferId, NEW a \in Announcement, Creates(f, a)
    PROVE  PayeeInvariant'
<1>1. \A g \in Created : g \in OfferId /\ announced[g] \in Announcement
  BY PayeeAssumption DEF PayeeTypeOK, Created, OfferId
<1>2. \A g \in OfferId : offer'[g] = IF g = f THEN "open" ELSE offer[g]
  BY DEF Creates, PayeeTypeOK
<1>3. offer[f] = "none" /\ f \notin Created /\ f \notin published
  BY DEF PayeeInvariant, CreatedAreOffers, PublishedAreRecorded, Creates
<1>4. CreatedAreOffers'
  BY <1>2, <1>3 DEF PayeeInvariant, CreatedAreOffers, Creates
<1>5. EventsAreTrue'
  <2> SUFFICES ASSUME NEW e \in events'
               PROVE  /\ e.type = "created" => e.offer \in Created' /\ announced'[e.offer] = e.announcement
                      /\ e.type = "successful" => offer'[e.offer] = "paid"
                      /\ e.type = "canceled" => offer'[e.offer] = "canceled"
    BY DEF EventsAreTrue
  <2>1. CASE e \in events
    <3>1. e \in PayeeEvent
      BY <2>1 DEF PayeeTypeOK
    <3>2. /\ e.type = "created" => e.offer \in Created /\ announced[e.offer] = e.announcement
          /\ e.type = "successful" => offer[e.offer] = "paid"
          /\ e.type = "canceled" => offer[e.offer] = "canceled"
      BY <2>1 DEF PayeeInvariant, EventsAreTrue
    <3> QED
      BY <3>1, <3>2, <1>2, <1>3, EventFields DEF Creates
  <2>2. CASE e = [type |-> "created", offer |-> f, announcement |-> a]
    BY <2>2 DEF Creates
  <2> QED
    BY <2>1, <2>2 DEF Creates
<1>6. PublishedAreRecorded'
  BY <1>2, <1>3 DEF PayeeInvariant, PublishedAreRecorded, Creates, PayeeTypeOK
<1>7. PublishedOnce'
  BY DEF PayeeInvariant, PublishedOnce, PublishedAreRecorded, Creates
<1>8. PaidArePublished'
  BY <1>2 DEF PayeeInvariant, PaidArePublished, Creates
<1>9. RecordsFollow'
  <2> SUFFICES ASSUME NEW b \in Announcement
               PROVE  LET r == record[b] IN
                        /\ r.status \in {"none", "initiated", "deleted"} => r.offer = 0
                        /\ r.status \in {"created", "paid", "canceled"} => r.offer \in published
                        /\ r.status = "created" =>
                             \/ offer'[r.offer] = "open"
                             \/ offer'[r.offer] = "paid" /\ SettledEvent("successful", r.offer) \in events'
                             \/ offer'[r.offer] = "canceled" /\ SettledEvent("canceled", r.offer) \in events'
                        /\ r.status \in {"paid", "canceled"} => offer'[r.offer] = r.status
    BY DEF RecordsFollow, Creates, SettledEvent
  <2> QED
    BY <1>2, <1>3 DEF PayeeInvariant, RecordsFollow, Creates, PayeeTypeOK
<1>10. SuperfluousGo'
  <2> SUFFICES ASSUME NEW g \in Created', offer'[g] = "open"
               PROVE  \/ record[announced'[g]].offer = g
                      \/ [type |-> "created", offer |-> g, announcement |-> announced'[g]] \in events'
                      \/ CancelMessage(g) \in queue'
    BY DEF SuperfluousGo, CreatedEvent, CancelMessage, Creates
  <2>1. CASE g = f
    BY <2>1 DEF Creates
  <2>2. CASE g # f
    <3>1. g \in Created /\ g \in OfferId /\ offer[g] = "open" /\ announced'[g] = announced[g]
      BY <2>2, <1>1, <1>2 DEF Creates
    <3> QED
      BY <3>1 DEF PayeeInvariant, SuperfluousGo, CreatedEvent, Creates
  <2> QED
    BY <2>1, <2>2
<1>11. AwaitedAreOpen'
  <2>1. ASSUME NEW g \in OfferId, CancelMessage(g) \in queue'
        PROVE  g \in Created' /\ record'[announced'[g]].status # "initiated"
    <3>1. CancelMessage(g) \in queue
      BY <2>1 DEF Creates
    <3> QED
      BY <3>1, <1>3 DEF PayeeInvariant, AwaitedAreOpen, Creates
  <2>2. ASSUME NEW g \in Created', record'[announced'[g]].status = "initiated"
        PROVE  offer'[g] = "open"
    BY <2>2, <1>1, <1>2 DEF PayeeInvariant, AwaitedAreOpen, Creates
  <2> QED
    BY <2>1, <2>2 DEF AwaitedAreOpen, CancelMessage
<1>12. AnnouncedFirst'
  <2>1. \A b \in Announcement : CreateMessage(b) \in queue' => record'[b].status # "none"
    BY DEF PayeeInvariant, AnnouncedFirst, Creates
  <2>2. \A g \in Created' : record'[announced'[g]].status # "none"
    BY DEF PayeeInvariant, AnnouncedFirst, Creates
  <2> QED
    BY <2>1, <2>2 DEF AnnouncedFirst, CreateMessage
<1> QED
  BY <1>4, <1>5, <1>6, <1>7, <1>8, <1>9, <1>10, <1>11, <1>12 DEF PayeeInvariant

----------------------------------------------------------------------------
(* An offer is paid or canceled: the payee is going to hear of it.         *)

LEMMA ClosingKeeps ==
    ASSUME PayeeTypeOK, PayeeInvariant,
           NEW f \in OfferId, NEW type, NEW outcome, Closes(f, type, outcome)
    PROVE  PayeeInvariant'
<1>1. \A g \in Created : g \in OfferId /\ announced[g] \in Announcement
  BY PayeeAssumption DEF PayeeTypeOK, Created, OfferId
<1>2. \A g \in OfferId : offer'[g] = IF g = f THEN outcome ELSE offer[g]
  BY DEF Closes, PayeeTypeOK
<1>3. offer[f] = "open"
  BY DEF Closes
<1>4. \/ type = "successful" /\ outcome = "paid" /\ f \in published
      \/ type = "canceled" /\ outcome = "canceled"
  BY DEF Closes
<1>5. CreatedAreOffers'
  BY <1>2, <1>3, <1>4 DEF PayeeInvariant, CreatedAreOffers, Created, Closes
<1>6. EventsAreTrue'
  <2> SUFFICES ASSUME NEW e \in events'
               PROVE  /\ e.type = "created" => e.offer \in Created /\ announced[e.offer] = e.announcement
                      /\ e.type = "successful" => offer'[e.offer] = "paid"
                      /\ e.type = "canceled" => offer'[e.offer] = "canceled"
    BY DEF EventsAreTrue, Created, Closes
  <2>1. CASE e \in events
    <3>1. e \in PayeeEvent
      BY <2>1 DEF PayeeTypeOK
    <3>2. /\ e.type = "created" => e.offer \in Created /\ announced[e.offer] = e.announcement
          /\ e.type = "successful" => offer[e.offer] = "paid"
          /\ e.type = "canceled" => offer[e.offer] = "canceled"
      BY <2>1 DEF PayeeInvariant, EventsAreTrue
    <3> QED
      BY <3>1, <3>2, <1>2, <1>3, EventFields
  <2>2. CASE e = SettledEvent(type, f)
    BY <2>2, <1>2, <1>4 DEF SettledEvent
  <2> QED
    BY <2>1, <2>2 DEF Closes
<1>7. PublishedAreRecorded'
  BY <1>1, <1>2, <1>4 DEF PayeeInvariant, PublishedAreRecorded, Closes, Created
<1>8. PublishedOnce'
  BY DEF PayeeInvariant, PublishedOnce, Closes
<1>9. PaidArePublished'
  BY <1>2, <1>4 DEF PayeeInvariant, PaidArePublished, Closes
<1>10. RecordsFollow'
  <2> SUFFICES ASSUME NEW b \in Announcement
               PROVE  LET r == record[b] IN
                        /\ r.status \in {"none", "initiated", "deleted"} => r.offer = 0
                        /\ r.status \in {"created", "paid", "canceled"} => r.offer \in published
                        /\ r.status = "created" =>
                             \/ offer'[r.offer] = "open"
                             \/ offer'[r.offer] = "paid" /\ SettledEvent("successful", r.offer) \in events'
                             \/ offer'[r.offer] = "canceled" /\ SettledEvent("canceled", r.offer) \in events'
                        /\ r.status \in {"paid", "canceled"} => offer'[r.offer] = r.status
    BY DEF RecordsFollow, Closes, SettledEvent
  <2>1. record[b].offer \in published => record[b].offer \in OfferId
    BY DEF PayeeTypeOK
  <2>2. events \subseteq events' /\ SettledEvent(type, f) \in events'
    BY DEF Closes
  <2>3. LET r == record[b] IN
          /\ r.status \in {"none", "initiated", "deleted"} => r.offer = 0
          /\ r.status \in {"created", "paid", "canceled"} => r.offer \in published
          /\ r.status = "created" =>
               \/ offer[r.offer] = "open"
               \/ offer[r.offer] = "paid" /\ SettledEvent("successful", r.offer) \in events
               \/ offer[r.offer] = "canceled" /\ SettledEvent("canceled", r.offer) \in events
          /\ r.status \in {"paid", "canceled"} => offer[r.offer] = r.status
    BY DEF PayeeInvariant, RecordsFollow
  <2>4. CASE record[b].offer = f
    BY <2>1, <2>2, <2>3, <2>4, <1>2, <1>3, <1>4
  <2>5. CASE record[b].offer # f
    BY <2>1, <2>2, <2>3, <2>5, <1>2
  <2> QED
    BY <2>4, <2>5
<1>11. SuperfluousGo'
  <2> SUFFICES ASSUME NEW g \in Created, offer'[g] = "open"
               PROVE  \/ record[announced[g]].offer = g
                      \/ CreatedEvent(g) \in events'
                      \/ CancelMessage(g) \in queue'
    BY DEF SuperfluousGo, CreatedEvent, CancelMessage, Closes, Created
  <2>1. g # f /\ g \in OfferId /\ offer[g] = "open"
    BY <1>1, <1>2, <1>4
  <2> QED
    BY <2>1 DEF PayeeInvariant, SuperfluousGo, Closes
<1>12. AwaitedAreOpen'
  <2>1. ASSUME NEW g \in OfferId, CancelMessage(g) \in queue'
        PROVE  g \in Created /\ record[announced[g]].status # "initiated"
    BY <2>1 DEF PayeeInvariant, AwaitedAreOpen, Closes
  <2>2. ASSUME NEW g \in Created, record[announced[g]].status = "initiated"
        PROVE  offer'[g] = "open"
    <3>1. g # f
      BY <2>2, <1>3, <1>4 DEF PayeeInvariant, AwaitedAreOpen, PublishedAreRecorded, Closes
    <3> QED
      BY <2>2, <3>1, <1>1, <1>2 DEF PayeeInvariant, AwaitedAreOpen
  <2> QED
    BY <2>1, <2>2 DEF AwaitedAreOpen, CancelMessage, Created, Closes
<1>13. AnnouncedFirst'
  BY DEF PayeeInvariant, AnnouncedFirst, CreateMessage, Created, Closes
<1> QED
  BY <1>5, <1>6, <1>7, <1>8, <1>9, <1>10, <1>11, <1>12, <1>13 DEF PayeeInvariant

----------------------------------------------------------------------------
(* The steps of the payee, and a cancellation that comes too late: the     *)
(* offers stay as they are.                                                *)

LEMMA LateCancelKeeps ==
    ASSUME PayeeTypeOK, PayeeInvariant,
           NEW m \in queue, NEW acknowledged \in BOOLEAN, CancelOffer(m, acknowledged),
           offer[m.offer] # "open"
    PROVE  PayeeInvariant'
<1>1. /\ UNCHANGED <<offer, announced, record, published, events>>
      /\ queue' \subseteq queue
      /\ \A x \in queue : x # m => x \in queue'
  BY DEF CancelOffer, Left
<1>2. m \in PayeeMessage /\ m.type = "cancel_formal_offer"
  BY DEF PayeeTypeOK, CancelOffer
<1>3. m.offer \in OfferId /\ m = CancelMessage(m.offer)
  BY <1>2, MessageFields
<1>4. \A g \in OfferId : CancelMessage(g) = m => offer[g] # "open"
  BY <1>3 DEF CancelMessage
<1>5. /\ CreatedAreOffers' /\ EventsAreTrue' /\ PublishedAreRecorded'
      /\ PublishedOnce' /\ PaidArePublished' /\ RecordsFollow'
  BY <1>1 DEF PayeeInvariant, CreatedAreOffers, EventsAreTrue, PublishedAreRecorded,
              PublishedOnce, PaidArePublished, RecordsFollow, Created, SettledEvent
<1>6. \A g \in Created : g \in OfferId
  BY PayeeAssumption DEF PayeeTypeOK, Created, OfferId
<1>7. SuperfluousGo'
  <2> SUFFICES ASSUME NEW g \in Created, offer[g] = "open"
               PROVE  \/ record[announced[g]].offer = g
                      \/ CreatedEvent(g) \in events
                      \/ CancelMessage(g) \in queue'
    BY <1>1 DEF SuperfluousGo, CreatedEvent, CancelMessage, Created
  <2> QED
    BY <1>1, <1>4, <1>6 DEF PayeeInvariant, SuperfluousGo
<1>8. AwaitedAreOpen'
  <2>1. \A g \in OfferId : CancelMessage(g) \in queue' => CancelMessage(g) \in queue
    BY <1>1
  <2> QED
    BY <2>1, <1>1 DEF PayeeInvariant, AwaitedAreOpen, CancelMessage, Created
<1>9. AnnouncedFirst'
  BY <1>1 DEF PayeeInvariant, AnnouncedFirst, CreateMessage, Created
<1> QED
  BY <1>5, <1>7, <1>8, <1>9 DEF PayeeInvariant

LEMMA HearingKeeps ==
    ASSUME PayeeTypeOK, PayeeInvariant,
           NEW e \in events, NEW acknowledged \in BOOLEAN, OnCreated(e, acknowledged)
    PROVE  PayeeInvariant'
<1> DEFINE a == e.announcement
<1>1. e \in PayeeEvent /\ e.type = "created"
  BY DEF PayeeTypeOK, OnCreated
<1>2. /\ e.offer \in OfferId /\ a \in Announcement
      /\ e = [type |-> "created", offer |-> e.offer, announcement |-> a]
  BY <1>1, EventFields
<1>3. e.offer \in Created /\ announced[e.offer] = a /\ e = CreatedEvent(e.offer)
  BY <1>1, <1>2 DEF PayeeInvariant, EventsAreTrue, CreatedEvent
<1>4. UNCHANGED <<offer, announced>>
  BY DEF OnCreated
<1>5. /\ events' \subseteq events
      /\ \A x \in events : x # e => x \in events'
      /\ queue \subseteq queue'
  BY DEF OnCreated, Left
<1>6. \A g \in Created : g \in OfferId /\ announced[g] \in Announcement
  BY PayeeAssumption DEF PayeeTypeOK, Created, OfferId
<1>7. \A f \in OfferId : SettledEvent("successful", f) # e /\ SettledEvent("canceled", f) # e
  BY <1>1 DEF SettledEvent
<1>8. CreatedAreOffers'
  BY <1>4 DEF PayeeInvariant, CreatedAreOffers, Created
<1>9. EventsAreTrue'
  BY <1>4, <1>5 DEF PayeeInvariant, EventsAreTrue, Created
<1>10. \A f, g \in Created : CreatedEvent(f) = CreatedEvent(g) => f = g
  BY DEF CreatedEvent
<1>11. 0 \notin OfferId
  BY PayeeAssumption DEF OfferId
<1>12. CASE AwaitsOffer(a)
  <2>1. /\ record' = [record EXCEPT ![a] = [status |-> "created", offer |-> e.offer]]
        /\ published' = published \cup {e.offer}
        /\ queue' = queue
    BY <1>12 DEF OnCreated, IsSuperfluous
  <2>2. \A b \in Announcement :
          record'[b] = IF b = a THEN [status |-> "created", offer |-> e.offer] ELSE record[b]
    BY <2>1 DEF PayeeTypeOK
  <2>3. record[a].status = "initiated" /\ record[a].offer = 0
    BY <1>2, <1>12 DEF AwaitsOffer, PayeeInvariant, RecordsFollow
  <2>4. offer[e.offer] = "open"
    BY <1>3, <2>3 DEF PayeeInvariant, AwaitedAreOpen
  <2>5. \A f \in published : f \in Created /\ announced[f] # a
    BY <2>3 DEF PayeeInvariant, PublishedAreRecorded
  <2>6. PublishedAreRecorded'
    <3> SUFFICES ASSUME NEW f \in published'
                 PROVE  /\ f \in Created
                        /\ \/ /\ record'[announced[f]].status \in {"created", "paid", "canceled"}
                              /\ record'[announced[f]].offer = f
                           \/ /\ record'[announced[f]].status = "deleted"
                              /\ offer[f] # "open"
      BY <1>4 DEF PublishedAreRecorded, Created
    <3>1. CASE f = e.offer
      BY <3>1, <1>2, <1>3, <2>2
    <3>2. CASE f # e.offer
      BY <3>2, <1>6, <2>1, <2>2, <2>5 DEF PayeeInvariant, PublishedAreRecorded
    <3> QED
      BY <3>1, <3>2
  <2>7. PublishedOnce'
    BY <1>3, <1>4, <2>1, <2>5 DEF PayeeInvariant, PublishedOnce
  <2>8. PaidArePublished'
    BY <1>4, <2>1 DEF PayeeInvariant, PaidArePublished
  <2>9. RecordsFollow'
    <3> SUFFICES ASSUME NEW b \in Announcement
                 PROVE  LET r == record'[b] IN
                          /\ r.status \in {"none", "initiated", "deleted"} => r.offer = 0
                          /\ r.status \in {"created", "paid", "canceled"} => r.offer \in published'
                          /\ r.status = "created" =>
                               \/ offer[r.offer] = "open"
                               \/ offer[r.offer] = "paid" /\ SettledEvent("successful", r.offer) \in events'
                               \/ offer[r.offer] = "canceled" /\ SettledEvent("canceled", r.offer) \in events'
                          /\ r.status \in {"paid", "canceled"} => offer[r.offer] = r.status
      BY <1>4 DEF RecordsFollow, SettledEvent
    <3>1. CASE b = a
      BY <3>1, <2>1, <2>2, <2>4
    <3>2. CASE b # a
      <4>1. record'[b] = record[b]
        BY <3>2, <2>2
      <4>2. record[b].offer \in published => record[b].offer \in OfferId
        BY DEF PayeeTypeOK
      <4> QED
        BY <4>1, <4>2, <1>5, <1>7, <2>1 DEF PayeeInvariant, RecordsFollow
    <3> QED
      BY <3>1, <3>2
  <2>10. SuperfluousGo'
    <3> SUFFICES ASSUME NEW g \in Created, offer[g] = "open"
                 PROVE  \/ record'[announced[g]].offer = g
                        \/ CreatedEvent(g) \in events'
                        \/ CancelMessage(g) \in queue'
      BY <1>4 DEF SuperfluousGo, CreatedEvent, CancelMessage, Created
    <3>1. CASE g = e.offer
      BY <3>1, <1>2, <1>3, <2>2
    <3>2. CASE g # e.offer
      <4>1. CreatedEvent(g) # e
        BY <3>2 DEF CreatedEvent
      <4>2. record[announced[g]].offer = g => announced[g] # a
        BY <1>6, <1>11, <2>3
      <4> QED
        BY <4>1, <4>2, <1>5, <1>6, <2>2 DEF PayeeInvariant, SuperfluousGo
    <3> QED
      BY <3>1, <3>2
  <2>11. AwaitedAreOpen'
    <3>1. ASSUME NEW g \in OfferId, CancelMessage(g) \in queue
          PROVE  g \in Created /\ record'[announced[g]].status # "initiated"
      BY <3>1, <1>6, <2>2 DEF PayeeInvariant, AwaitedAreOpen
    <3>2. ASSUME NEW g \in Created, record'[announced[g]].status = "initiated"
          PROVE  offer[g] = "open"
      BY <3>2, <1>6, <2>2 DEF PayeeInvariant, AwaitedAreOpen
    <3> QED
      BY <3>1, <3>2, <1>4, <2>1 DEF AwaitedAreOpen, CancelMessage, Created
  <2>12. AnnouncedFirst'
    <3>1. \A b \in Announcement : CreateMessage(b) \in queue => record'[b].status # "none"
      BY <2>2 DEF PayeeInvariant, AnnouncedFirst
    <3>2. \A g \in Created : record'[announced[g]].status # "none"
      BY <1>6, <2>2 DEF PayeeInvariant, AnnouncedFirst
    <3> QED
      BY <3>1, <3>2, <1>4, <2>1 DEF AnnouncedFirst, CreateMessage, Created
  <2> QED
    BY <1>8, <1>9, <2>6, <2>7, <2>8, <2>9, <2>10, <2>11, <2>12 DEF PayeeInvariant
<1>13. CASE ~AwaitsOffer(a)
  <2>1. /\ UNCHANGED <<record, published>>
        /\ queue' \subseteq queue \cup {CancelMessage(e.offer)}
        /\ record[a].offer # e.offer => CancelMessage(e.offer) \in queue'
    BY <1>13 DEF OnCreated, IsSuperfluous
  <2>2. PublishedAreRecorded' /\ PublishedOnce' /\ PaidArePublished'
    BY <1>4, <2>1 DEF PayeeInvariant, PublishedAreRecorded, PublishedOnce,
                      PaidArePublished, Created
  <2>3. RecordsFollow'
    <3> SUFFICES ASSUME NEW b \in Announcement
                 PROVE  LET r == record[b] IN
                          /\ r.status \in {"none", "initiated", "deleted"} => r.offer = 0
                          /\ r.status \in {"created", "paid", "canceled"} => r.offer \in published
                          /\ r.status = "created" =>
                               \/ offer[r.offer] = "open"
                               \/ offer[r.offer] = "paid" /\ SettledEvent("successful", r.offer) \in events'
                               \/ offer[r.offer] = "canceled" /\ SettledEvent("canceled", r.offer) \in events'
                          /\ r.status \in {"paid", "canceled"} => offer[r.offer] = r.status
      BY <1>4, <2>1 DEF RecordsFollow, SettledEvent
    <3>1. record[b].offer \in published => record[b].offer \in OfferId
      BY DEF PayeeTypeOK
    <3> QED
      BY <3>1, <1>5, <1>7 DEF PayeeInvariant, RecordsFollow
  <2>4. SuperfluousGo'
    <3> SUFFICES ASSUME NEW g \in Created, offer[g] = "open"
                 PROVE  \/ record[announced[g]].offer = g
                        \/ CreatedEvent(g) \in events'
                        \/ CancelMessage(g) \in queue'
      BY <1>4, <2>1 DEF SuperfluousGo, CreatedEvent, CancelMessage, Created
    <3>1. CASE g = e.offer
      BY <3>1, <1>3, <2>1
    <3>2. CASE g # e.offer
      <4>1. CreatedEvent(g) # e
        BY <3>2 DEF CreatedEvent
      <4> QED
        BY <4>1, <1>5 DEF PayeeInvariant, SuperfluousGo
    <3> QED
      BY <3>1, <3>2
  <2>5. AwaitedAreOpen'
    <3>1. ASSUME NEW g \in OfferId, CancelMessage(g) \in queue'
          PROVE  g \in Created /\ record[announced[g]].status # "initiated"
      <4>1. CASE g = e.offer
        BY <4>1, <1>3, <1>13 DEF AwaitsOffer
      <4>2. CASE g # e.offer
        <5>1. CancelMessage(g) # CancelMessage(e.offer)
          BY <4>2 DEF CancelMessage
        <5> QED
          BY <3>1, <5>1, <2>1 DEF PayeeInvariant, AwaitedAreOpen
      <4> QED
        BY <4>1, <4>2
    <3> QED
      BY <3>1, <1>4, <2>1 DEF PayeeInvariant, AwaitedAreOpen, CancelMessage, Created
  <2>6. AnnouncedFirst'
    <3>1. \A b \in Announcement : CreateMessage(b) # CancelMessage(e.offer)
      BY DEF CreateMessage, CancelMessage
    <3>2. \A b \in Announcement : CreateMessage(b) \in queue' => CreateMessage(b) \in queue
      BY <2>1, <3>1
    <3> QED
      BY <3>2, <1>4, <2>1 DEF PayeeInvariant, AnnouncedFirst, CreateMessage, Created
  <2> QED
    BY <1>8, <1>9, <2>2, <2>3, <2>4, <2>5, <2>6 DEF PayeeInvariant
<1> QED
  BY <1>12, <1>13

LEMMA LearningKeeps ==
    ASSUME PayeeTypeOK, PayeeInvariant,
           NEW e \in events, NEW acknowledged \in BOOLEAN, OnSettled(e, acknowledged)
    PROVE  PayeeInvariant'
<1>1. e \in PayeeEvent /\ e.type \in {"successful", "canceled"}
  BY DEF PayeeTypeOK, OnSettled
<1>2. e.offer \in OfferId /\ e = SettledEvent(e.type, e.offer)
  BY <1>1, EventFields
<1>3. offer[e.offer] = Outcome(e) /\ Outcome(e) \in {"paid", "canceled"}
  BY <1>1 DEF PayeeInvariant, EventsAreTrue, Outcome
<1>4. UNCHANGED <<offer, announced, published, queue>>
  BY DEF OnSettled
<1>5. /\ events' \subseteq events
      /\ \A x \in events : x # e => x \in events'
  BY DEF OnSettled, Left
<1>6. \A g \in Created : g \in OfferId /\ announced[g] \in Announcement
  BY PayeeAssumption DEF PayeeTypeOK, Created, OfferId
<1>7. \A f \in OfferId : CreatedEvent(f) # e
  BY <1>1 DEF CreatedEvent
<1>8. \A b \in Announcement :
        /\ record'[b].offer = record[b].offer
        /\ IF record[b].offer = e.offer /\ record[b].status = "created"
           THEN record'[b].status = Outcome(e)
           ELSE record'[b] = record[b]
  BY DEF OnSettled, PayeeTypeOK
<1>9. CreatedAreOffers'
  BY <1>4 DEF PayeeInvariant, CreatedAreOffers, Created
<1>10. EventsAreTrue'
  BY <1>4, <1>5 DEF PayeeInvariant, EventsAreTrue, Created
<1>11. PublishedAreRecorded'
  <2> SUFFICES ASSUME NEW f \in published
               PROVE  /\ f \in Created
                      /\ \/ /\ record'[announced[f]].status \in {"created", "paid", "canceled"}
                            /\ record'[announced[f]].offer = f
                         \/ /\ record'[announced[f]].status = "deleted"
                            /\ offer[f] # "open"
    BY <1>4 DEF PublishedAreRecorded, Created
  <2> QED
    BY <1>3, <1>6, <1>8 DEF PayeeInvariant, PublishedAreRecorded
<1>12. PublishedOnce' /\ PaidArePublished'
  BY <1>4 DEF PayeeInvariant, PublishedOnce, PaidArePublished
<1>13. RecordsFollow'
  <2> SUFFICES ASSUME NEW b \in Announcement
               PROVE  LET r == record'[b] IN
                        /\ r.status \in {"none", "initiated", "deleted"} => r.offer = 0
                        /\ r.status \in {"created", "paid", "canceled"} => r.offer \in published
                        /\ r.status = "created" =>
                             \/ offer[r.offer] = "open"
                             \/ offer[r.offer] = "paid" /\ SettledEvent("successful", r.offer) \in events'
                             \/ offer[r.offer] = "canceled" /\ SettledEvent("canceled", r.offer) \in events'
                        /\ r.status \in {"paid", "canceled"} => offer[r.offer] = r.status
    BY <1>4 DEF RecordsFollow, SettledEvent
  <2>1. LET r == record[b] IN
          /\ r.status \in {"none", "initiated", "deleted"} => r.offer = 0
          /\ r.status \in {"created", "paid", "canceled"} => r.offer \in published
          /\ r.status = "created" =>
               \/ offer[r.offer] = "open"
               \/ offer[r.offer] = "paid" /\ SettledEvent("successful", r.offer) \in events
               \/ offer[r.offer] = "canceled" /\ SettledEvent("canceled", r.offer) \in events
          /\ r.status \in {"paid", "canceled"} => offer[r.offer] = r.status
    BY DEF PayeeInvariant, RecordsFollow
  <2>2. CASE record[b].offer = e.offer /\ record[b].status = "created"
    BY <2>1, <2>2, <1>3, <1>8
  <2>3. CASE ~(record[b].offer = e.offer /\ record[b].status = "created")
    <3>1. record'[b] = record[b]
      BY <2>3, <1>8
    <3>2. record[b].status = "created" =>
            /\ SettledEvent("successful", record[b].offer) # e
            /\ SettledEvent("canceled", record[b].offer) # e
      BY <2>3, <1>2 DEF SettledEvent
    <3> QED
      BY <2>1, <3>1, <3>2, <1>5
  <2> QED
    BY <2>2, <2>3
<1>14. SuperfluousGo'
  <2> SUFFICES ASSUME NEW g \in Created, offer[g] = "open"
               PROVE  \/ record'[announced[g]].offer = g
                      \/ CreatedEvent(g) \in events'
                      \/ CancelMessage(g) \in queue
    BY <1>4 DEF SuperfluousGo, CreatedEvent, CancelMessage, Created
  <2> QED
    BY <1>5, <1>6, <1>7, <1>8 DEF PayeeInvariant, SuperfluousGo
<1>15. \A b \in Announcement :
         /\ record'[b].status = "none" <=> record[b].status = "none"
         /\ record'[b].status = "initiated" <=> record[b].status = "initiated"
  BY <1>3, <1>8
<1>16. AnnouncedFirst'
  <2>1. \A b \in Announcement : CreateMessage(b) \in queue => record'[b].status # "none"
    BY <1>15 DEF PayeeInvariant, AnnouncedFirst
  <2>2. \A g \in Created : record'[announced[g]].status # "none"
    BY <1>6, <1>15 DEF PayeeInvariant, AnnouncedFirst
  <2> QED
    BY <2>1, <2>2, <1>4 DEF AnnouncedFirst, CreateMessage, Created
<1>17. AwaitedAreOpen'
  <2>1. ASSUME NEW g \in OfferId, CancelMessage(g) \in queue
        PROVE  g \in Created /\ record'[announced[g]].status # "initiated"
    BY <2>1, <1>6, <1>15 DEF PayeeInvariant, AwaitedAreOpen
  <2>2. ASSUME NEW g \in Created, record'[announced[g]].status = "initiated"
        PROVE  offer[g] = "open"
    BY <2>2, <1>6, <1>15 DEF PayeeInvariant, AwaitedAreOpen
  <2> QED
    BY <2>1, <2>2, <1>4 DEF AwaitedAreOpen, CancelMessage, Created
<1> QED
  BY <1>9, <1>10, <1>11, <1>12, <1>13, <1>14, <1>16, <1>17 DEF PayeeInvariant

LEMMA AnnouncingKeeps ==
    ASSUME PayeeTypeOK, PayeeInvariant, NEW a \in Announcement, Announce(a)
    PROVE  PayeeInvariant'
<1>1. /\ UNCHANGED <<offer, announced, published, events>>
      /\ queue' = queue \cup {CreateMessage(a)}
      /\ record[a].status = "none" /\ record[a].offer = 0
  BY DEF Announce, PayeeInvariant, RecordsFollow
<1>2. \A b \in Announcement :
        /\ record'[b].offer = record[b].offer
        /\ IF b = a THEN record'[b].status = "initiated" ELSE record'[b] = record[b]
  BY DEF Announce, PayeeTypeOK
<1>3. \A g \in Created :
        /\ g \in OfferId /\ announced[g] \in Announcement
        /\ record'[announced[g]] = record[announced[g]]
  <2>1. \A g \in Created : g \in OfferId /\ announced[g] \in Announcement
    BY PayeeAssumption DEF PayeeTypeOK, Created, OfferId
  <2> QED
    BY <2>1, <1>1, <1>2 DEF PayeeInvariant, AnnouncedFirst
<1>4. \A g \in OfferId : CancelMessage(g) # CreateMessage(a)
  BY DEF CancelMessage, CreateMessage
<1>5. CreatedAreOffers' /\ EventsAreTrue' /\ PublishedOnce' /\ PaidArePublished'
  BY <1>1 DEF PayeeInvariant, CreatedAreOffers, EventsAreTrue, PublishedOnce,
              PaidArePublished, Created
<1>6. PublishedAreRecorded'
  BY <1>1, <1>3 DEF PayeeInvariant, PublishedAreRecorded, Created
<1>7. RecordsFollow'
  BY <1>1, <1>2 DEF PayeeInvariant, RecordsFollow, SettledEvent
<1>8. SuperfluousGo'
  BY <1>1, <1>3 DEF PayeeInvariant, SuperfluousGo, CreatedEvent, CancelMessage, Created
<1>9. AnnouncedFirst'
  <2>1. \A b \in Announcement : CreateMessage(b) \in queue' => record'[b].status # "none"
    <3>1. \A b \in Announcement : b # a => CreateMessage(b) # CreateMessage(a)
      BY DEF CreateMessage
    <3> QED
      BY <3>1, <1>1, <1>2 DEF PayeeInvariant, AnnouncedFirst
  <2>2. \A g \in Created : record'[announced[g]].status # "none"
    BY <1>3 DEF PayeeInvariant, AnnouncedFirst
  <2> QED
    BY <2>1, <2>2, <1>1 DEF AnnouncedFirst, CreateMessage, Created
<1>10. AwaitedAreOpen'
  <2>1. ASSUME NEW g \in OfferId, CancelMessage(g) \in queue'
        PROVE  g \in Created /\ record'[announced[g]].status # "initiated"
    BY <2>1, <1>1, <1>3, <1>4 DEF PayeeInvariant, AwaitedAreOpen
  <2>2. ASSUME NEW g \in Created, record'[announced[g]].status = "initiated"
        PROVE  offer[g] = "open"
    BY <2>2, <1>3 DEF PayeeInvariant, AwaitedAreOpen
  <2> QED
    BY <2>1, <2>2, <1>1 DEF AwaitedAreOpen, CancelMessage, Created
<1> QED
  BY <1>5, <1>6, <1>7, <1>8, <1>9, <1>10 DEF PayeeInvariant

LEMMA RequestingKeeps ==
    ASSUME PayeeTypeOK, PayeeInvariant, NEW a \in Announcement, RequestCancel(a)
    PROVE  PayeeInvariant'
<1> DEFINE f == record[a].offer
<1>1. /\ UNCHANGED <<offer, announced, record, published, events>>
      /\ queue' = queue \cup {CancelMessage(record[a].offer)}
      /\ record[a].status = "created"
  BY DEF RequestCancel
<1>2. f \in published /\ f \in OfferId
  BY <1>1 DEF PayeeInvariant, RecordsFollow, PayeeTypeOK
<1>3. f \in Created /\ record[announced[f]].status # "initiated"
  BY <1>2 DEF PayeeInvariant, PublishedAreRecorded
<1>4. \A b \in Announcement : CreateMessage(b) # CancelMessage(f)
  BY DEF CancelMessage, CreateMessage
<1>5. /\ CreatedAreOffers' /\ EventsAreTrue' /\ PublishedAreRecorded'
      /\ PublishedOnce' /\ PaidArePublished' /\ RecordsFollow'
  BY <1>1 DEF PayeeInvariant, CreatedAreOffers, EventsAreTrue, PublishedAreRecorded,
              PublishedOnce, PaidArePublished, RecordsFollow, Created, SettledEvent
<1>6. SuperfluousGo'
  BY <1>1 DEF PayeeInvariant, SuperfluousGo, CreatedEvent, CancelMessage, Created
<1>7. AnnouncedFirst'
  <2>1. \A b \in Announcement : CreateMessage(b) \in queue' => CreateMessage(b) \in queue
    BY <1>1, <1>4
  <2> QED
    BY <2>1, <1>1 DEF PayeeInvariant, AnnouncedFirst, CreateMessage, Created
<1>8. AwaitedAreOpen'
  <2>1. ASSUME NEW g \in OfferId, CancelMessage(g) \in queue'
        PROVE  g \in Created /\ record[announced[g]].status # "initiated"
    <3>1. CASE g = f
      BY <3>1, <1>3
    <3>2. CASE g # f
      <4>1. CancelMessage(g) # CancelMessage(f)
        BY <3>2 DEF CancelMessage
      <4> QED
        BY <4>1, <2>1, <1>1 DEF PayeeInvariant, AwaitedAreOpen
    <3> QED
      BY <3>1, <3>2
  <2> QED
    BY <2>1, <1>1 DEF PayeeInvariant, AwaitedAreOpen, CancelMessage, Created
<1> QED
  BY <1>5, <1>6, <1>7, <1>8 DEF PayeeInvariant

LEMMA DeletingKeeps ==
    ASSUME PayeeTypeOK, PayeeInvariant, NEW a \in Announcement, DeleteRecord(a)
    PROVE  PayeeInvariant'
<1>1. /\ UNCHANGED <<offer, announced, published, queue, events>>
      /\ record[a].status \in {"paid", "canceled"}
      /\ offer[record[a].offer] = record[a].status
  BY DEF DeleteRecord, PayeeInvariant, RecordsFollow
<1>2. \A b \in Announcement :
        record'[b] = IF b = a THEN [status |-> "deleted", offer |-> 0] ELSE record[b]
  BY DEF DeleteRecord, PayeeTypeOK
<1>3. \A g \in Created : g \in OfferId /\ announced[g] \in Announcement
  BY PayeeAssumption DEF PayeeTypeOK, Created, OfferId
<1>4. CreatedAreOffers' /\ EventsAreTrue' /\ PublishedOnce' /\ PaidArePublished'
  BY <1>1 DEF PayeeInvariant, CreatedAreOffers, EventsAreTrue, PublishedOnce,
              PaidArePublished, Created
<1>5. PublishedAreRecorded'
  <2> SUFFICES ASSUME NEW f \in published
               PROVE  /\ f \in Created
                      /\ \/ /\ record'[announced[f]].status \in {"created", "paid", "canceled"}
                            /\ record'[announced[f]].offer = f
                         \/ /\ record'[announced[f]].status = "deleted"
                            /\ offer[f] # "open"
    BY <1>1 DEF PublishedAreRecorded, Created
  <2> QED
    BY <1>1, <1>2, <1>3 DEF PayeeInvariant, PublishedAreRecorded
<1>6. RecordsFollow'
  BY <1>1, <1>2 DEF PayeeInvariant, RecordsFollow, SettledEvent
<1>7. SuperfluousGo'
  <2> SUFFICES ASSUME NEW g \in Created, offer[g] = "open"
               PROVE  \/ record'[announced[g]].offer = g
                      \/ CreatedEvent(g) \in events
                      \/ CancelMessage(g) \in queue
    BY <1>1 DEF SuperfluousGo, CreatedEvent, CancelMessage, Created
  <2> QED
    BY <1>1, <1>2, <1>3 DEF PayeeInvariant, SuperfluousGo
<1>8. AnnouncedFirst'
  <2>1. \A b \in Announcement : CreateMessage(b) \in queue => record'[b].status # "none"
    BY <1>2 DEF PayeeInvariant, AnnouncedFirst
  <2>2. \A g \in Created : record'[announced[g]].status # "none"
    BY <1>2, <1>3 DEF PayeeInvariant, AnnouncedFirst
  <2> QED
    BY <2>1, <2>2, <1>1 DEF AnnouncedFirst, CreateMessage, Created
<1>9. AwaitedAreOpen'
  <2>1. ASSUME NEW g \in OfferId, CancelMessage(g) \in queue
        PROVE  g \in Created /\ record'[announced[g]].status # "initiated"
    BY <2>1, <1>2, <1>3 DEF PayeeInvariant, AwaitedAreOpen
  <2>2. ASSUME NEW g \in Created, record'[announced[g]].status = "initiated"
        PROVE  offer[g] = "open"
    BY <2>2, <1>2, <1>3 DEF PayeeInvariant, AwaitedAreOpen
  <2> QED
    BY <2>1, <2>2, <1>1 DEF AwaitedAreOpen, CancelMessage, Created
<1> QED
  BY <1>4, <1>5, <1>6, <1>7, <1>8, <1>9 DEF PayeeInvariant

----------------------------------------------------------------------------
(* The invariant holds.                                                    *)

LEMMA InitPayeeInvariant == PayeeInit => PayeeTypeOK /\ PayeeInvariant
<1> SUFFICES ASSUME PayeeInit
             PROVE  PayeeTypeOK /\ PayeeInvariant
  OBVIOUS
<1>1. announced \in [1..0 -> Announcement] /\ 0 \in 0..MaxOffers /\ Created = {}
  BY PayeeAssumption DEF PayeeInit, Created
<1>2. PayeeTypeOK
  BY <1>1 DEF PayeeInit, PayeeTypeOK, RecordStatus, Service!Init
<1>3. PayeeInvariant
  BY <1>1 DEF PayeeInit, Service!Init, PayeeInvariant, CreatedAreOffers, EventsAreTrue,
              PublishedAreRecorded, PublishedOnce, PaidArePublished, RecordsFollow,
              SuperfluousGo, AnnouncedFirst, AwaitedAreOpen
<1> QED
  BY <1>2, <1>3

LEMMA NextPayeeInvariant ==
    PayeeTypeOK /\ PayeeInvariant /\ [PayeeNext]_payeeVars
      => PayeeTypeOK' /\ PayeeInvariant'
<1> SUFFICES ASSUME PayeeTypeOK, PayeeInvariant, [PayeeNext]_payeeVars
             PROVE  PayeeTypeOK' /\ PayeeInvariant'
  OBVIOUS
<1>1. ASSUME NEW m \in queue, NEW acknowledged \in BOOLEAN, CreateOffer(m, acknowledged)
      PROVE  PayeeTypeOK' /\ PayeeInvariant'
  <2>1. PayeeTypeOK'
    BY <1>1, CreatingTypes
  <2>2. CreatedAreOffers
    BY DEF PayeeInvariant
  <2>3. PICK f \in OfferId, a \in Announcement : Creates(f, a)
    BY <1>1, <2>2, CreateOfferCreates
  <2> QED
    BY <2>1, <2>3, CreatingKeeps
<1>2. ASSUME NEW m \in queue, NEW acknowledged \in BOOLEAN, CancelOffer(m, acknowledged)
      PROVE  PayeeTypeOK' /\ PayeeInvariant'
  <2>1. CASE offer[m.offer] = "open"
    BY <1>2, <2>1, CancelOfferCloses, ClosingTypes, ClosingKeeps
  <2>2. CASE offer[m.offer] # "open"
    <3>1. PayeeTypeOK'
      BY <1>2, <2>2 DEF CancelOffer, Left, PayeeTypeOK
    <3> QED
      BY <1>2, <2>2, <3>1, LateCancelKeeps
  <2> QED
    BY <2>1, <2>2
<1>3. ASSUME NEW k \in OrderKey, PayOffer(k)
      PROVE  PayeeTypeOK' /\ PayeeInvariant'
  BY <1>3, PayOfferCloses, ClosingTypes, ClosingKeeps
<1>4. ASSUME NEW e \in events, NEW acknowledged \in BOOLEAN, OnCreated(e, acknowledged)
      PROVE  PayeeTypeOK' /\ PayeeInvariant'
  BY <1>4, HearingTypes, HearingKeeps
<1>5. ASSUME NEW e \in events, NEW acknowledged \in BOOLEAN, OnSettled(e, acknowledged)
      PROVE  PayeeTypeOK' /\ PayeeInvariant'
  BY <1>5, LearningTypes, LearningKeeps
<1>6. ASSUME NEW a \in Announcement, Announce(a) \/ RequestCancel(a) \/ DeleteRecord(a)
      PROVE  PayeeTypeOK' /\ PayeeInvariant'
  <2>1. PayeeTypeOK'
    BY <1>6, AskingTypes DEF PayeeInvariant
  <2> QED
    BY <1>6, <2>1, AnnouncingKeeps, RequestingKeeps, DeletingKeeps
<1>7. CASE UNCHANGED payeeVars
  BY <1>7 DEF payeeVars, PayeeTypeOK, PayeeInvariant, CreatedAreOffers, EventsAreTrue,
              PublishedAreRecorded, PublishedOnce, PaidArePublished, RecordsFollow,
              SuperfluousGo, AnnouncedFirst, AwaitedAreOpen, Created, CreatedEvent,
              SettledEvent, CreateMessage, CancelMessage
<1> QED
  BY <1>1, <1>2, <1>3, <1>4, <1>5, <1>6, <1>7 DEF PayeeNext

LEMMA PayeeInvariantHolds == PayeeSpec => [](PayeeTypeOK /\ PayeeInvariant)
BY InitPayeeInvariant, NextPayeeInvariant, PTL DEF PayeeSpec

----------------------------------------------------------------------------
(* What the payee can rely on.                                             *)

LEMMA OneIsPaid ==
    ASSUME PayeeTypeOK, PayeeInvariant
    PROVE  PaidOncePerAnnouncement
<1> SUFFICES ASSUME NEW a \in Announcement
             PROVE  Cardinality({f \in OffersOf(a) : offer[f] = "paid"}) <= 1
  BY DEF PaidOncePerAnnouncement
<1>1. PICK paid : paid = {f \in OffersOf(a) : offer[f] = "paid"}
  OBVIOUS
<1>2. \A f, g \in paid : f = g
  <2>1. \A f \in paid : f \in published /\ announced[f] = a
    BY <1>1, PayeeAssumption
    DEF OffersOf, PayeeInvariant, PaidArePublished, PayeeTypeOK, OfferId
  <2> QED
    BY <2>1 DEF PayeeInvariant, PublishedOnce
<1>3. CASE paid = {}
  BY <1>1, <1>3, FS_EmptySet
<1>4. CASE paid # {}
  <2>1. PICK f : paid = {f}
    BY <1>2, <1>4
  <2>2. Cardinality(paid) = 1
    BY <2>1, FS_Singleton
  <2> QED
    BY <1>1, <2>2
<1> QED
  BY <1>3, <1>4

LEMMA QuietRecordsAreTrue ==
    ASSUME PayeeTypeOK, PayeeInvariant
    PROVE  RecordsAreTrue
<1> SUFFICES ASSUME queue = {}, events = {}, NEW a \in Announcement
             PROVE  /\ record[a].status = "created" => offer[record[a].offer] = "open"
                    /\ record[a].status \in {"paid", "canceled"} =>
                         offer[record[a].offer] = record[a].status
                    /\ \A f \in OffersOf(a) : f # record[a].offer => offer[f] # "open"
  BY DEF RecordsAreTrue
<1>1. \A f \in OffersOf(a) : f \in Created /\ announced[f] = a
  BY DEF OffersOf, Created
<1> QED
  BY <1>1 DEF PayeeInvariant, RecordsFollow, SuperfluousGo

\* However often and in which order messages and signals are delivered, the
\* goods of an announcement are sold at most once, provided that the payee
\* keeps the records that the docstring of create_formal_offer asks for.
THEOREM SoldOnce == PayeeSpec => []PaidOncePerAnnouncement
BY PayeeInvariantHolds, OneIsPaid, PTL

\* When all messages and signals have been handled, the records tell what has
\* become of the offers, and no superfluous offer is open.
THEOREM RecordsTellTheTruth == PayeeSpec => []RecordsAreTrue
BY PayeeInvariantHolds, QuietRecordsAreTrue, PTL

=============================================================================
