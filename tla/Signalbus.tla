----------------------------- MODULE Signalbus ------------------------------
(***************************************************************************)
(* The way of a signal out of the database (class Signal of models.py and  *)
(* the flask_signalbus extension it is written for): a transaction inserts *)
(* signal rows, and when it has committed the rows are published to the    *)
(* message broker and deleted.                                             *)
(*                                                                         *)
(* The broker delivers every message at least once and in any order:       *)
(* "queue" is a set, and a message that is handled may stay in it, to be   *)
(* handled again.                                                          *)
(***************************************************************************)
EXTENDS Models

CONSTANT
    MaxRepeats    \* bound on how often a message is delivered or a row is
                  \* published once more

ASSUME RepeatAssumption == MaxRepeats \in Nat

VARIABLES
    outbox,     \* the signal rows that have not been deleted yet
    emitted,    \* history: all signal rows that were ever inserted
    queue,      \* the messages that the broker may still deliver
    repeats     \* how often that has happened

SignalbusInit ==
    /\ outbox = {}
    /\ emitted = {}
    /\ queue = {}
    /\ repeats = 0

\* A step is complete, or it stops before its end and will be repeated.
Completed(complete) ==
    \/ complete /\ UNCHANGED repeats
    \/ ~complete /\ repeats < MaxRepeats /\ repeats' = repeats + 1

Clash(rows) == \E s \in rows, t \in outbox : SamePrimaryKey(s, t)

\* A transaction inserts its signal rows.  When one of them has the primary
\* key of a row that is still there, the whole transaction is rolled back (an
\* IntegrityError), and its message is tried again later.
Emit(rows) ==
    /\ ~Clash(rows)
    /\ outbox' = outbox \cup rows
    /\ emitted' = emitted \cup rows

EmitNothing == UNCHANGED <<outbox, emitted>>

\* The signals that have a queue_name are requests to the accounts service;
\* the others are events for the clients and leave the model here.
RequestType == {"prepare_transfer", "finalize_prepared_transfer"}

EventType ==
    {"created_formal_offer", "canceled_formal_offer", "failed_reciprocal_payment",
     "successful_payment", "failed_payment"}

Pending(type) == {s \in outbox : s.type = type}

\* Publish the pending rows of one model, and delete them.  The process may
\* stop between the two, and then they are published once more (which leaves
\* no trace here when the rows are events).
FlushSignals(type, deleted) ==
    /\ Pending(type) # {}
    /\ queue' = IF type \in RequestType THEN queue \cup Pending(type) ELSE queue
    /\ outbox' = IF deleted THEN outbox \ Pending(type) ELSE outbox
    /\ deleted \/ type \in RequestType
    /\ Completed(deleted)
    /\ UNCHANGED emitted

\* A message has been handled and the messages in "sent" were published
\* meanwhile; it is delivered again unless it has been acknowledged.
Consume(m, sent, acknowledged) ==
    /\ m \in queue
    /\ queue' = (IF acknowledged THEN queue \ {m} ELSE queue) \cup sent
    /\ Completed(acknowledged)
=============================================================================
