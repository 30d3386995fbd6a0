------------------------------ MODULE Accounts ------------------------------
(***************************************************************************)
(* The accounts micro-service, which is not a part of this repository.  It *)
(* is modelled from what the payments service sends to it and handles from *)
(* it: PrepareTransferSignal and FinalizePreparedTransferSignal in         *)
(* models.py, the two on_*_payment_transfer_signal actors in actors.py.    *)
(*                                                                         *)
(* A request to prepare a transfer that is delivered twice may prepare two *)
(* transfers: nothing in the messages tells a repetition from a new        *)
(* request.  The number of a transfer identifies it only together with the *)
(* debtor and the sender.                                                  *)
(***************************************************************************)
EXTENDS Signalbus

VARIABLES
    transfers,    \* all transfers that were ever prepared
    settled       \* how the finalized ones ended

PreparedTransfer ==
    [transfer  : TransferKey,
     request   : Int \ {0},
     recipient : Creditor,
     amount    : Amount]

Settlement == [transfer : TransferKey, committed : Amount \cup {0}]

\* on_prepared_payment_transfer_signal, on_rejected_payment_transfer_signal
PreparedTransferSignal ==
    [type      : {"prepared_transfer"},
     transfer  : TransferKey,
     request   : Int \ {0},
     recipient : Creditor,
     amount    : Amount]

RejectedTransferSignal == [type : {"rejected_transfer"}, request : Int \ {0}]

AccountsInit ==
    /\ transfers = {}
    /\ settled = {}

IsPrepared(key) == \E t \in transfers : t.transfer = key

IsSettled(key) == \E s \in settled : s.transfer = key

\* The transfer gets an unused number; TransferId bounds how many there are.
\* The amount is locked in the account of the sender.
PrepareTransfer(m, acknowledged) ==
    LET key(id) == [debtor |-> m.debtor, sender |-> m.sender, id |-> id]
        unused  == {id \in TransferId : ~IsPrepared(key(id))}
        id      == CHOOSE x \in unused : TRUE
    IN  /\ unused # {}
        /\ transfers' = transfers \cup
             {[transfer |-> key(id), request |-> m.request,
               recipient |-> m.recipient, amount |-> m.amount]}
        /\ Consume(m, {[type |-> "prepared_transfer", transfer |-> key(id),
                        request |-> m.request, recipient |-> m.recipient,
                        amount |-> m.amount]}, acknowledged)
        /\ UNCHANGED settled

\* The sender has not enough money, or may not pay the recipient.
RejectTransfer(m, acknowledged) ==
    /\ Consume(m, {[type |-> "rejected_transfer", request |-> m.request]},
               acknowledged)
    /\ UNCHANGED <<transfers, settled>>

\* Only a transfer that is still prepared can be committed or dismissed.
FinalizePreparedTransfer(m, acknowledged) ==
    /\ settled' = IF IsPrepared(m.transfer) /\ ~IsSettled(m.transfer)
                  THEN settled \cup {[transfer |-> m.transfer,
                                      committed |-> m.committed]}
                  ELSE settled
    /\ Consume(m, {}, acknowledged)
    /\ UNCHANGED transfers
=============================================================================
