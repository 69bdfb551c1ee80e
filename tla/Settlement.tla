----------------------------- MODULE Settlement -----------------------------
(***************************************************************************)
(* What one sales invoice is paid and owed: InvoiceUseCases' status and    *)
(* payment operations, CreditNoteUseCases::create, settle_invoice and      *)
(* mark_overdue.  The invoice stores what it is paid, what it is owed and  *)
(* its status; the payments and the credit notes recorded against it say   *)
(* what those should be, and every operation ends by deriving them again.  *)
(*                                                                         *)
(* As in module Fulfilment a slot is a handler between two database calls; *)
(* the reads a handler begins with are one step.                           *)
(* Amounts are whole units of the smallest coin, of which an invoice line  *)
(* charges one per unit of quantity: the cap a credit note puts on a       *)
(* line's quantity is then a cap on its amount.  A line may also be given  *)
(* away: an invoice of such lines totals zero, a credit note may too.      *)
(***************************************************************************)
EXTENDS Integers, FiniteSets, FiniteSetsExt

CONSTANTS
  Total,       \* the invoice's total
  Payments,    \* ids that payments may take
  Notes,       \* ids that credit notes may take
  NoId,
  Slots,       \* the handlers that may run at the same time
  MayAbandon   \* whether a client may drop its connection mid-request

ASSUME TotalAssumption == Total \in Nat
ASSUME SettlementAbandonAssumption == MayAbandon \in BOOLEAN
ASSUME NoIdAssumption == NoId \notin Payments \cup Notes
ASSUME LedgersAssumption == IsFiniteSet(Payments) /\ IsFiniteSet(Notes)

VARIABLES
  status, amountPaid, amountDue,   \* the invoice's columns
  pastDue,     \* whether due_date < today
  payment,     \* amount of each payments row, zero where there is none
  note,        \* total of each credit_notes row, zero where there is none
  used,        \* ids already taken: none is taken twice
  slot,        \* the handlers in flight
  disturbed    \* history: requests have overlapped, or one was dropped

columns == <<status, amountPaid, amountDue>>
ledgers == <<payment, note, used>>
vars == <<status, amountPaid, amountDue, pastDue, payment, note, used, slot, disturbed>>

Statuses == {"draft", "sent", "paid", "overdue", "cancelled"}
Amounts  == 1..Total   \* of a payment, which is never of nothing
Credits  == 0..Total   \* of a credit note

-----------------------------------------------------------------------------
Transitions ==
  {<<"draft", "sent">>, <<"draft", "cancelled">>, <<"sent", "paid">>,
   <<"sent", "overdue">>, <<"sent", "cancelled">>, <<"overdue", "paid">>,
   <<"overdue", "cancelled">>}

\* Variant: stated negatively, so that a draft takes money.
AcceptsUnlessClosed(st) == st \notin {"paid", "cancelled"}

AcceptsPayment(st) == st \in {"sent", "overdue"}

Creditable(st) == st # "draft"

TotalPaid     == MapThenSumSet(LAMBDA p : payment[p], Payments)
TotalCredited == MapThenSumSet(LAMBDA n : note[n], Notes)

\* Variant: credits are forgotten.
OutstandingBeforeCredits == Total - TotalPaid

\* What record_payment lets a payment cover.
Outstanding == Total - TotalCredited - TotalPaid

\* What create lets a credit note cover.
Uncredited == Total - TotalCredited

Idle == [step |-> "idle", seen |-> "none", id |-> NoId, amount |-> 0,
         paid |-> 0, credited |-> 0]

At(s, step) == slot[s].step = step
Begin(s, locals) ==
  /\ At(s, "idle")
  /\ slot' = [slot EXCEPT ![s] = locals]
  /\ disturbed' = (disturbed \/ \E r \in Slots \ {s} : ~At(r, "idle"))
  /\ UNCHANGED <<columns, pastDue, ledgers>>

Finish(s) == slot' = [slot EXCEPT ![s] = Idle]

-----------------------------------------------------------------------------
(* set_status *)

ReadToSetStatus(s, st) ==
  /\ <<status, st>> \in Transitions
  /\ st = "paid" => TotalPaid >= Total
  /\ Begin(s, [Idle EXCEPT !.step = "status.write", !.seen = st])

WriteStatus(s) ==
  /\ At(s, "status.write")
  /\ status' = slot[s].seen
  /\ Finish(s)
  /\ UNCHANGED <<amountPaid, amountDue, pastDue, ledgers, disturbed>>

-----------------------------------------------------------------------------
(* record_payment, delete_payment and a credit note's create.  What was read *)
(* of the invoice, its status above all, is kept to settle it with.          *)

ReadToPay(s, a) ==
  /\ AcceptsPayment(status)
  /\ a <= Outstanding
  /\ Begin(s, [Idle EXCEPT !.step = "pay.insert", !.seen = status, !.amount = a])

InsertPayment(s, p) ==
  /\ At(s, "pay.insert")
  /\ p \in Payments \ used
  /\ payment' = [payment EXCEPT ![p] = slot[s].amount]
  /\ used' = used \cup {p}
  /\ slot' = [slot EXCEPT ![s].step = "settle.read", ![s].amount = 0]
  /\ UNCHANGED <<columns, pastDue, note, disturbed>>

ReadToUnpay(s, p) ==
  /\ payment[p] > 0
  /\ Begin(s, [Idle EXCEPT !.step = "pay.delete", !.seen = status, !.id = p])

\* Variant: a reversing row instead of a deletion.
ReversePayment(s) ==
  /\ At(s, "pay.delete")
  /\ payment' = [payment EXCEPT ![slot[s].id] = -@]
  /\ slot' = [slot EXCEPT ![s].step = "settle.read", ![s].id = NoId]
  /\ UNCHANGED <<columns, pastDue, note, used, disturbed>>

DeletePayment(s) ==
  /\ At(s, "pay.delete")
  /\ payment' = [payment EXCEPT ![slot[s].id] = 0]
  /\ slot' = [slot EXCEPT ![s].step = "settle.read", ![s].id = NoId]
  /\ UNCHANGED <<columns, pastDue, note, used, disturbed>>

ReadToCredit(s, a) ==
  /\ Creditable(status)
  /\ a <= Uncredited
  /\ Begin(s, [Idle EXCEPT !.step = "note.insert", !.seen = status, !.amount = a])

\* Goods that come back with the note are moved between this call and the
\* next; they touch no row of this module.
InsertNote(s, n) ==
  /\ At(s, "note.insert")
  /\ n \in Notes \ used
  /\ note' = [note EXCEPT ![n] = slot[s].amount]
  /\ used' = used \cup {n}
  /\ slot' = [slot EXCEPT ![s].step = "settle.read", ![s].amount = 0]
  /\ UNCHANGED <<columns, pastDue, payment, disturbed>>

-----------------------------------------------------------------------------
(* settle_invoice *)

ReadPaid(s) ==
  /\ At(s, "settle.read")
  /\ slot' = [slot EXCEPT ![s].step = "settle.read credited", ![s].paid = TotalPaid]
  /\ UNCHANGED <<columns, pastDue, ledgers, disturbed>>

\* Variant: the credits are not read.
SkipCredited(s) ==
  /\ At(s, "settle.read credited")
  /\ slot' = [slot EXCEPT ![s].step = "settle.write"]
  /\ UNCHANGED <<columns, pastDue, ledgers, disturbed>>

ReadCredited(s) ==
  /\ At(s, "settle.read credited")
  /\ slot' = [slot EXCEPT ![s].step = "settle.write", ![s].credited = TotalCredited]
  /\ UNCHANGED <<columns, pastDue, ledgers, disturbed>>

\* Variant: the status is derived from the money alone.
StatusFromMoney(seen, due) ==
  CASE due <= 0 -> "paid"
    [] due > 0 /\ pastDue -> "overdue"
    [] OTHER -> "sent"

StatusOnceDue(seen, due) ==
  CASE seen \in {"cancelled", "draft"} -> seen
    [] seen \notin {"cancelled", "draft"} /\ due <= 0 -> "paid"
    [] seen \notin {"cancelled", "draft"} /\ due > 0 /\ pastDue -> "overdue"
    [] OTHER -> "sent"

WriteSettlement(s) ==
  LET due == Total - slot[s].credited - slot[s].paid IN
  /\ At(s, "settle.write")
  /\ amountPaid' = slot[s].paid
  /\ amountDue' = due
  /\ status' = StatusOnceDue(slot[s].seen, due)
  /\ Finish(s)
  /\ UNCHANGED <<pastDue, ledgers, disturbed>>

-----------------------------------------------------------------------------
(* Time, and the list a reader asks for *)

DayPasses ==
  /\ ~pastDue
  /\ pastDue' = TRUE
  /\ UNCHANGED <<columns, ledgers, slot, disturbed>>

\* Variant: stated negatively, so that a draft grows overdue.
MarkOverdueUnlessClosed ==
  /\ status \in {"draft", "sent"} /\ pastDue
  /\ status' = "overdue"
  /\ UNCHANGED <<amountPaid, amountDue, pastDue, ledgers, slot, disturbed>>

MarkOverdue ==
  /\ status = "sent" /\ pastDue
  /\ status' = "overdue"
  /\ UNCHANGED <<amountPaid, amountDue, pastDue, ledgers, slot, disturbed>>

\* The client goes away and the handler is dropped where it stands.
Abandon(s) ==
  /\ MayAbandon
  /\ ~At(s, "idle")
  /\ Finish(s)
  /\ disturbed' = TRUE
  /\ UNCHANGED <<columns, pastDue, ledgers>>

-----------------------------------------------------------------------------
Init ==
  /\ status = "draft" /\ amountPaid = 0 /\ amountDue = Total
  /\ pastDue = FALSE
  /\ payment = [p \in Payments |-> 0]
  /\ note = [n \in Notes |-> 0]
  /\ used = {}
  /\ slot = [s \in Slots |-> Idle]
  /\ disturbed = FALSE

\* The next call of a request already accepted.
Step(s) ==
  \/ WriteStatus(s)
  \/ \E p \in Payments : InsertPayment(s, p)
  \/ DeletePayment(s)
  \/ \E n \in Notes : InsertNote(s, n)
  \/ ReadPaid(s) \/ ReadCredited(s) \/ WriteSettlement(s)

Request(s) ==
  \/ \E st \in Statuses : ReadToSetStatus(s, st)
  \/ \E a \in Amounts : ReadToPay(s, a)
  \/ \E a \in Credits : ReadToCredit(s, a)
  \/ \E p \in Payments : ReadToUnpay(s, p)

Next ==
  \/ \E s \in Slots : Request(s) \/ Step(s) \/ Abandon(s)
  \/ DayPasses \/ MarkOverdue

Spec == Init /\ [][Next]_vars

-----------------------------------------------------------------------------
(* Correctness *)

\* Columns, ledgers and locals keep the shape their column or variable has.
SettlementTypeOK ==
  /\ status \in Statuses /\ pastDue \in BOOLEAN
  /\ amountPaid \in Nat /\ amountDue \in Int
  /\ payment \in [Payments -> 0..Total]
  /\ note \in [Notes -> 0..Total]
  /\ used \in SUBSET (Payments \cup Notes)
  /\ disturbed \in BOOLEAN
  /\ slot \in [Slots ->
       [step : {"idle", "status.write", "pay.insert", "pay.delete", "note.insert",
                "settle.read", "settle.read credited", "settle.write"},
        seen : Statuses \cup {"none"}, id : Payments \cup {NoId},
        amount : 0..Total, paid : Nat, credited : Nat]]

Quiet == \A s \in Slots : At(s, "idle")

Owed == Total - TotalCredited - TotalPaid

\* While requests come one at a time, each leaves the invoice saying of itself
\* what its payments and credit notes say of it (resettle), and an issued one
\* reading paid exactly when nothing is owed, also when a payment is reversed or
\* the invoice is past due.  Only an invoice of zero nothing was recorded
\* against may read otherwise: issuing does not settle it.
Settled ==
  Quiet /\ ~disturbed =>
    /\ amountPaid = TotalPaid /\ amountDue = Owed
    /\ status \in {"sent", "overdue", "paid"} =>
         (status = "paid" <=> Owed <= 0) \/ (Total = 0 /\ used = {})

\* None takes a payment of more than is owed once credits are counted: a
\* customer is not asked to pay for goods already credited (record_payment).
PaymentsFitTheBalance ==
  [][~disturbed' /\ TotalPaid' > TotalPaid => TotalPaid' <= Total - TotalCredited]_vars

\* Whatever is paid, reversed or credited afterwards, a cancelled invoice
\* stays cancelled.
CancelledIsClosed ==
  [][~disturbed' /\ status = "cancelled" => status' = "cancelled"]_vars

\* A draft owes nothing yet: however requests overlap, no money and no credit
\* stands against it.  In turn, all credit notes together credit no more than
\* was invoiced.
LedgersFitTheInvoice ==
  /\ status = "draft" => TotalPaid = 0 /\ TotalCredited = 0
  /\ ~disturbed => TotalCredited <= Total

\* A draft is issued or cancelled by set_status and by nothing else: settling
\* never does it, from whatever it read of the invoice before.
OnlySetStatusIssues ==
  [][status = "draft" /\ status' # "draft" =>
       \E s \in Slots : At(s, "status.write") /\ ~At(s, "status.write")']_vars

=============================================================================
