-------------------------- MODULE SettlementProofs --------------------------
(***************************************************************************)
(* What is proved of Settlement, for any total, payments, notes and        *)
(* handlers.  First the two ways in which an invoice's status may never    *)
(* change, which depend only on the status a handler has read by the time  *)
(* it writes one.  Then the money: what the columns say, against the sums  *)
(* of the two ledgers.                                                     *)
(***************************************************************************)
EXTENDS Settlement, Sums

-----------------------------------------------------------------------------
(* The invariant *)

\* The steps of a handler that settles the invoice when it is done.
SettlingSteps ==
  {"pay.insert", "pay.delete", "note.insert",
   "settle.read", "settle.read credited", "settle.write"}

Settling(s) == slot[s].step \in SettlingSteps

Locals(step, seen, id, amount, paid, credited) ==
  [step |-> step, seen |-> seen, id |-> id, amount |-> amount, paid |-> paid,
   credited |-> credited]

HandlersTyped ==
  /\ slot = [s \in Slots |-> slot[s]]
  /\ \A s \in Slots :
       /\ slot[s] = Locals(slot[s].step, slot[s].seen, slot[s].id, slot[s].amount,
                           slot[s].paid, slot[s].credited)
       /\ slot[s].step \in {"idle", "status.write"} \cup SettlingSteps

\* Nothing settles a draft: no money and no credit can be put against it, so
\* there is none to take back.  Nobody who settles has read one, and nobody
\* sets the status back to it.
DraftsAreLeftAlone ==
  /\ \A s \in Slots : Settling(s) \/ At(s, "status.write") => slot[s].seen # "draft"
  /\ status = "draft" =>
       /\ payment = [p \in Payments |-> 0]
       /\ \A s \in Slots : ~Settling(s)

\* In turn one handler runs at most, and what runs once the invoice is
\* cancelled has read that it is.
CancelledIsRead ==
  ~disturbed =>
    /\ \A s, r \in Slots : At(s, "idle") \/ At(r, "idle") \/ s = r
    /\ status = "cancelled" =>
         \A s \in Slots : ~At(s, "idle") => Settling(s) /\ slot[s].seen = "cancelled"

StatusInv == HandlersTyped /\ DraftsAreLeftAlone /\ CancelledIsRead

-----------------------------------------------------------------------------
\* Before the first request the invoice is a draft and nothing runs.
LEMMA InitInv == Init => StatusInv
<1> SUFFICES ASSUME Init PROVE StatusInv
  OBVIOUS
<1>1. /\ slot = [s \in Slots |-> Locals("idle", "none", NoId, 0, 0, 0)]
      /\ status = "draft" /\ payment = [p \in Payments |-> 0]
  BY DEF Init, Idle, Locals
<1>2. HandlersTyped
  BY <1>1 DEF HandlersTyped, Locals
<1> QED
  BY <1>1, <1>2
     DEF StatusInv, Locals, DraftsAreLeftAlone, CancelledIsRead, SettlingSteps, Settling, At

\* What a request's locals are when it begins.
LEMMA Beginning ==
  ASSUME NEW step, NEW seen, NEW amount, NEW id
  PROVE  /\ [Idle EXCEPT !.step = step, !.seen = seen]
              = Locals(step, seen, NoId, 0, 0, 0)
         /\ [Idle EXCEPT !.step = step, !.seen = seen, !.amount = amount]
              = Locals(step, seen, NoId, amount, 0, 0)
         /\ [Idle EXCEPT !.step = step, !.seen = seen, !.id = id]
              = Locals(step, seen, id, 0, 0, 0)
<1>1. PICK p : p = [Idle EXCEPT !.step = step]
  OBVIOUS
<1>2. p = Locals(step, "none", NoId, 0, 0, 0)
  BY <1>1 DEF Idle, Locals
<1>3. PICK q : q = [p EXCEPT !.seen = seen]
  OBVIOUS
<1>4. q = Locals(step, seen, NoId, 0, 0, 0)
  BY <1>2, <1>3 DEF Locals
<1>5. /\ [q EXCEPT !.amount = amount] = Locals(step, seen, NoId, amount, 0, 0)
      /\ [q EXCEPT !.id = id] = Locals(step, seen, id, 0, 0, 0)
  BY <1>4 DEF Locals
<1> QED
  BY <1>1, <1>3, <1>4, <1>5, Zenon

\* A handler that begins has read the status; if another runs, the requests
\* are no longer in turn.
LEMMA BeginInv ==
  ASSUME StatusInv, NEW s \in Slots, NEW step, NEW seen, NEW id, NEW amount,
         step \in {"status.write"} \cup SettlingSteps, seen # "draft",
         status = "draft" => step = "status.write",
         status = "cancelled" => step # "status.write" /\ seen = "cancelled",
         Begin(s, Locals(step, seen, id, amount, 0, 0))
  PROVE  StatusInv'
<1>1. slot' = [slot EXCEPT ![s] = Locals(step, seen, id, amount, 0, 0)]
  BY DEF Begin
<1>2. status' = status /\ payment' = payment
  BY DEF Begin, columns, ledgers
<1>3. ~disturbed' => ~disturbed /\ \A r \in Slots \ {s} : At(r, "idle")
  BY DEF Begin
<1>4. HandlersTyped'
  BY <1>1 DEF StatusInv, HandlersTyped, Locals, SettlingSteps
<1>5. DraftsAreLeftAlone'
  BY <1>1, <1>2
     DEF StatusInv, HandlersTyped, DraftsAreLeftAlone, Locals, SettlingSteps, Settling, At
<1>6. CancelledIsRead'
  BY <1>1, <1>2, <1>3
     DEF StatusInv, HandlersTyped, CancelledIsRead, Locals, SettlingSteps, Settling, At
<1> QED
  BY <1>4, <1>5, <1>6 DEF StatusInv

\* Every request reads a status it may go by.
LEMMA RequestInv ==
  ASSUME StatusInv, NEW s \in Slots, Request(s)
  PROVE  StatusInv'
<1>1. ASSUME NEW st \in Statuses, ReadToSetStatus(s, st) PROVE StatusInv'
  <2>1. Begin(s, Locals("status.write", st, NoId, 0, 0, 0))
    BY <1>1, Beginning, Zenon DEF ReadToSetStatus
  <2>2. st # "draft" /\ status # "cancelled"
    BY <1>1 DEF ReadToSetStatus, Transitions
  <2> QED
    BY <2>1, <2>2, BeginInv
<1>2. ASSUME NEW a \in Amounts, ReadToPay(s, a) PROVE StatusInv'
  <2>1. Begin(s, Locals("pay.insert", status, NoId, a, 0, 0))
    BY <1>2, Beginning, Zenon DEF ReadToPay
  <2>2. status \in {"sent", "overdue"}
    BY <1>2 DEF ReadToPay, AcceptsPayment
  <2> QED
    BY <2>1, <2>2, BeginInv DEF SettlingSteps
<1>3. ASSUME NEW a \in Credits, ReadToCredit(s, a) PROVE StatusInv'
  <2>1. Begin(s, Locals("note.insert", status, NoId, a, 0, 0))
    BY <1>3, Beginning, Zenon DEF ReadToCredit
  <2>2. status # "draft"
    BY <1>3 DEF ReadToCredit, Creditable
  <2> QED
    BY <2>1, <2>2, BeginInv DEF SettlingSteps
<1>4. ASSUME NEW p \in Payments, ReadToUnpay(s, p) PROVE StatusInv'
  <2>1. Begin(s, Locals("pay.delete", status, p, 0, 0, 0))
    BY <1>4, Beginning, Zenon DEF ReadToUnpay
  <2>2. status # "draft"
    BY <1>4 DEF ReadToUnpay, StatusInv, DraftsAreLeftAlone
  <2> QED
    BY <2>1, <2>2, BeginInv DEF SettlingSteps
<1> QED
  BY <1>1, <1>2, <1>3, <1>4 DEF Request

\* A handler takes other locals.
Becomes(s, locals) == slot' = [slot EXCEPT ![s] = locals]

\* What a handler that goes on to its next step has changed of its locals.
LEMMA GoingOn ==
  ASSUME HandlersTyped, NEW s \in Slots, NEW step, NEW x
  PROVE  /\ slot' = [slot EXCEPT ![s].step = step, ![s].amount = x] => Becomes(s,
              Locals(step, slot[s].seen, slot[s].id, x, slot[s].paid, slot[s].credited))
         /\ slot' = [slot EXCEPT ![s].step = step, ![s].id = x] => Becomes(s,
              Locals(step, slot[s].seen, x, slot[s].amount, slot[s].paid, slot[s].credited))
         /\ slot' = [slot EXCEPT ![s].step = step, ![s].paid = x] => Becomes(s,
              Locals(step, slot[s].seen, slot[s].id, slot[s].amount, x, slot[s].credited))
         /\ slot' = [slot EXCEPT ![s].step = step, ![s].credited = x] => Becomes(s,
              Locals(step, slot[s].seen, slot[s].id, slot[s].amount, slot[s].paid, x))
<1>1. PICK old : old = slot[s]
  OBVIOUS
<1>2. old = Locals(old.step, old.seen, old.id, old.amount, old.paid, old.credited)
  BY <1>1 DEF HandlersTyped
<1>3. PICK p : p = [old EXCEPT !.step = step]
  OBVIOUS
<1>4. p = Locals(step, old.seen, old.id, old.amount, old.paid, old.credited)
  BY <1>2, <1>3 DEF Locals
<1>5. PICK q : q = [slot EXCEPT ![s] = p]
  OBVIOUS
<1>6. q[s] = p
  BY <1>5 DEF HandlersTyped
<1>7. /\ [p EXCEPT !.amount = x] = Locals(step, old.seen, old.id, x, old.paid, old.credited)
      /\ [p EXCEPT !.id = x] = Locals(step, old.seen, x, old.amount, old.paid, old.credited)
      /\ [p EXCEPT !.paid = x] = Locals(step, old.seen, old.id, old.amount, x, old.credited)
      /\ [p EXCEPT !.credited = x] = Locals(step, old.seen, old.id, old.amount, old.paid, x)
  BY <1>4 DEF Locals
<1>8. ASSUME NEW y PROVE [q EXCEPT ![s] = y] = [slot EXCEPT ![s] = y]
  BY <1>5 DEF HandlersTyped
<1>9. ASSUME slot' = [slot EXCEPT ![s].step = step, ![s].amount = x]
       PROVE  Becomes(s, Locals(step, old.seen, old.id, x, old.paid, old.credited))
  <2>1. slot' = [q EXCEPT ![s] = [p EXCEPT !.amount = x]]
    BY <1>1, <1>3, <1>5, <1>6, <1>9, Zenon
  <2>2. slot' = [q EXCEPT ![s] = Locals(step, old.seen, old.id, x, old.paid, old.credited)]
    BY <1>7, <2>1, Zenon
  <2> QED
    BY <1>8, <2>2, Zenon DEF Becomes
<1>10. ASSUME slot' = [slot EXCEPT ![s].step = step, ![s].id = x]
       PROVE  Becomes(s, Locals(step, old.seen, x, old.amount, old.paid, old.credited))
  <2>1. slot' = [q EXCEPT ![s] = [p EXCEPT !.id = x]]
    BY <1>1, <1>3, <1>5, <1>6, <1>10, Zenon
  <2>2. slot' = [q EXCEPT ![s] = Locals(step, old.seen, x, old.amount, old.paid, old.credited)]
    BY <1>7, <2>1, Zenon
  <2> QED
    BY <1>8, <2>2, Zenon DEF Becomes
<1>11. ASSUME slot' = [slot EXCEPT ![s].step = step, ![s].paid = x]
       PROVE  Becomes(s, Locals(step, old.seen, old.id, old.amount, x, old.credited))
  <2>1. slot' = [q EXCEPT ![s] = [p EXCEPT !.paid = x]]
    BY <1>1, <1>3, <1>5, <1>6, <1>11, Zenon
  <2>2. slot' = [q EXCEPT ![s] = Locals(step, old.seen, old.id, old.amount, x, old.credited)]
    BY <1>7, <2>1, Zenon
  <2> QED
    BY <1>8, <2>2, Zenon DEF Becomes
<1>12. ASSUME slot' = [slot EXCEPT ![s].step = step, ![s].credited = x]
       PROVE  Becomes(s, Locals(step, old.seen, old.id, old.amount, old.paid, x))
  <2>1. slot' = [q EXCEPT ![s] = [p EXCEPT !.credited = x]]
    BY <1>1, <1>3, <1>5, <1>6, <1>12, Zenon
  <2>2. slot' = [q EXCEPT ![s] = Locals(step, old.seen, old.id, old.amount, old.paid, x)]
    BY <1>7, <2>1, Zenon
  <2> QED
    BY <1>8, <2>2, Zenon DEF Becomes
<1> QED
  BY <1>1, <1>9, <1>10, <1>11, <1>12, Zenon

\* A handler that goes on to another of its settling steps has still read what
\* it had read.
LEMMA SettlingGoesOn ==
  ASSUME StatusInv, NEW s \in Slots, Settling(s),
         UNCHANGED <<status, disturbed>>,
         NEW step \in SettlingSteps, NEW id, NEW amount, NEW paid, NEW credited,
         Becomes(s, Locals(step, slot[s].seen, id, amount, paid, credited))
  PROVE  StatusInv'
<1> USE DEF Becomes
<1>1. HandlersTyped'
  BY DEF StatusInv, HandlersTyped, Locals, SettlingSteps
<1>2. status # "draft"
  BY DEF StatusInv, DraftsAreLeftAlone
<1>3. DraftsAreLeftAlone'
  BY <1>2 DEF StatusInv, HandlersTyped, DraftsAreLeftAlone, Locals, SettlingSteps, Settling, At
<1>4. /\ slot'[s].step = step /\ slot'[s].seen = slot[s].seen
      /\ \A r \in Slots \ {s} : slot'[r] = slot[r]
  BY DEF StatusInv, HandlersTyped, Locals
<1>5. ~At(s, "idle") /\ ~At(s, "idle")'
  BY <1>4 DEF Settling, SettlingSteps, At
<1>6. ASSUME ~disturbed' PROVE \A r \in Slots \ {s} : At(r, "idle") /\ At(r, "idle")'
  BY <1>4, <1>5, <1>6 DEF StatusInv, CancelledIsRead, At
<1>7. CancelledIsRead'
  BY <1>4, <1>5, <1>6 DEF StatusInv, CancelledIsRead, Settling, At
<1> QED
  BY <1>1, <1>3, <1>7 DEF StatusInv

\* A handler that ends: one that wrote the status wrote no draft, and left a
\* cancelled invoice as it was unless it does not run in turn.
LEMMA EndInv ==
  ASSUME StatusInv, NEW s \in Slots, Finish(s), payment' = payment,
         status' = "draft" => status = "draft",
         ~disturbed' => ~disturbed /\ ~At(s, "idle")
  PROVE  StatusInv'
<1>1. slot' = [slot EXCEPT ![s] = Locals("idle", "none", NoId, 0, 0, 0)]
  BY DEF Finish, Idle, Locals
<1>2. HandlersTyped'
  BY <1>1 DEF StatusInv, HandlersTyped, Locals, SettlingSteps
<1>3. DraftsAreLeftAlone'
  BY <1>1 DEF StatusInv, HandlersTyped, DraftsAreLeftAlone, Locals, SettlingSteps, Settling, At
<1>4. CancelledIsRead'
  BY <1>1 DEF StatusInv, HandlersTyped, CancelledIsRead, Locals, SettlingSteps, Settling, At
<1> QED
  BY <1>2, <1>3, <1>4 DEF StatusInv

\* A settlement makes a draft only of a draft, and leaves what was cancelled so.
LEMMA StatusKept ==
  ASSUME NEW seen, NEW due
  PROVE  /\ seen # "draft" => StatusOnceDue(seen, due) # "draft"
         /\ seen = "cancelled" => StatusOnceDue(seen, due) = "cancelled"
BY DEF StatusOnceDue

\* The calls of a handler that settles, and what becomes of its locals.
InsertsPayment(s) ==
  /\ At(s, "pay.insert")
  /\ \E p \in Payments \ used :
       payment' = [payment EXCEPT ![p] = slot[s].amount] /\ used' = used \cup {p}
  /\ Becomes(s, Locals("settle.read", slot[s].seen, slot[s].id, 0, slot[s].paid, slot[s].credited))
  /\ UNCHANGED <<status, amountPaid, amountDue, pastDue, note, disturbed>>

DeletesPayment(s) ==
  /\ At(s, "pay.delete")
  /\ payment' = [payment EXCEPT ![slot[s].id] = 0]
  /\ Becomes(s, Locals("settle.read", slot[s].seen, NoId, slot[s].amount, slot[s].paid,
                       slot[s].credited))
  /\ UNCHANGED <<status, amountPaid, amountDue, pastDue, note, used, disturbed>>

InsertsNote(s) ==
  /\ At(s, "note.insert")
  /\ \E n \in Notes \ used :
       note' = [note EXCEPT ![n] = slot[s].amount] /\ used' = used \cup {n}
  /\ Becomes(s, Locals("settle.read", slot[s].seen, slot[s].id, 0, slot[s].paid, slot[s].credited))
  /\ UNCHANGED <<status, amountPaid, amountDue, pastDue, payment, disturbed>>

SeesPaid(s) ==
  /\ At(s, "settle.read")
  /\ Becomes(s, Locals("settle.read credited", slot[s].seen, slot[s].id, slot[s].amount,
                       TotalPaid, slot[s].credited))
  /\ UNCHANGED <<status, amountPaid, amountDue, pastDue, payment, note, used, disturbed>>

SeesCredited(s) ==
  /\ At(s, "settle.read credited")
  /\ Becomes(s, Locals("settle.write", slot[s].seen, slot[s].id, slot[s].amount,
                       slot[s].paid, TotalCredited))
  /\ UNCHANGED <<status, amountPaid, amountDue, pastDue, payment, note, used, disturbed>>

\* A call of a handler under way is one of these.
LEMMA StepForms ==
  ASSUME HandlersTyped, NEW s \in Slots, Step(s)
  PROVE  \/ WriteStatus(s) \/ WriteSettlement(s)
         \/ InsertsPayment(s) \/ DeletesPayment(s) \/ InsertsNote(s)
         \/ SeesPaid(s) \/ SeesCredited(s)
<1>1. ASSUME NEW p \in Payments, InsertPayment(s, p) PROVE InsertsPayment(s)
  BY <1>1, GoingOn, Zenon DEF InsertPayment, InsertsPayment, columns
<1>2. DeletePayment(s) => DeletesPayment(s)
  BY GoingOn, Zenon DEF DeletePayment, DeletesPayment, columns
<1>3. ASSUME NEW n \in Notes, InsertNote(s, n) PROVE InsertsNote(s)
  BY <1>3, GoingOn, Zenon DEF InsertNote, InsertsNote, columns
<1>4. ReadPaid(s) => SeesPaid(s)
  BY GoingOn, Zenon DEF ReadPaid, SeesPaid, columns, ledgers
<1>5. ReadCredited(s) => SeesCredited(s)
  BY GoingOn, Zenon DEF ReadCredited, SeesCredited, columns, ledgers
<1> QED
  BY <1>1, <1>2, <1>3, <1>4, <1>5, Zenon DEF Step

\* A call of a handler under way.
LEMMA StepInv ==
  ASSUME StatusInv, NEW s \in Slots, Step(s)
  PROVE  StatusInv'
<1>1. HandlersTyped
  BY DEF StatusInv
<1>2. CASE WriteStatus(s)
  <2>1. Finish(s) /\ payment' = payment /\ status' # "draft" /\ disturbed' = disturbed
        /\ ~At(s, "idle")
    BY <1>2 DEF WriteStatus, ledgers, StatusInv, DraftsAreLeftAlone, At
  <2> QED
    BY <2>1, EndInv
<1>3. CASE WriteSettlement(s)
  <2>1. slot[s].seen # "draft" /\ ~At(s, "idle")
    BY <1>3 DEF WriteSettlement, StatusInv, DraftsAreLeftAlone, Settling, SettlingSteps, At
  <2>2. Finish(s) /\ payment' = payment /\ status' # "draft" /\ disturbed' = disturbed
    BY <1>3, <2>1, StatusKept DEF WriteSettlement, ledgers
  <2> QED
    BY <2>1, <2>2, EndInv
<1>4. CASE InsertsPayment(s) \/ DeletesPayment(s) \/ InsertsNote(s) \/ SeesPaid(s)
           \/ SeesCredited(s)
  <2>0. UNCHANGED <<status, disturbed>>
    BY <1>4 DEF InsertsPayment, DeletesPayment, InsertsNote, SeesPaid, SeesCredited
  <2>1. \E step \in {"settle.read", "settle.read credited", "settle.write"} :
          \E id, amount, paid, credited :
            Becomes(s, Locals(step, slot[s].seen, id, amount, paid, credited))
    BY <1>4, Zenon DEF InsertsPayment, DeletesPayment, InsertsNote, SeesPaid, SeesCredited
  <2>2. Settling(s)
    BY <1>4, Zenon DEF InsertsPayment, DeletesPayment, InsertsNote, SeesPaid, SeesCredited, SettlingSteps,
                       Settling, At
  <2> QED
    BY <2>0, <2>1, <2>2, SettlingGoesOn DEF SettlingSteps
<1> QED
  BY <1>1, <1>2, <1>3, <1>4, StepForms

\* Any step of the invoice's life.
LEMMA NextInv == StatusInv /\ [Next]_vars => StatusInv'
<1> SUFFICES ASSUME StatusInv, [Next]_vars PROVE StatusInv'
  OBVIOUS
<1>1. ASSUME NEW s \in Slots, Request(s) PROVE StatusInv'
  BY <1>1, RequestInv
<1>2. ASSUME NEW s \in Slots, Step(s) PROVE StatusInv'
  BY <1>2, StepInv
<1>3. ASSUME NEW s \in Slots, Abandon(s) PROVE StatusInv'
  <2>1. Finish(s) /\ UNCHANGED <<status, payment>> /\ disturbed'
    BY <1>3 DEF Abandon, columns, ledgers
  <2> QED
    BY <2>1, EndInv
<1>4. CASE DayPasses \/ UNCHANGED vars
  BY <1>4 DEF DayPasses, vars, columns, ledgers, StatusInv, HandlersTyped, DraftsAreLeftAlone,
              CancelledIsRead, Settling, At
<1>5. CASE MarkOverdue
  BY <1>5 DEF MarkOverdue, ledgers, StatusInv, HandlersTyped, DraftsAreLeftAlone,
              CancelledIsRead, Settling, At
<1> QED
  BY <1>1, <1>2, <1>3, <1>4, <1>5 DEF Next

\* The invariant of every behaviour.
LEMMA InvAlways == Spec => []StatusInv
BY InitInv, NextInv, PTL DEF Spec

\* What may change the status at all.
LEMMA WhoWritesStatus ==
  ASSUME Next, status' # status
  PROVE  \/ \E s \in Slots : WriteStatus(s) \/ WriteSettlement(s)
         \/ MarkOverdue
<1>1. ASSUME NEW s \in Slots, NEW locals, Begin(s, locals) PROVE status' = status
  BY <1>1, Zenon DEF Begin, columns
<1>2. ASSUME NEW s \in Slots, Request(s) PROVE status' = status
  BY <1>1, <1>2, Zenon DEF Request, ReadToSetStatus, ReadToPay, ReadToCredit, ReadToUnpay
<1>3. ASSUME NEW s \in Slots, Step(s) PROVE WriteStatus(s) \/ WriteSettlement(s) \/ status' = status
  BY <1>3, Zenon
     DEF Step, InsertPayment, DeletePayment, InsertNote, ReadPaid, ReadCredited, columns
<1>4. ASSUME NEW s \in Slots, Abandon(s) PROVE status' = status
  BY <1>4, Zenon DEF Abandon, columns
<1>5. DayPasses => status' = status
  BY Zenon DEF DayPasses, columns
<1> QED
  BY <1>2, <1>3, <1>4, <1>5, Zenon DEF Next

-----------------------------------------------------------------------------
(* The properties *)

\* A draft is issued or cancelled by set_status and by nothing else, however
\* payments, reversals, credit notes and their settlements overlap or are
\* dropped: settle_invoice never issues a draft behind its owner's back.
THEOREM DraftsAreIssuedBySetStatus == Spec => OnlySetStatusIssues
<1>1. ASSUME StatusInv, Next, status = "draft", status' # "draft"
      PROVE  \E s \in Slots : At(s, "status.write") /\ ~At(s, "status.write")'
  <2>1. ~MarkOverdue
    BY <1>1 DEF MarkOverdue
  <2>2. ASSUME NEW s \in Slots PROVE ~WriteSettlement(s)
    BY <1>1 DEF WriteSettlement, StatusInv, DraftsAreLeftAlone, Settling, SettlingSteps, At
  <2>3. PICK s \in Slots : WriteStatus(s)
    BY <1>1, <2>1, <2>2, WhoWritesStatus
  <2>4. At(s, "status.write") /\ slot' = [slot EXCEPT ![s] = Locals("idle", "none", NoId, 0, 0, 0)]
    BY <2>3 DEF WriteStatus, Finish, Idle, Locals
  <2>5. ~At(s, "status.write")'
    BY <1>1, <2>4 DEF StatusInv, HandlersTyped, Locals, At
  <2> QED
    BY <2>4, <2>5
<1>2. ASSUME StatusInv, [Next]_vars
      PROVE  [status = "draft" /\ status' # "draft" =>
                \E s \in Slots : At(s, "status.write") /\ ~At(s, "status.write")']_vars
  BY <1>1, <1>2
<1> QED
  BY <1>2, InvAlways, PTL DEF Spec, OnlySetStatusIssues

\* In turn, whatever is paid back or credited after an invoice was cancelled,
\* the settlement leaves it cancelled.
THEOREM CancelledStays == Spec => CancelledIsClosed
<1>1. ASSUME StatusInv, Next, ~disturbed', status = "cancelled", status' # "cancelled"
      PROVE  FALSE
  <2>1. ~MarkOverdue
    BY <1>1 DEF MarkOverdue
  <2>2. PICK s \in Slots : WriteStatus(s) \/ WriteSettlement(s)
    BY <1>1, <2>1, WhoWritesStatus
  <2>3. ~disturbed /\ ~At(s, "idle")
    BY <1>1, <2>2 DEF WriteStatus, WriteSettlement, At
  <2>4. Settling(s) /\ slot[s].seen = "cancelled"
    BY <1>1, <2>3 DEF StatusInv, CancelledIsRead
  <2>5. WriteSettlement(s)
    BY <2>2, <2>4 DEF WriteStatus, Settling, SettlingSteps, At
  <2> QED
    BY <1>1, <2>4, <2>5, StatusKept DEF WriteSettlement
<1>2. ASSUME StatusInv, [Next]_vars
      PROVE  [~disturbed' /\ status = "cancelled" => status' = "cancelled"]_vars
  BY <1>1, <1>2
<1> QED
  BY <1>2, InvAlways, PTL DEF Spec, CancelledIsClosed

-----------------------------------------------------------------------------
(* Money: the sums and the columns *)

SettleSteps == {"settle.read", "settle.read credited", "settle.write"}

\* What columns, ledgers and locals are made of.
MoneyTyped ==
  /\ status \in Statuses /\ pastDue \in BOOLEAN /\ disturbed \in BOOLEAN
  /\ amountPaid \in Nat /\ amountDue \in Int
  /\ payment \in [Payments -> 0..Total] /\ note \in [Notes -> 0..Total]
  /\ used \in SUBSET (Payments \cup Notes)
  /\ \A s \in Slots :
       /\ slot[s].seen \in Statuses \cup {"none"} /\ slot[s].id \in Payments \cup {NoId}
       /\ slot[s].amount \in 0..Total /\ slot[s].paid \in Nat /\ slot[s].credited \in Nat
       /\ At(s, "pay.delete") => slot[s].id \in Payments
       /\ At(s, "status.write") \/ Settling(s) => slot[s].seen \in Statuses

\* A draft has no ledger, and never had one.
DraftsOweNothing ==
  status = "draft" =>
    /\ payment = [p \in Payments |-> 0] /\ note = [n \in Notes |-> 0]
    /\ used = {}

\* The columns say what the ledgers say, and so does the status, but for that of
\* an invoice of zero that was never settled.
StatusFits(st) ==
  st \in {"sent", "overdue", "paid"} =>
    (st = "paid" <=> Owed <= 0) \/ (Total = 0 /\ used = {})
Exact == amountPaid = TotalPaid /\ amountDue = Owed /\ StatusFits(status)

\* In turn the columns are behind by what is being settled, and a handler knows
\* the sums it has read.
SettledInTurn ==
  ~disturbed =>
    /\ TotalCredited <= Total
    /\ (\A s \in Slots : slot[s].step \notin SettleSteps) => Exact
    /\ \A s \in Slots :
         /\ At(s, "pay.insert") => slot[s].amount <= Outstanding
         /\ At(s, "note.insert") => slot[s].amount <= Uncredited
         /\ At(s, "status.write") => StatusFits(slot[s].seen)
         /\ slot[s].step \in {"settle.read credited", "settle.write"} => slot[s].paid = TotalPaid
         /\ At(s, "settle.write") => slot[s].credited = TotalCredited

MoneyInv == MoneyTyped /\ DraftsOweNothing /\ SettledInTurn

\* What the ledgers add up to, and what a row makes of it.
LEMMA LedgerSums ==
  ASSUME MoneyTyped
  PROVE  /\ TotalPaid \in Nat /\ TotalCredited \in Nat
         /\ payment = [p \in Payments |-> 0] => TotalPaid = 0
         /\ note = [n \in Notes |-> 0] => TotalCredited = 0
         /\ \A p \in Payments : payment[p] <= TotalPaid
         /\ \A n \in Notes : note[n] <= TotalCredited
         /\ Total \in Nat
<1>1. /\ payment \in [Payments -> Nat] /\ note \in [Notes -> Nat] /\ Total \in Nat
  BY TotalAssumption DEF MoneyTyped
<1>2. TotalPaid = SumOf(payment, Payments) /\ TotalCredited = SumOf(note, Notes)
  BY DEF TotalPaid, TotalCredited, SumOf
<1>3. /\ SumOf(payment, Payments) \in Nat
      /\ \A p \in Payments : payment[p] <= SumOf(payment, Payments)
      /\ (\A p \in Payments : payment[p] = 0) => SumOf(payment, Payments) = 0
  BY <1>1, SumNatural, LedgersAssumption
<1>4. /\ SumOf(note, Notes) \in Nat
      /\ \A n \in Notes : note[n] <= SumOf(note, Notes)
      /\ (\A n \in Notes : note[n] = 0) => SumOf(note, Notes) = 0
  BY <1>1, SumNatural, LedgersAssumption
<1> QED
  BY <1>1, <1>2, <1>3, <1>4

\* A payment that is written changes what is paid by what it changes.
LEMMA PaymentWritten ==
  ASSUME MoneyTyped, NEW p \in Payments, NEW n \in 0..Total,
         payment' = [payment EXCEPT ![p] = n]
  PROVE  /\ payment' \in [Payments -> 0..Total]
         /\ TotalPaid' = TotalPaid - payment[p] + n /\ payment[p] \in Nat
<1>1. /\ payment \in [Payments -> 0..Total] /\ payment' \in [Payments -> 0..Total]
      /\ payment'[p] = n /\ \A q \in Payments \ {p} : payment'[q] = payment[q]
  BY DEF MoneyTyped
<1>2. SumOf(payment', Payments) = SumOf(payment, Payments) - payment[p] + payment'[p]
  <2> DEFINE before == payment after == payment'
  <2>1. \A q \in Payments : before[q] \in Int /\ after[q] \in Int
    BY <1>1, TotalAssumption
  <2>2. Payments \subseteq DOMAIN before /\ Payments \subseteq DOMAIN after
    BY <1>1
  <2>3. \A q \in Payments \ {p} : after[q] = before[q]
    BY <1>1
  <2> HIDE DEF before, after
  <2>4. SumOf(after, Payments) = SumOf(before, Payments) - before[p] + after[p]
    BY <2>1, <2>2, <2>3, SumChanged, LedgersAssumption
  <2> QED
    BY <2>4 DEF before, after
<1>3. TotalPaid = SumOf(payment, Payments) /\ TotalPaid' = SumOf(payment', Payments)
  BY DEF TotalPaid, SumOf, MapThenSumSet, MapThenFoldSet
<1> QED
  BY <1>1, <1>2, <1>3, TotalAssumption

\* So does a credit note.
LEMMA NoteWritten ==
  ASSUME MoneyTyped, NEW p \in Notes, NEW n \in 0..Total,
         note' = [note EXCEPT ![p] = n]
  PROVE  /\ note' \in [Notes -> 0..Total]
         /\ TotalCredited' = TotalCredited - note[p] + n /\ note[p] \in Nat
<1>1. /\ note \in [Notes -> 0..Total] /\ note' \in [Notes -> 0..Total]
      /\ note'[p] = n /\ \A q \in Notes \ {p} : note'[q] = note[q]
  BY DEF MoneyTyped
<1>2. SumOf(note', Notes) = SumOf(note, Notes) - note[p] + note'[p]
  <2> DEFINE before == note after == note'
  <2>1. \A q \in Notes : before[q] \in Int /\ after[q] \in Int
    BY <1>1, TotalAssumption
  <2>2. Notes \subseteq DOMAIN before /\ Notes \subseteq DOMAIN after
    BY <1>1
  <2>3. \A q \in Notes \ {p} : after[q] = before[q]
    BY <1>1
  <2> HIDE DEF before, after
  <2>4. SumOf(after, Notes) = SumOf(before, Notes) - before[p] + after[p]
    BY <2>1, <2>2, <2>3, SumChanged, LedgersAssumption
  <2> QED
    BY <2>4 DEF before, after
<1>3. TotalCredited = SumOf(note, Notes) /\ TotalCredited' = SumOf(note', Notes)
  BY DEF TotalCredited, SumOf, MapThenSumSet, MapThenFoldSet
<1> QED
  BY <1>1, <1>2, <1>3, TotalAssumption

\* Before the first request nothing is paid or credited.
LEMMA MoneyInitially == Init => MoneyInv
<1> SUFFICES ASSUME Init PROVE MoneyInv
  OBVIOUS
<1>1. /\ slot = [s \in Slots |-> Locals("idle", "none", NoId, 0, 0, 0)]
      /\ status = "draft" /\ payment = [p \in Payments |-> 0] /\ note = [n \in Notes |-> 0]
      /\ amountPaid = 0 /\ amountDue = Total /\ pastDue = FALSE /\ used = {} /\ disturbed = FALSE
  BY DEF Init, Idle, Locals
<1>2. MoneyTyped
  <2>1. \A s \in Slots : slot[s] = Locals("idle", "none", NoId, 0, 0, 0)
    BY <1>1
  <2>2. \A s \in Slots :
          /\ slot[s].seen = "none" /\ slot[s].id = NoId /\ slot[s].step = "idle"
          /\ slot[s].amount = 0 /\ slot[s].paid = 0 /\ slot[s].credited = 0
    BY <2>1 DEF Locals
  <2>3. 0 \in 0..Total
    BY TotalAssumption
  <2>4. /\ status \in Statuses /\ pastDue \in BOOLEAN /\ disturbed \in BOOLEAN
        /\ amountPaid \in Nat /\ amountDue \in Int /\ used \in SUBSET (Payments \cup Notes)
    <3>1. pastDue \in BOOLEAN /\ disturbed \in BOOLEAN
      BY <1>1
    <3>2. status \in Statuses /\ amountPaid \in Nat /\ used \in SUBSET (Payments \cup Notes)
      BY <1>1 DEF Statuses
    <3>3. amountDue \in Int
      BY <1>1, TotalAssumption
    <3> QED
      BY <3>1, <3>2, <3>3
  <2>5. payment \in [Payments -> 0..Total] /\ note \in [Notes -> 0..Total]
    BY <1>1, <2>3
  <2>6. ASSUME NEW s \in Slots
        PROVE  /\ slot[s].seen \in Statuses \cup {"none"} /\ slot[s].id \in Payments \cup {NoId}
               /\ slot[s].amount \in 0..Total /\ slot[s].paid \in Nat /\ slot[s].credited \in Nat
               /\ ~At(s, "pay.delete") /\ ~At(s, "status.write") /\ ~Settling(s)
    <3>1. ~At(s, "pay.delete") /\ ~At(s, "status.write") /\ ~Settling(s)
      BY <2>2 DEF At, Settling, SettlingSteps
    <3>2. slot[s].amount \in 0..Total /\ slot[s].paid \in Nat /\ slot[s].credited \in Nat
      BY <2>2, <2>3
    <3>3. slot[s].seen \in Statuses \cup {"none"} /\ slot[s].id \in Payments \cup {NoId}
      BY <2>2
    <3> QED
      BY <3>1, <3>2, <3>3
  <2> QED
    BY <2>4, <2>5, <2>6 DEF MoneyTyped
<1>3. TotalPaid = 0 /\ TotalCredited = 0
  BY <1>1, <1>2, LedgerSums
<1>4. Exact /\ TotalCredited <= Total
  BY <1>1, <1>3, TotalAssumption DEF Exact, Owed, StatusFits
<1>5. \A s \in Slots : slot[s].step = "idle"
  BY <1>1 DEF Locals
<1> QED
  BY <1>1, <1>2, <1>4, <1>5 DEF MoneyInv, DraftsOweNothing, SettledInTurn, At

\* A handler that takes other locals takes those, and nobody else does.
LEMMA Became ==
  ASSUME HandlersTyped, NEW s \in Slots, NEW step, NEW seen, NEW id, NEW amount, NEW paid,
         NEW credited, Becomes(s, Locals(step, seen, id, amount, paid, credited))
  PROVE  /\ slot'[s].step = step /\ slot'[s].seen = seen /\ slot'[s].id = id
         /\ slot'[s].amount = amount /\ slot'[s].paid = paid /\ slot'[s].credited = credited
         /\ \A r \in Slots \ {s} : slot'[r] = slot[r]
BY DEF HandlersTyped, Becomes, Locals

\* What a request may begin with.
Begins(s, step, seen, id, amount) ==
  /\ Begin(s, Locals(step, seen, id, amount, 0, 0))
  /\ \/ /\ step = "status.write" /\ <<status, seen>> \in Transitions
        /\ seen = "paid" => TotalPaid >= Total
     \/ step = "pay.insert" /\ status \in {"sent", "overdue"} /\ amount <= Outstanding
     \/ step = "pay.delete" /\ payment[id] > 0 /\ id \in Payments
     \/ step = "note.insert" /\ status # "draft" /\ amount <= Uncredited
  /\ step = "status.write" \/ seen = status
  /\ amount \in 0..Total /\ id \in Payments \cup {NoId}

\* Every request begins with one of these.
LEMMA RequestForms ==
  ASSUME NEW s \in Slots, Request(s)
  PROVE  \E step, seen, id, amount : Begins(s, step, seen, id, amount)
<1>1. ASSUME NEW st \in Statuses, ReadToSetStatus(s, st)
      PROVE  Begins(s, "status.write", st, NoId, 0)
  <2>1. Begin(s, Locals("status.write", st, NoId, 0, 0, 0))
    BY <1>1, Beginning, Zenon DEF ReadToSetStatus
  <2>2. <<status, st>> \in Transitions /\ (st = "paid" => TotalPaid >= Total)
    BY <1>1, Zenon DEF ReadToSetStatus
  <2>3. 0 \in 0..Total
    BY TotalAssumption
  <2> QED
    BY <2>1, <2>2, <2>3 DEF Begins
<1>2. ASSUME NEW a \in Amounts, ReadToPay(s, a) PROVE Begins(s, "pay.insert", status, NoId, a)
  <2>1. Begin(s, Locals("pay.insert", status, NoId, a, 0, 0))
    BY <1>2, Beginning, Zenon DEF ReadToPay
  <2>2. status \in {"sent", "overdue"} /\ a <= Outstanding
    BY <1>2 DEF ReadToPay, AcceptsPayment
  <2>3. a \in 0..Total
    BY TotalAssumption DEF Amounts
  <2> QED
    BY <2>1, <2>2, <2>3 DEF Begins
<1>3. ASSUME NEW a \in Credits, ReadToCredit(s, a) PROVE Begins(s, "note.insert", status, NoId, a)
  <2>1. Begin(s, Locals("note.insert", status, NoId, a, 0, 0))
    BY <1>3, Beginning, Zenon DEF ReadToCredit
  <2>2. status # "draft" /\ a <= Uncredited
    BY <1>3 DEF ReadToCredit, Creditable
  <2>3. a \in 0..Total
    BY DEF Credits
  <2> QED
    BY <2>1, <2>2, <2>3 DEF Begins
<1>4. ASSUME NEW p \in Payments, ReadToUnpay(s, p) PROVE Begins(s, "pay.delete", status, p, 0)
  <2>1. Begin(s, Locals("pay.delete", status, p, 0, 0, 0))
    BY <1>4, Beginning, Zenon DEF ReadToUnpay
  <2>2. payment[p] > 0
    BY <1>4 DEF ReadToUnpay
  <2>3. 0 \in 0..Total
    BY TotalAssumption
  <2> QED
    BY <2>1, <2>2, <2>3 DEF Begins
<1> QED
  BY <1>1, <1>2, <1>3, <1>4, Zenon DEF Request

\* A request that begins in turn finds the columns exact.
LEMMA RequestMoney ==
  ASSUME StatusInv, MoneyInv, NEW s \in Slots, Request(s)
  PROVE  MoneyInv'
<1>1. PICK step, seen, id, amount : Begins(s, step, seen, id, amount)
  BY RequestForms
<1>2. Becomes(s, Locals(step, seen, id, amount, 0, 0)) /\ At(s, "idle")
  BY <1>1 DEF Begins, Begin, Becomes
<1>3. UNCHANGED <<status, amountPaid, amountDue, pastDue, payment, note, used>>
  BY <1>1 DEF Begins, Begin, columns, ledgers
<1>4. /\ disturbed' \in BOOLEAN
      /\ ~disturbed' => ~disturbed /\ \A r \in Slots \ {s} : At(r, "idle")
  BY <1>1 DEF Begins, Begin, MoneyInv, MoneyTyped
<1>5. /\ slot'[s].step = step /\ slot'[s].seen = seen /\ slot'[s].id = id
      /\ slot'[s].amount = amount /\ slot'[s].paid = 0 /\ slot'[s].credited = 0
      /\ \A r \in Slots \ {s} : slot'[r] = slot[r]
  BY <1>2, Became DEF StatusInv
<1>6. TotalPaid' = TotalPaid /\ TotalCredited' = TotalCredited
  BY <1>3 DEF TotalPaid, TotalCredited, MapThenSumSet, MapThenFoldSet
<1>7. /\ step \in {"status.write", "pay.insert", "pay.delete", "note.insert"}
      /\ seen \in Statuses /\ amount \in 0..Total /\ id \in Payments \cup {NoId}
      /\ step = "pay.delete" => id \in Payments
  BY <1>1 DEF Begins, Transitions, Statuses, MoneyInv, MoneyTyped
<1>8. MoneyTyped'
  <2>1. ASSUME NEW r \in Slots
        PROVE  /\ slot'[r].seen \in Statuses \cup {"none"} /\ slot'[r].id \in Payments \cup {NoId}
               /\ slot'[r].amount \in 0..Total /\ slot'[r].paid \in Nat /\ slot'[r].credited \in Nat
               /\ At(r, "pay.delete")' => slot'[r].id \in Payments
               /\ At(r, "status.write")' \/ Settling(r)' => slot'[r].seen \in Statuses
    <3>1. CASE r = s
      BY <1>5, <1>7, <3>1 DEF At
    <3>2. CASE r # s
      BY <1>5, <3>2 DEF MoneyInv, MoneyTyped, At, Settling
    <3> QED
      BY <3>1, <3>2
  <2> QED
    BY <1>3, <1>4, <2>1 DEF MoneyInv, MoneyTyped
<1>9. SettledInTurn'
  <2> SUFFICES ASSUME ~disturbed' PROVE SettledInTurn'
    BY DEF SettledInTurn
  <2>1. ~disturbed /\ \A r \in Slots : slot[r].step = "idle"
    BY <1>2, <1>4 DEF At
  <2>2. Exact /\ TotalCredited <= Total
    BY <2>1 DEF MoneyInv, SettledInTurn, SettleSteps
  <2>3. Exact' /\ TotalCredited' <= Total /\ Outstanding' = Outstanding /\ Uncredited' = Uncredited
        /\ Owed' = Owed
    BY <1>3, <1>6, <2>2 DEF Exact, StatusFits, Owed, Outstanding, Uncredited
  <2>4. step = "pay.insert" => amount <= Outstanding
    BY <1>1 DEF Begins
  <2>5. step = "note.insert" => amount <= Uncredited
    BY <1>1 DEF Begins
  <2>6. step = "status.write" => StatusFits(seen)
    <3> SUFFICES ASSUME step = "status.write", seen \in {"sent", "overdue", "paid"}
                 PROVE  (seen = "paid" <=> Owed <= 0) \/ (Total = 0 /\ used = {})
      BY DEF StatusFits
    <3>1. <<status, seen>> \in Transitions /\ (seen = "paid" => TotalPaid >= Total)
      BY <1>1 DEF Begins
    <3>2. TotalPaid \in Nat /\ TotalCredited \in Nat /\ Total \in Nat
      BY LedgerSums DEF MoneyInv
    <3>3. status = "draft" => TotalPaid = 0 /\ TotalCredited = 0 /\ used = {}
      BY LedgerSums DEF MoneyInv, DraftsOweNothing
    <3>4. CASE seen = "paid"
      BY <3>1, <3>2, <3>4 DEF Owed
    <3>5. CASE seen # "paid" /\ status = "draft"
      BY <3>2, <3>3, <3>5 DEF Owed
    <3>6. CASE seen # "paid" /\ status # "draft"
      <4>1. status = "sent"
        BY <3>1, <3>6 DEF Transitions
      <4> QED
        BY <2>2, <3>6, <4>1 DEF Exact, StatusFits
    <3> QED
      BY <3>4, <3>5, <3>6
  <2>7. ASSUME NEW r \in Slots
        PROVE  /\ At(r, "pay.insert")' => slot'[r].amount <= Outstanding'
               /\ At(r, "note.insert")' => slot'[r].amount <= Uncredited'
               /\ At(r, "status.write")' => StatusFits(slot[r].seen)'
               /\ slot'[r].step \in {"idle", "status.write", "pay.insert", "pay.delete", "note.insert"}
    <3>1. CASE r = s
      BY <1>3, <1>5, <1>7, <2>3, <2>4, <2>5, <2>6, <3>1 DEF At, StatusFits
    <3>2. CASE r # s
      BY <1>5, <2>1, <3>2 DEF At
    <3> QED
      BY <3>1, <3>2
  <2> QED
    BY <2>3, <2>7 DEF SettledInTurn, At
<1>10. DraftsOweNothing'
  BY <1>3 DEF MoneyInv, DraftsOweNothing
<1> QED
  BY <1>8, <1>9, <1>10 DEF MoneyInv

\* What the locals of a handler that settles become.
Goes(s, step, id, amount, paid, credited) ==
  /\ step \in SettleSteps /\ id \in Payments \cup {NoId} /\ amount \in 0..Total
  /\ Becomes(s, Locals(step, slot[s].seen, id, amount, paid, credited))
  /\ paid = IF SeesPaid(s) THEN TotalPaid ELSE slot[s].paid
  /\ credited = IF SeesCredited(s) THEN TotalCredited ELSE slot[s].credited
  /\ step = "settle.read credited" <=> SeesPaid(s)
  /\ step = "settle.write" <=> SeesCredited(s)

\* A handler that settles goes on: the sums are what its call makes them.
LEMMA SettlingMoney ==
  ASSUME StatusInv, MoneyInv, NEW s \in Slots,
         InsertsPayment(s) \/ DeletesPayment(s) \/ InsertsNote(s) \/ SeesPaid(s) \/ SeesCredited(s)
  PROVE  /\ MoneyInv'
         /\ ~disturbed' /\ TotalPaid' > TotalPaid => TotalPaid' <= Total - TotalCredited
<1>1. PICK step, id, amount, paid, credited : Goes(s, step, id, amount, paid, credited)
  <2>1. slot[s].id \in Payments \cup {NoId} /\ slot[s].amount \in 0..Total /\ 0 \in 0..Total
        /\ NoId \in Payments \cup {NoId}
    BY TotalAssumption DEF MoneyInv, MoneyTyped
  <2>2. CASE InsertsPayment(s) \/ InsertsNote(s) \/ DeletesPayment(s)
    <3>1. slot[s].step \notin SettleSteps
      BY <2>2 DEF InsertsPayment, InsertsNote, DeletesPayment, SettleSteps, At
    <3>2. ~SeesPaid(s) /\ ~SeesCredited(s)
      BY <3>1 DEF SeesPaid, SeesCredited, SettleSteps, At
    <3>3. PICK i \in Payments \cup {NoId}, a \in 0..Total :
            Becomes(s, Locals("settle.read", slot[s].seen, i, a, slot[s].paid, slot[s].credited))
      BY <2>1, <2>2, Zenon DEF InsertsPayment, InsertsNote, DeletesPayment
    <3>4. Goes(s, "settle.read", i, a, slot[s].paid, slot[s].credited)
      BY <3>2, <3>3 DEF Goes, SettleSteps
    <3> QED
      BY <3>4
  <2>3. CASE SeesPaid(s)
    <3>1. ~SeesCredited(s)
      BY <2>3 DEF SeesPaid, SeesCredited, At
    <3>2. Becomes(s, Locals("settle.read credited", slot[s].seen, slot[s].id, slot[s].amount,
                            TotalPaid, slot[s].credited))
      BY <2>3 DEF SeesPaid
    <3>3. Goes(s, "settle.read credited", slot[s].id, slot[s].amount, TotalPaid, slot[s].credited)
      BY <2>1, <2>3, <3>1, <3>2 DEF Goes, SettleSteps
    <3> QED
      BY <3>3
  <2>4. CASE SeesCredited(s)
    <3>1. ~SeesPaid(s)
      BY <2>4 DEF SeesPaid, SeesCredited, At
    <3>2. Becomes(s, Locals("settle.write", slot[s].seen, slot[s].id, slot[s].amount,
                            slot[s].paid, TotalCredited))
      BY <2>4 DEF SeesCredited
    <3>3. Goes(s, "settle.write", slot[s].id, slot[s].amount, slot[s].paid, TotalCredited)
      BY <2>1, <2>4, <3>1, <3>2 DEF Goes, SettleSteps
    <3> QED
      BY <3>3
  <2> QED
    BY <2>2, <2>3, <2>4
<1>2. /\ slot'[s].step = step /\ slot'[s].seen = slot[s].seen /\ slot'[s].id = id
      /\ slot'[s].amount = amount /\ slot'[s].paid = paid /\ slot'[s].credited = credited
      /\ \A r \in Slots \ {s} : slot'[r] = slot[r]
  <2>1. HandlersTyped
    BY DEF StatusInv
  <2>2. Becomes(s, Locals(step, slot[s].seen, id, amount, paid, credited))
    BY <1>1 DEF Goes
  <2> QED
    BY <2>1, <2>2, Became
<1>3. /\ step \in SettleSteps /\ id \in Payments \cup {NoId} /\ amount \in 0..Total
      /\ paid = IF SeesPaid(s) THEN TotalPaid ELSE slot[s].paid
      /\ credited = IF SeesCredited(s) THEN TotalCredited ELSE slot[s].credited
      /\ step = "settle.read credited" <=> SeesPaid(s)
      /\ step = "settle.write" <=> SeesCredited(s)
  BY <1>1 DEF Goes
<1>4. Settling(s) /\ ~At(s, "idle") /\ status # "draft" /\ slot[s].seen \in Statuses
  <2>1. Settling(s) /\ ~At(s, "idle")
    BY DEF InsertsPayment, DeletesPayment, InsertsNote, SeesPaid, SeesCredited, Settling,
           SettlingSteps, At
  <2> QED
    BY <2>1 DEF StatusInv, DraftsAreLeftAlone, MoneyInv, MoneyTyped
<1>5. UNCHANGED <<status, amountPaid, amountDue, pastDue, disturbed>>
  BY DEF InsertsPayment, DeletesPayment, InsertsNote, SeesPaid, SeesCredited
<1>6. TotalPaid \in Nat /\ TotalCredited \in Nat /\ Total \in Nat
  BY LedgerSums DEF MoneyInv
<1>7. /\ payment' \in [Payments -> 0..Total] /\ note' \in [Notes -> 0..Total]
      /\ used' \in SUBSET (Payments \cup Notes)
      /\ TotalPaid' \in Nat /\ TotalCredited' \in Nat
      /\ SeesPaid(s) \/ SeesCredited(s) => TotalPaid' = TotalPaid
      /\ ~InsertsNote(s) => TotalCredited' = TotalCredited
      /\ TotalPaid' > TotalPaid => InsertsPayment(s) /\ TotalPaid' <= TotalPaid + slot[s].amount
      /\ InsertsNote(s) => TotalCredited' <= TotalCredited + slot[s].amount
  <2>1. /\ payment \in [Payments -> 0..Total] /\ note \in [Notes -> 0..Total]
        /\ used \in SUBSET (Payments \cup Notes)
    BY DEF MoneyInv, MoneyTyped
  <2>2. payment' = payment => TotalPaid' = TotalPaid
    BY DEF TotalPaid, MapThenSumSet, MapThenFoldSet
  <2>3. note' = note => TotalCredited' = TotalCredited
    BY DEF TotalCredited, MapThenSumSet, MapThenFoldSet
  <2>4. slot[s].amount \in 0..Total /\ 0 \in 0..Total
    BY TotalAssumption DEF MoneyInv, MoneyTyped
  <2>5. CASE InsertsPayment(s)
    <3>1. PICK p \in Payments \ used :
            payment' = [payment EXCEPT ![p] = slot[s].amount] /\ used' = used \cup {p}
      BY <2>5 DEF InsertsPayment
    <3>2. /\ payment' \in [Payments -> 0..Total]
          /\ TotalPaid' = TotalPaid - payment[p] + slot[s].amount /\ payment[p] \in Nat
          /\ payment[p] <= TotalPaid
      BY <2>4, <3>1, PaymentWritten, LedgerSums DEF MoneyInv
    <3>3. note' = note /\ ~InsertsNote(s) /\ ~SeesPaid(s) /\ ~SeesCredited(s)
      BY <2>5 DEF InsertsPayment, InsertsNote, SeesPaid, SeesCredited, At
    <3> QED
      BY <1>6, <2>1, <2>3, <2>4, <2>5, <3>1, <3>2, <3>3
  <2>6. CASE DeletesPayment(s)
    <3>1. slot[s].id \in Payments /\ payment' = [payment EXCEPT ![slot[s].id] = 0]
      BY <2>6 DEF DeletesPayment, MoneyInv, MoneyTyped
    <3>2. /\ payment' \in [Payments -> 0..Total]
          /\ TotalPaid' = TotalPaid - payment[slot[s].id] + 0 /\ payment[slot[s].id] \in Nat
          /\ payment[slot[s].id] <= TotalPaid
      BY <2>4, <3>1, PaymentWritten, LedgerSums DEF MoneyInv
    <3>3. note' = note /\ used' = used /\ ~InsertsNote(s) /\ ~SeesPaid(s) /\ ~SeesCredited(s)
      BY <2>6 DEF DeletesPayment, InsertsNote, SeesPaid, SeesCredited, At
    <3> QED
      BY <1>6, <2>1, <2>3, <3>2, <3>3
  <2>7. CASE InsertsNote(s)
    <3>1. PICK n \in Notes \ used :
            note' = [note EXCEPT ![n] = slot[s].amount] /\ used' = used \cup {n}
      BY <2>7 DEF InsertsNote
    <3>2. /\ note' \in [Notes -> 0..Total] /\ note[n] <= TotalCredited
          /\ TotalCredited' = TotalCredited - note[n] + slot[s].amount /\ note[n] \in Nat
      BY <2>4, <3>1, NoteWritten, LedgerSums DEF MoneyInv
    <3>3. payment' = payment /\ ~SeesPaid(s) /\ ~SeesCredited(s)
      BY <2>7 DEF InsertsNote, SeesPaid, SeesCredited, At
    <3> QED
      BY <1>6, <2>1, <2>2, <2>4, <2>7, <3>1, <3>2, <3>3
  <2>8. CASE SeesPaid(s) \/ SeesCredited(s)
    <3>1. payment' = payment /\ note' = note /\ used' = used /\ ~InsertsNote(s)
      BY <2>8 DEF InsertsNote, SeesPaid, SeesCredited, At
    <3> QED
      BY <1>6, <2>1, <2>2, <2>3, <3>1
  <2> QED
    BY <2>5, <2>6, <2>7, <2>8
<1>8. MoneyTyped'
  <2>1. paid \in Nat /\ credited \in Nat
    BY <1>3, <1>6 DEF MoneyInv, MoneyTyped
  <2>2. ASSUME NEW r \in Slots
        PROVE  /\ slot'[r].seen \in Statuses \cup {"none"} /\ slot'[r].id \in Payments \cup {NoId}
               /\ slot'[r].amount \in 0..Total /\ slot'[r].paid \in Nat /\ slot'[r].credited \in Nat
               /\ At(r, "pay.delete")' => slot'[r].id \in Payments
               /\ At(r, "status.write")' \/ Settling(r)' => slot'[r].seen \in Statuses
    <3>1. CASE r = s
      BY <1>2, <1>4, <1>3, <2>1, <3>1 DEF At, SettleSteps
    <3>2. CASE r # s
      BY <1>2, <3>2 DEF MoneyInv, MoneyTyped, At, Settling
    <3> QED
      BY <3>1, <3>2
  <2> QED
    BY <1>5, <1>7, <2>2 DEF MoneyInv, MoneyTyped
<1>9. ASSUME ~disturbed' PROVE \A r \in Slots \ {s} : slot[r].step = "idle" /\ slot'[r].step = "idle"
  BY <1>2, <1>4, <1>5, <1>9 DEF StatusInv, CancelledIsRead, At
<1>10. SettledInTurn'
  <2> SUFFICES ASSUME ~disturbed' PROVE SettledInTurn'
    BY DEF SettledInTurn
  <2>1. SettledInTurn /\ ~disturbed
    BY <1>5 DEF MoneyInv
  <2>2. TotalCredited' <= Total
    <3>1. CASE InsertsNote(s)
      <4>1. slot[s].amount <= Total - TotalCredited
        BY <2>1, <3>1 DEF SettledInTurn, InsertsNote, Uncredited
      <4>2. slot[s].amount \in Int
        BY <1>6 DEF MoneyInv, MoneyTyped
      <4> QED
        BY <1>6, <1>7, <3>1, <4>1, <4>2
    <3>2. CASE ~InsertsNote(s)
      BY <1>7, <2>1, <3>2 DEF SettledInTurn
    <3> QED
      BY <3>1, <3>2
  <2>3. step \in {"settle.read credited", "settle.write"} => paid = TotalPaid'
    <3>1. CASE SeesPaid(s)
      BY <1>3, <1>7, <2>1, <3>1 DEF SettledInTurn, SeesPaid, SeesCredited, At
    <3>2. CASE SeesCredited(s)
      BY <1>3, <1>7, <2>1, <3>2 DEF SettledInTurn, SeesPaid, SeesCredited, At
    <3> QED
      BY <1>3, <3>1, <3>2 DEF SettleSteps
  <2>4. step = "settle.write" => credited = TotalCredited'
    <3>1. SeesCredited(s) => ~InsertsNote(s)
      BY DEF SeesCredited, InsertsNote, At
    <3> QED
      BY <1>3, <1>7, <3>1
  <2>5. slot'[s].step \in SettleSteps
    BY <1>2, <1>3
  <2> QED
    BY <1>2, <1>9, <2>2, <2>3, <2>4, <2>5 DEF SettledInTurn, At, SettleSteps
<1>11. DraftsOweNothing'
  BY <1>4, <1>5 DEF DraftsOweNothing
<1>12. ~disturbed' /\ TotalPaid' > TotalPaid => TotalPaid' <= Total - TotalCredited
  <2> SUFFICES ASSUME ~disturbed', TotalPaid' > TotalPaid PROVE TotalPaid' <= Total - TotalCredited
    OBVIOUS
  <2>1. InsertsPayment(s) /\ TotalPaid' <= TotalPaid + slot[s].amount
    BY <1>7
  <2>2. slot[s].amount <= Total - TotalCredited - TotalPaid
    <3>1. ~disturbed /\ At(s, "pay.insert")
      BY <1>5, <2>1 DEF InsertsPayment
    <3> QED
      BY <3>1 DEF MoneyInv, SettledInTurn, Outstanding
  <2>3. slot[s].amount \in Int
    BY <1>6 DEF MoneyInv, MoneyTyped
  <2> QED
    BY <1>6, <1>7, <2>1, <2>2, <2>3
<1> QED
  BY <1>8, <1>10, <1>11, <1>12 DEF MoneyInv

\* A settlement that is written in turn makes the columns exact, and so does a
\* status.
LEMMA WritingMoney ==
  ASSUME StatusInv, MoneyInv, NEW s \in Slots, WriteStatus(s) \/ WriteSettlement(s)
  PROVE  MoneyInv' /\ TotalPaid' = TotalPaid
<1>1. Becomes(s, Locals("idle", "none", NoId, 0, 0, 0)) /\ ~At(s, "idle")
  BY DEF WriteStatus, WriteSettlement, Finish, Idle, Locals, Becomes, At
<1>2. /\ slot'[s].step = "idle" /\ slot'[s].seen = "none" /\ slot'[s].id = NoId
      /\ slot'[s].amount = 0 /\ slot'[s].paid = 0 /\ slot'[s].credited = 0
      /\ \A r \in Slots \ {s} : slot'[r] = slot[r]
  BY <1>1, Became DEF StatusInv
<1>3. UNCHANGED <<pastDue, payment, note, used, disturbed>>
  BY DEF WriteStatus, WriteSettlement, ledgers
<1>4. TotalPaid' = TotalPaid /\ TotalCredited' = TotalCredited
  BY <1>3 DEF TotalPaid, TotalCredited, MapThenSumSet, MapThenFoldSet
<1>5. TotalPaid \in Nat /\ TotalCredited \in Nat /\ Total \in Nat
  BY LedgerSums DEF MoneyInv
<1>6. status' \in Statuses \ {"draft"} /\ amountPaid' \in Nat /\ amountDue' \in Int
  <2>1. slot[s].seen \in Statuses \ {"draft"} /\ slot[s].paid \in Nat /\ slot[s].credited \in Nat
        /\ amountPaid \in Nat /\ amountDue \in Int
    BY DEF WriteStatus, WriteSettlement, StatusInv, DraftsAreLeftAlone, MoneyInv, MoneyTyped,
           Settling, SettlingSteps, At
  <2>2. CASE WriteStatus(s)
    BY <2>1, <2>2 DEF WriteStatus
  <2>3. CASE WriteSettlement(s)
    <3>1. status' \in Statuses \ {"draft"}
      BY <2>1, <2>3 DEF WriteSettlement, StatusOnceDue, Statuses
    <3> QED
      BY <1>5, <2>1, <2>3, <3>1 DEF WriteSettlement
  <2> QED
    BY <2>2, <2>3
<1>7. MoneyTyped'
  <2>1. ASSUME NEW r \in Slots
        PROVE  /\ slot'[r].seen \in Statuses \cup {"none"} /\ slot'[r].id \in Payments \cup {NoId}
               /\ slot'[r].amount \in 0..Total /\ slot'[r].paid \in Nat /\ slot'[r].credited \in Nat
               /\ At(r, "pay.delete")' => slot'[r].id \in Payments
               /\ At(r, "status.write")' \/ Settling(r)' => slot'[r].seen \in Statuses
    <3>1. CASE r = s
      <4>1. slot'[s].seen \in Statuses \cup {"none"} /\ slot'[s].id \in Payments \cup {NoId}
        BY <1>2
      <4>2. slot'[s].amount \in 0..Total /\ slot'[s].paid \in Nat /\ slot'[s].credited \in Nat
        BY <1>2, <1>5
      <4>3. ~At(s, "pay.delete")' /\ ~At(s, "status.write")' /\ ~Settling(s)'
        BY <1>2 DEF At, Settling, SettlingSteps
      <4> QED
        BY <3>1, <4>1, <4>2, <4>3
    <3>2. CASE r # s
      BY <1>2, <3>2 DEF MoneyInv, MoneyTyped, At, Settling
    <3> QED
      BY <3>1, <3>2
  <2> QED
    BY <1>3, <1>6, <2>1 DEF MoneyInv, MoneyTyped
<1>8. SettledInTurn'
  <2> SUFFICES ASSUME ~disturbed' PROVE SettledInTurn'
    BY DEF SettledInTurn
  <2>1. SettledInTurn /\ ~disturbed
    BY <1>3 DEF MoneyInv
  <2>2. \A r \in Slots : slot'[r].step = "idle"
    BY <1>1, <1>2, <2>1 DEF StatusInv, CancelledIsRead, At
  <2>3. Owed' = Owed
    BY <1>4 DEF Owed
  <2>4. CASE WriteStatus(s)
    <3>1. Exact /\ StatusFits(slot[s].seen)
      BY <1>1, <2>1, <2>4 DEF SettledInTurn, StatusInv, CancelledIsRead, WriteStatus, At, SettleSteps
    <3>2. Exact'
      BY <1>3, <1>4, <2>3, <2>4, <3>1 DEF WriteStatus, Exact, StatusFits
    <3> QED
      BY <1>4, <2>1, <2>2, <3>2 DEF SettledInTurn, At
  <2>5. CASE WriteSettlement(s)
    <3>1. slot[s].paid = TotalPaid /\ slot[s].credited = TotalCredited
      BY <2>1, <2>5 DEF SettledInTurn, WriteSettlement, At
    <3>2. amountPaid' = TotalPaid /\ amountDue' = Owed /\ status' = StatusOnceDue(slot[s].seen, Owed)
      BY <2>5, <3>1 DEF WriteSettlement, Owed
    <3>3. slot[s].seen # "draft"
      BY <2>5 DEF WriteSettlement, StatusInv, DraftsAreLeftAlone, Settling, SettlingSteps, At
    <3>6. Owed \in Int
      BY <1>5 DEF Owed
    <3>4. StatusFits(StatusOnceDue(slot[s].seen, Owed))
      BY <3>3, <3>6 DEF StatusFits, StatusOnceDue
    <3>5. Exact'
      BY <1>3, <1>4, <2>3, <3>2, <3>4 DEF Exact, StatusFits
    <3> QED
      BY <1>4, <2>1, <2>2, <3>5 DEF SettledInTurn, At
  <2> QED
    BY <2>4, <2>5
<1>9. DraftsOweNothing'
  BY <1>6 DEF DraftsOweNothing
<1> QED
  BY <1>4, <1>7, <1>8, <1>9 DEF MoneyInv

\* Any step of the invoice's life.
LEMMA NextMoney ==
  ASSUME StatusInv, MoneyInv, [Next]_vars
  PROVE  /\ MoneyInv'
         /\ ~disturbed' /\ TotalPaid' > TotalPaid => TotalPaid' <= Total - TotalCredited
<1>1. ASSUME NEW s \in Slots, Request(s) PROVE MoneyInv' /\ TotalPaid' = TotalPaid
  <2>1. payment' = payment
    <3>1. ASSUME NEW locals, Begin(s, locals) PROVE payment' = payment
      BY <3>1 DEF Begin, ledgers
    <3> QED
      BY <1>1, <3>1, Zenon DEF Request, ReadToSetStatus, ReadToPay, ReadToCredit, ReadToUnpay
  <2>2. TotalPaid' = TotalPaid
    BY <2>1 DEF TotalPaid, MapThenSumSet, MapThenFoldSet
  <2> QED
    BY <1>1, <2>2, RequestMoney
<1>2. ASSUME NEW s \in Slots, Step(s)
      PROVE  /\ MoneyInv'
             /\ ~disturbed' /\ TotalPaid' > TotalPaid => TotalPaid' <= Total - TotalCredited
  <2>1. HandlersTyped
    BY DEF StatusInv
  <2>2. TotalPaid \in Nat
    BY LedgerSums DEF MoneyInv
  <2>3. CASE WriteStatus(s) \/ WriteSettlement(s)
    BY <2>2, <2>3, WritingMoney
  <2>4. CASE ~(WriteStatus(s) \/ WriteSettlement(s))
    BY <1>2, <2>1, <2>4, StepForms, SettlingMoney
  <2> QED
    BY <2>3, <2>4
<1>3. ASSUME NEW s \in Slots, Abandon(s) PROVE MoneyInv' /\ TotalPaid' = TotalPaid
  <2>1. /\ Becomes(s, Locals("idle", "none", NoId, 0, 0, 0)) /\ disturbed'
        /\ UNCHANGED <<status, amountPaid, amountDue, pastDue, payment, note, used>>
    BY <1>3 DEF Abandon, Finish, Idle, Locals, Becomes, columns, ledgers
  <2>2. /\ slot'[s].step = "idle" /\ slot'[s].seen = "none" /\ slot'[s].id = NoId
        /\ slot'[s].amount = 0 /\ slot'[s].paid = 0 /\ slot'[s].credited = 0
        /\ \A r \in Slots \ {s} : slot'[r] = slot[r]
    BY <2>1, Became DEF StatusInv
  <2>3. ASSUME NEW r \in Slots
        PROVE  /\ slot'[r].seen \in Statuses \cup {"none"} /\ slot'[r].id \in Payments \cup {NoId}
               /\ slot'[r].amount \in 0..Total /\ slot'[r].paid \in Nat /\ slot'[r].credited \in Nat
               /\ At(r, "pay.delete")' => slot'[r].id \in Payments
               /\ At(r, "status.write")' \/ Settling(r)' => slot'[r].seen \in Statuses
    <3>1. CASE r = s
      <4>1. slot'[s].seen \in Statuses \cup {"none"} /\ slot'[s].id \in Payments \cup {NoId}
        BY <2>2
      <4>2. slot'[s].amount \in 0..Total /\ slot'[s].paid \in Nat /\ slot'[s].credited \in Nat
        BY <2>2, TotalAssumption
      <4>3. ~At(s, "pay.delete")' /\ ~At(s, "status.write")' /\ ~Settling(s)'
        BY <2>2 DEF At, Settling, SettlingSteps
      <4> QED
        BY <3>1, <4>1, <4>2, <4>3
    <3>2. CASE r # s
      BY <2>2, <3>2 DEF MoneyInv, MoneyTyped, At, Settling
    <3> QED
      BY <3>1, <3>2
  <2>4. disturbed' \in BOOLEAN
    BY <1>3, Zenon DEF Abandon
  <2>5. MoneyTyped'
    BY <2>1, <2>3, <2>4 DEF MoneyInv, MoneyTyped
  <2>6. DraftsOweNothing' /\ SettledInTurn'
    BY <2>1 DEF MoneyInv, DraftsOweNothing, SettledInTurn
  <2>7. TotalPaid' = TotalPaid
    BY <2>1 DEF TotalPaid, MapThenSumSet, MapThenFoldSet
  <2> QED
    BY <2>5, <2>6, <2>7 DEF MoneyInv
<1>4. CASE DayPasses \/ MarkOverdue \/ UNCHANGED vars
  <2>1. /\ UNCHANGED <<amountPaid, amountDue, payment, note, used, slot, disturbed>>
        /\ pastDue' \in BOOLEAN
        /\ status' = status \/ (status = "sent" /\ status' = "overdue")
    BY <1>4 DEF DayPasses, MarkOverdue, vars, columns, ledgers, MoneyInv, MoneyTyped
  <2>2. TotalPaid' = TotalPaid /\ TotalCredited' = TotalCredited
    BY <2>1 DEF TotalPaid, TotalCredited, MapThenSumSet, MapThenFoldSet
  <2>3. MoneyTyped' /\ DraftsOweNothing'
    BY <2>1 DEF MoneyInv, MoneyTyped, DraftsOweNothing, Statuses, At, Settling
  <2>4. Owed' = Owed /\ Outstanding' = Outstanding /\ Uncredited' = Uncredited
    BY <2>2 DEF Owed, Outstanding, Uncredited
  <2>5. Exact => Exact'
    BY <2>1, <2>2, <2>4 DEF Exact, StatusFits
  <2>6. SettledInTurn'
    BY <2>1, <2>2, <2>4, <2>5 DEF MoneyInv, SettledInTurn, At, StatusFits
  <2>7. TotalPaid \in Nat
    BY LedgerSums DEF MoneyInv
  <2> QED
    BY <2>2, <2>3, <2>6, <2>7 DEF MoneyInv
<1>5. TotalPaid \in Nat
  BY LedgerSums DEF MoneyInv
<1> QED
  BY <1>1, <1>2, <1>3, <1>4, <1>5 DEF Next

\* The invariant of every behaviour.
LEMMA MoneyAlways == Spec => []MoneyInv
<1>1. StatusInv /\ MoneyInv /\ [Next]_vars => MoneyInv'
  BY NextMoney
<1> QED
  BY <1>1, InvAlways, MoneyInitially, PTL DEF Spec

\* In turn, whoever asks between two requests is told what the payments and the
\* credit notes add up to, and that the invoice is paid exactly when they say so;
\* only an invoice of zero that was never settled may be called otherwise.
THEOREM SettledBetweenRequests == Spec => []Settled
<1>1. MoneyInv => Settled
  <2> SUFFICES ASSUME MoneyInv, Quiet, ~disturbed PROVE Exact
    BY DEF Settled, Exact, StatusFits
  <2>1. \A s \in Slots : slot[s].step \notin SettleSteps
    BY DEF Quiet, At, SettleSteps
  <2> QED
    BY <2>1 DEF MoneyInv, SettledInTurn
<1> QED
  BY <1>1, MoneyAlways, PTL

\* A draft has no ledger, however requests overlap; in turn what is credited is
\* at most what was invoiced.
THEOREM CreditsFit == Spec => []LedgersFitTheInvoice
<1>1. MoneyInv => LedgersFitTheInvoice
  BY LedgerSums DEF MoneyInv, DraftsOweNothing, SettledInTurn, LedgersFitTheInvoice
<1> QED
  BY <1>1, MoneyAlways, PTL

\* In turn no payment is taken of more than is owed once credits are counted.
THEOREM NoOverpayment == Spec => PaymentsFitTheBalance
<1>1. ASSUME StatusInv, MoneyInv, [Next]_vars
      PROVE  [~disturbed' /\ TotalPaid' > TotalPaid => TotalPaid' <= Total - TotalCredited]_vars
  BY <1>1, NextMoney
<1> QED
  BY <1>1, InvAlways, MoneyAlways, PTL DEF Spec, PaymentsFitTheBalance

\* Columns, ledgers and locals keep the shape of what they stand for.
THEOREM SettlementTyped == Spec => []SettlementTypeOK
<1>1. StatusInv /\ MoneyInv => SettlementTypeOK
  <2> SUFFICES ASSUME StatusInv, MoneyInv PROVE SettlementTypeOK
    OBVIOUS
  <2> DEFINE Steps == {"idle", "status.write", "pay.insert", "pay.delete", "note.insert",
                       "settle.read", "settle.read credited", "settle.write"}
             Rows == [step : Steps, seen : Statuses \cup {"none"}, id : Payments \cup {NoId},
                      amount : 0..Total, paid : Nat, credited : Nat]
  <2>1. ASSUME NEW s \in Slots PROVE slot[s] \in Rows
    <3>1. slot[s] = Locals(slot[s].step, slot[s].seen, slot[s].id, slot[s].amount,
                           slot[s].paid, slot[s].credited)
      BY DEF StatusInv, HandlersTyped
    <3>2. slot[s].step \in Steps
      BY DEF StatusInv, HandlersTyped, SettlingSteps
    <3>3. /\ slot[s].seen \in Statuses \cup {"none"} /\ slot[s].id \in Payments \cup {NoId}
          /\ slot[s].amount \in 0..Total /\ slot[s].paid \in Nat /\ slot[s].credited \in Nat
      BY DEF MoneyInv, MoneyTyped
    <3> HIDE DEF Steps
    <3> QED
      BY <3>1, <3>2, <3>3 DEF Locals
  <2> HIDE DEF Rows
  <2>2. slot \in [Slots -> Rows]
    <3>1. slot = [s \in Slots |-> slot[s]]
      BY DEF StatusInv, HandlersTyped
    <3> QED
      BY <2>1, <3>1
  <2> QED
    BY <2>2 DEF Rows, SettlementTypeOK, MoneyInv, MoneyTyped
<1> QED
  BY <1>1, InvAlways, MoneyAlways, PTL
=============================================================================
