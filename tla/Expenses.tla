------------------------------ MODULE Expenses ------------------------------
(***************************************************************************)
(* One expense report and what the books say of it.  update writes the row *)
(* whole, as its handler read it, and replaces the lines only when the     *)
(* request has some.  Approval and reimbursement are posted after the row  *)
(* is written, each under a key of its own, so each posts once.            *)
(***************************************************************************)
EXTENDS Requests

CONSTANT MaxClaim   \* bound on what a report claims

ASSUME MaxClaimAssumption == MaxClaim \in Nat

VARIABLES
  report,   \* the expense_reports row
  claimed,  \* what its expense_lines add up to
  booked    \* the amount posted for its approval and for its reimbursement

expenseVars == <<report, claimed, booked>>

ExpenseStatuses == {"draft", "submitted", "approved", "rejected", "reimbursed"}

ExpenseTransitions ==
  {<<"draft", "submitted">>, <<"submitted", "approved">>, <<"submitted", "rejected">>,
   <<"approved", "reimbursed">>, <<"rejected", "draft">>}

\* Variant: until the money is paid out.
ExpenseEditableUntilPaid(status) == status # "reimbursed"

ExpenseEditable(status) == status \in {"draft", "rejected"}

ReportOnFile == report.status \in ExpenseStatuses
Postings == {"approved", "reimbursed"}

CreateReport(n) ==
  /\ report.status = "none"
  /\ Happens("expense.create")
  /\ report' = [status |-> "draft", total |-> n, decided |-> FALSE]
  /\ claimed' = n
  /\ UNCHANGED booked

\* An edit claims n, or leaves the lines as they are when n is zero.
ReadReportToUpdate(s, n) ==
  /\ ReportOnFile /\ ExpenseEditable(report.status)
  /\ Begin(s, "expense.update",
           [step |-> "expense.update", lines |-> n,
            row |-> [report EXCEPT !.total = IF n = 0 THEN @ ELSE n]])
  /\ UNCHANGED expenseVars

UpdateReport(s) ==
  /\ At(s, "expense.update") /\ ReportOnFile
  /\ report' = slot[s].row
  /\ claimed' = IF slot[s].lines = 0 THEN claimed ELSE slot[s].lines
  /\ Finish(s)
  /\ UNCHANGED booked

\* Whether the row names who decided: reworking it clears that.
Decided(status) ==
  status \in {"approved", "rejected"} \/ (status # "draft" /\ report.decided)

ReadReportToSetStatus(s, status) ==
  /\ ReportOnFile /\ <<report.status, status>> \in ExpenseTransitions
  /\ Begin(s, "expense.status",
           [step |-> "expense.writeStatus",
            row |-> [report EXCEPT !.status = status, !.decided = Decided(status)]])
  /\ UNCHANGED expenseVars

WriteReportStatus(s) ==
  /\ At(s, "expense.writeStatus") /\ ReportOnFile
  /\ report' = slot[s].row
  /\ IF slot[s].row.status \in Postings
     THEN Continue(s, [step |-> "expense.post", what |-> slot[s].row.status,
                       amount |-> slot[s].row.total])
     ELSE Finish(s)
  /\ UNCHANGED <<claimed, booked>>

\* Variant: posted without looking for the key.
PostExpenseAgain(s) ==
  /\ At(s, "expense.post")
  /\ booked' = [booked EXCEPT ![slot[s].what] = @ + slot[s].amount]
  /\ Finish(s)
  /\ UNCHANGED <<report, claimed>>

PostExpense(s) ==
  /\ At(s, "expense.post")
  /\ booked' = [booked EXCEPT ![slot[s].what] = IF @ = 0 THEN slot[s].amount ELSE @]
  /\ Finish(s)
  /\ UNCHANGED <<report, claimed>>

ReadReportToDelete(s) ==
  /\ report.status = "draft"
  /\ Begin(s, "expense.delete", [step |-> "expense.delete"])
  /\ UNCHANGED expenseVars

\* The lines go with it.
DeleteReport(s) ==
  /\ At(s, "expense.delete")
  /\ report' = [report EXCEPT !.status = "gone"]
  /\ claimed' = 0
  /\ Finish(s)
  /\ UNCHANGED booked

FailExpense(s) ==
  /\ slot[s].step \in {"expense.update", "expense.writeStatus"} /\ ~ReportOnFile
  /\ Finish(s)
  /\ UNCHANGED expenseVars

ExpensesInit ==
  /\ report = [status |-> "none", total |-> 0, decided |-> FALSE]
  /\ claimed = 0
  /\ booked = [p \in Postings |-> 0]

ExpensesRequest(s) ==
  \/ \E n \in 0..MaxClaim : ReadReportToUpdate(s, n)
  \/ \E status \in ExpenseStatuses : ReadReportToSetStatus(s, status)
  \/ ReadReportToDelete(s)

ExpensesStep(s) ==
  \/ UpdateReport(s)
  \/ WriteReportStatus(s) \/ PostExpense(s)
  \/ DeleteReport(s)
  \/ FailExpense(s)

ExpensesRequests ==
  {"expense.create", "expense.update", "expense.status", "expense.delete"}

ExpensesNext ==
  /\ Concerns(ExpensesRequests)
  /\ \/ \E n \in 1..MaxClaim : CreateReport(n)
     \/ \E s \in Slots : (Free(s) /\ ExpensesRequest(s)) \/ ExpensesStep(s)

-----------------------------------------------------------------------------
(* Correctness *)

\* The rows keep their shape, and a report that was deleted left no lines.
ExpensesTypeOK ==
  /\ report \in [status : ExpenseStatuses \cup {"none", "gone"}, total : Nat,
                 decided : BOOLEAN]
  /\ claimed \in Nat
  /\ ~ReportOnFile => claimed = 0
  /\ booked \in [Postings -> Nat]

\* The row names who decided exactly when somebody did, its total is what its
\* lines add up to, and the books owe the employee what was approved until it is
\* paid out: each is posted for exactly the reports that are, for what their
\* lines claim.  It holds for requests in turn.
ClaimsAgree ==
  InTurn =>
    /\ ReportOnFile =>
         /\ report.total = claimed
         /\ report.decided <=> report.status \in {"approved", "rejected", "reimbursed"}
    /\ Quiet =>
         /\ booked["approved"] = IF report.status \in Postings THEN claimed ELSE 0
         /\ booked["reimbursed"] = IF report.status = "reimbursed" THEN claimed ELSE 0

\* A decision is booked once, however often it is made: by two approvals at
\* once, or by one after an edit that put the report back to draft.
BookedOnce ==
  [][\A p \in Postings : booked[p] # 0 => booked'[p] = booked[p]]_booked
=============================================================================
