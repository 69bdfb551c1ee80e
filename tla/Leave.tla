------------------------------- MODULE Leave --------------------------------
(***************************************************************************)
(* One employee and the leave requests on file for them.  A calendar of    *)
(* Days holds two years, the second begins after YearEnd; a request counts *)
(* in the year it starts in.  What is left of the entitlement is summed    *)
(* from the approved requests each time it is needed.                      *)
(***************************************************************************)
EXTENDS Requests, FiniteSetsExt

CONSTANTS
  LeaveIds,        \* ids that leave requests may take
  Days,            \* the days of the calendar
  YearEnd,         \* the last day of the first year
  Weekend,         \* days nobody works
  MaxEntitlement   \* bound on the days granted in a year

ASSUME LeaveIdsAssumption == IsFiniteSet(LeaveIds)
ASSUME CalendarAssumption == Days \subseteq Nat /\ YearEnd \in Nat /\ MaxEntitlement \in Nat

VARIABLES
  employee,   \* the employees row
  leave       \* the leave_requests rows

leaveVars == <<employee, leave>>

\* Nothing here depends on whether who is not terminated is on leave.
EmployeeStatuses == {"active", "terminated"}
LeaveTypes == {"annual", "sick"}
LeaveStatuses == {"pending", "approved", "rejected"}
NoLeave == [status |-> "none"]
GoneLeave == [status |-> "gone"]

OnFile(r) == leave[r].status \in LeaveStatuses

LeaveTransitions == {<<"pending", "approved">>, <<"pending", "rejected">>}

CountsAgainstEntitlement(type) == type = "annual"

YearOf(day) == IF day <= YearEnd THEN 1 ELSE 2

WorkingDays(start, end) == Cardinality({d \in start..end : d \notin Weekend})

\* What is asked for when the request does not say: a weekend is still a day.
DaysRequested(start, end) ==
  IF WorkingDays(start, end) > 0 THEN WorkingDays(start, end) ELSE 1

ApprovedInYear(year) ==
  {r \in LeaveIds : /\ leave[r].status = "approved"
                    /\ CountsAgainstEntitlement(leave[r].type)
                    /\ YearOf(leave[r].start) = year}

Taken(year) == MapThenSumSet(LAMBDA r : leave[r].days, ApprovedInYear(year))

Overlaps(r, start, end) ==
  OnFile(r) /\ leave[r].status # "rejected" /\ leave[r].start <= end /\ leave[r].end >= start

Fits(type, days, start) ==
  CountsAgainstEntitlement(type) => days <= employee.entitlement - Taken(YearOf(start))

-----------------------------------------------------------------------------
ReadToRequestLeave(s, type, start, end, days) ==
  /\ start <= end
  /\ employee.status = "active"
  /\ \A r \in LeaveIds : ~Overlaps(r, start, end)
  /\ Fits(type, days, start)
  /\ Begin(s, "leave.create",
           [step |-> "leave.insert",
            row |-> [status |-> "pending", type |-> type, start |-> start, end |-> end,
                     days |-> days]])
  /\ UNCHANGED leaveVars

\* The request names the employee, whose row has to be there.
InsertLeave(s) ==
  /\ At(s, "leave.insert") /\ employee.status # "gone"
  /\ \E r \in LeaveIds : leave[r] = NoLeave
  /\ leave' = [leave EXCEPT ![CHOOSE r \in LeaveIds : leave[r] = NoLeave] = slot[s].row]
  /\ Finish(s)
  /\ UNCHANGED employee

\* Variant: the balance was looked at when the request was raised.
StillFitsUnchecked(r) == TRUE

\* Other requests may have been approved since this one was raised.
StillFits(r) == Fits(leave[r].type, leave[r].days, leave[r].start)

ReadToDecideLeave(s, r, status) ==
  /\ OnFile(r) /\ <<leave[r].status, status>> \in LeaveTransitions
  /\ status = "approved" => StillFits(r)
  /\ Begin(s, "leave.decide",
           [step |-> "leave.update", id |-> r, row |-> [leave[r] EXCEPT !.status = status]])
  /\ UNCHANGED leaveVars

UpdateLeave(s) ==
  /\ At(s, "leave.update") /\ OnFile(slot[s].id)
  /\ leave' = [leave EXCEPT ![slot[s].id] = slot[s].row]
  /\ Finish(s)
  /\ UNCHANGED employee

ReadToWithdrawLeave(s, r) ==
  /\ leave[r].status = "pending"
  /\ Begin(s, "leave.delete", [step |-> "leave.delete", id |-> r])
  /\ UNCHANGED leaveVars

DeleteLeave(s) ==
  /\ At(s, "leave.delete")
  /\ leave' = [leave EXCEPT ![slot[s].id] = GoneLeave]
  /\ Finish(s)
  /\ UNCHANGED employee

-----------------------------------------------------------------------------
(* The employee's row is written whole, as its handler read it. *)

ReadToUpdateEmployee(s, status, entitlement) ==
  /\ employee.status # "gone"
  /\ Begin(s, "employee.update",
           [step |-> "employee.update",
            row |-> [status |-> status, entitlement |-> entitlement]])
  /\ UNCHANGED leaveVars

UpdateEmployee(s) ==
  /\ At(s, "employee.update") /\ employee.status # "gone"
  /\ employee' = slot[s].row
  /\ Finish(s)
  /\ UNCHANGED leave

ReadToDeleteEmployee(s) ==
  /\ employee.status # "gone"
  /\ Begin(s, "employee.delete", [step |-> "employee.delete"])
  /\ UNCHANGED leaveVars

\* Leave on file keeps the employee in being.
CanDeleteEmployee == \A r \in LeaveIds : ~OnFile(r)

DeleteEmployee(s) ==
  /\ At(s, "employee.delete") /\ CanDeleteEmployee
  /\ employee' = [employee EXCEPT !.status = "gone"]
  /\ Finish(s)
  /\ UNCHANGED leave

\* A row that is no longer there, or one the database keeps.
FailLeave(s) ==
  /\ \/ slot[s].step \in {"leave.insert", "employee.update"} /\ employee.status = "gone"
     \/ At(s, "leave.update") /\ ~OnFile(slot[s].id)
     \/ At(s, "employee.delete") /\ ~CanDeleteEmployee
  /\ Finish(s)
  /\ UNCHANGED leaveVars

LeaveInit ==
  /\ employee = [status |-> "active", entitlement |-> MaxEntitlement]
  /\ leave = [r \in LeaveIds |-> NoLeave]

LeaveRequest(s) ==
  \/ \E type \in LeaveTypes, start, end \in Days :
       \E days \in {1, DaysRequested(start, end)} :
         ReadToRequestLeave(s, type, start, end, days)
  \/ \E r \in LeaveIds :
       \/ ReadToWithdrawLeave(s, r)
       \/ \E status \in LeaveStatuses : ReadToDecideLeave(s, r, status)
  \/ \E status \in EmployeeStatuses, n \in 0..MaxEntitlement :
       ReadToUpdateEmployee(s, status, n)
  \/ ReadToDeleteEmployee(s)

LeaveStep(s) ==
  \/ InsertLeave(s) \/ UpdateLeave(s) \/ DeleteLeave(s)
  \/ UpdateEmployee(s) \/ DeleteEmployee(s)
  \/ FailLeave(s)

LeaveRequests ==
  {"leave.create", "leave.decide", "leave.delete", "employee.update", "employee.delete"}

LeaveNext ==
  /\ Concerns(LeaveRequests)
  /\ \E s \in Slots : (Free(s) /\ LeaveRequest(s)) \/ LeaveStep(s)

-----------------------------------------------------------------------------
(* Correctness *)

\* The rows keep their shape, no request is for less than a day, and leave is
\* only on file for an employee who is.
LeaveTypeOK ==
  /\ employee \in [status : EmployeeStatuses \cup {"gone"}, entitlement : 0..MaxEntitlement]
  /\ \A r \in LeaveIds :
       \/ leave[r] \in {NoLeave, GoneLeave}
       \/ /\ leave[r] \in [status : LeaveStatuses, type : LeaveTypes, start : Days,
                           end : Days, days : Nat \ {0}]
          /\ employee.status # "gone"

\* Requests that each fit what was left do not together take more than the
\* entitlement: an approval leaves the year within it, requests in turn.
ApprovalsFitTheEntitlement ==
  [][InTurn' => \A year \in {1, 2} :
       Taken(year)' > Taken(year) => Taken(year)' <= employee.entitlement]_<<leave, disturbed>>
=============================================================================
