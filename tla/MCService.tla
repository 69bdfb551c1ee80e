----------------------------- MODULE MCService ------------------------------
(***************************************************************************)
(* The agendas that Service is explored with.                              *)
(***************************************************************************)
EXTENDS Service, TLC

StockAgenda == {"stock"}

\* Orders, receipts and returns, which overlap and are dropped, or edited.
GoodsAgenda ==
  {"po.create", "po.status", "po.delete", "po.receive", "po.return", "po.sell",
   "client.drop", "overlap"}
OrderEditsAgenda == (GoodsAgenda \ {"po.sell", "client.drop"}) \cup {"po.update"}

\* Payments among them, one request at a time.
VendorAgenda ==
  {"po.create", "po.update", "po.status", "po.delete", "po.receive", "po.return",
   "po.pay", "po.unpay", "client.drop"}

\* A password changed, or reset by a link, while sessions are refreshed.
PasswordAgenda ==
  {"login", "refresh", "password.change", "client.drop", "overlap"}
ResetAgenda ==
  {"login", "refresh", "forgot", "link.lapse", "reset", "client.drop", "overlap"}
LinksAgenda == {"forgot", "link.lapse", "reset", "password.change", "overlap"}

\* Sessions ended one by one while the clock runs.
SignOutAgenda == {"login", "refresh", "logout", "clock", "account.status"}

\* Accounts and who administers them.
UsersAgenda ==
  {"register", "badge", "user.role", "user.status", "user.profile"}

\* Two people, or one person twice, at once.
RegistrationAgenda ==
  {"register", "verify", "verify.resend", "user.profile", "overlap", "client.drop"}

LeaveAgenda ==
  {"leave.create", "leave.decide", "leave.delete", "employee.update",
   "employee.delete"}

\* A request and its employee, deleted by one handler and written by another.
StaffAgenda ==
  {"leave.create", "leave.delete", "employee.delete", "overlap", "client.drop"}

ExpensesAgenda ==
  {"expense.create", "expense.update", "expense.status", "expense.delete",
   "client.drop", "overlap"}

\* Transactions after the same units, what a hold becomes of, and what goods
\* cost, with and without another transaction after them.
HoldsAgenda ==
  {"stock.ship", "stock.reserve", "stock.receive", "overlap", "client.drop"}
LinesAgenda ==
  {"stock.receive", "stock.reserve", "stock.free", "stock.cascade", "overlap"}
ShelvesAgenda == {"stock.receive", "stock.transfer", "stock.remove", "overlap"}
CostsAgenda == {"stock.receive", "stock.costs", "overlap"}
CostsInTurnAgenda ==
  {"stock.receive", "stock.remove", "stock.return", "stock.transfer", "stock.costs"}

QuotesAgenda == QuotesRequests \cup {"overlap", "client.drop"}

\* Receipts on claims, which overlap or are edited.
FilesAgenda == {"file.upload", "file.claim", "file.download", "overlap", "client.drop"}
EditsAgenda == FilesRequests

\* The tree of tasks, the progress they add up to, and the hours on them.
TreeAgenda ==
  {"project.create", "project.delete", "project.status", "task.create",
   "task.update", "task.delete", "overlap"}
ProgressAgenda ==
  {"project.create", "project.update", "task.create", "task.report",
   "task.status", "task.delete"}
HoursAgenda ==
  {"project.create", "task.create", "task.delete", "hours.log", "hours.update",
   "hours.delete", "overlap"}

\* Accounts opened, used and closed at once, and hung under each other in turn.
ChartAgenda ==
  {"account.create", "account.delete", "account.enter", "account.move", "overlap"}
AccountTreeAgenda == ChartRequests

\* An order billed, credited and paid, and the rates that are entered for it.
AmountsAgenda == AmountsRequests \ {"rate.delete"}
RatesAgenda == {"sale.order", "rate.upsert", "rate.delete", "overlap"}

\* Two units, priced so that the discount and the tax are rounded.
MCSaleTerms == {[quantity |-> 2, price |-> 4, discount |-> 10, tax |-> 50]}

MCAgendas ==
  {StockAgenda, GoodsAgenda, OrderEditsAgenda, VendorAgenda, HoldsAgenda,
   LinesAgenda, ShelvesAgenda, CostsAgenda, CostsInTurnAgenda, QuotesAgenda,
   PasswordAgenda, ResetAgenda, LinksAgenda,
   SignOutAgenda, UsersAgenda, RegistrationAgenda, LeaveAgenda, StaffAgenda,
   ExpensesAgenda, FilesAgenda, EditsAgenda, TreeAgenda, ProgressAgenda,
   HoursAgenda, ChartAgenda, AccountTreeAgenda, AmountsAgenda, RatesAgenda}

\* What the violation runs are about.
ReturnsAgendas ==
  {{"po.create", "po.status", "po.receive", "po.return", "po.sell"}}
CentsAgendas == {AmountsAgenda}

Symmetry == Permutations(Slots)
=============================================================================
