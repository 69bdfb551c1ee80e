------------------------------ MODULE Service -------------------------------
(***************************************************************************)
(* The parts of the service that share its handlers: what one of them does *)
(* leaves the rows of the others alone.                                    *)
(***************************************************************************)
EXTENDS Purchasing, StockTransactions, Quotes, Sessions, Users, Leave, Expenses,
        Attachments, Projects, Chart, Amounts

CONSTANT MaxOnHand   \* bound on what one warehouse keeps

goodsRows   == <<stockVars, purchaseVars, quoteVars>>
accountRows == <<sessionVars, userVars>>
staffRows   == <<leaveVars, expenseVars, fileVars>>
workRows    == <<projectVars, chartVars>>

\* What moves goods in one step, as one transaction, waits for those that hold
\* rows of the product.
AtOnce ==
  /\ IF UNCHANGED shelfVars
     THEN UNCHANGED committed
     ELSE /\ \A row \in Rows : holder[row] = {}
          /\ committed' = [committed EXCEPT !.onHand = onHand', !.reserved = reserved', !.held = held']
  /\ UNCHANGED <<average, holder>>

\* Any transaction of the stock repository, for any document.
StockMoves ==
  /\ Happens("stock")
  /\ ShelfNext
  /\ \A w \in Warehouses : onHand'[w] <= MaxOnHand
  /\ AtOnce
  /\ UNCHANGED <<purchaseVars, quoteVars>>

GoodsNext ==
  \/ StockMoves
  \/ StockNext /\ UNCHANGED <<purchaseVars, quoteVars>>
  \/ PurchasingNext /\ AtOnce /\ UNCHANGED quoteVars
  \/ QuotesNext /\ UNCHANGED <<stockVars, purchaseVars>>

AccountsNext ==
  \/ SessionsNext /\ UNCHANGED userVars
  \/ UsersNext /\ UNCHANGED sessionVars

StaffNext ==
  \/ LeaveNext /\ UNCHANGED <<expenseVars, fileVars>>
  \/ ExpensesNext /\ UNCHANGED <<leaveVars, fileVars>>
  \/ AttachmentsNext /\ UNCHANGED <<leaveVars, expenseVars>>

WorkNext ==
  \/ ProjectsNext /\ UNCHANGED chartVars
  \/ ChartNext /\ UNCHANGED projectVars

\* A handler that is dropped ends its transaction, if it is in one.
Dropped ==
  /\ \E s \in Slots : Abandon(s) /\ RollBack(s)
  /\ UNCHANGED <<purchaseVars, quoteVars, accountRows, staffRows, workRows, amountVars>>

ServiceVars == <<requestVars, goodsRows, accountRows, staffRows, workRows, amountVars>>

ServiceInit ==
  /\ RequestsInit
  /\ ShelfInit /\ StockInit /\ PurchasingInit /\ QuotesInit
  /\ SessionsInit /\ UsersInit
  /\ LeaveInit /\ ExpensesInit /\ AttachmentsInit
  /\ ProjectsInit /\ ChartInit
  /\ AmountsInit

ServiceNext ==
  \/ GoodsNext /\ UNCHANGED <<accountRows, staffRows, workRows, amountVars>>
  \/ AccountsNext /\ UNCHANGED <<goodsRows, staffRows, workRows, amountVars>>
  \/ StaffNext /\ UNCHANGED <<goodsRows, accountRows, workRows, amountVars>>
  \/ WorkNext /\ UNCHANGED <<goodsRows, accountRows, staffRows, amountVars>>
  \/ AmountsNext /\ UNCHANGED <<goodsRows, accountRows, staffRows, workRows>>
  \/ Dropped

ServiceSpec == ServiceInit /\ [][ServiceNext]_ServiceVars

\* Every row keeps the shape of its columns, whichever requests meet.
ServiceTypeOK ==
  /\ ShelfTypeOK /\ StockTypeOK /\ PurchasingTypeOK /\ QuotesTypeOK
  /\ SessionsTypeOK /\ UsersTypeOK
  /\ LeaveTypeOK /\ ExpensesTypeOK /\ AttachmentsTypeOK
  /\ ProjectsTypeOK /\ ChartTypeOK
  /\ AmountsTypeOK
=============================================================================
