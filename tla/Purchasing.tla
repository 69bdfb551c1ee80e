----------------------------- MODULE Purchasing -----------------------------
(***************************************************************************)
(* One purchase order, its receipts, returns and vendor payments, over the *)
(* shelf its goods go to: the use cases of the purchasing module.          *)
(*                                                                         *)
(* The order has one line at a price of one coin without tax, so that      *)
(* quantities and amounts are the same numbers.  Editing the lines deletes *)
(* and inserts them: line counts how often.  Receipts and returns are only *)
(* ever added, so their totals stand for the tables.                       *)
(***************************************************************************)
EXTENDS Shelf, Requests, FiniteSetsExt

CONSTANTS
  Depots,           \* the warehouses its goods may go to
  VendorPayments,   \* ids that vendor payments may take
  MaxPapers,        \* bound on the units on receipts and returns together
  MaxLineVersions   \* bound on how often the lines are replaced

ASSUME DepotsAssumption == Depots \subseteq Warehouses
ASSUME MaxPapersAssumption == MaxPapers \in Nat
ASSUME VendorPaymentsAssumption == IsFiniteSet(VendorPayments)

VARIABLES
  po,             \* the purchase_orders row and its line
  received,       \* units on the goods_receipt_lines of the order
  returned,       \* units on its purchase_return_lines
  vendorPayment,  \* amount of each vendor_payments row, zero where there is none
  vendorUsed,     \* payment ids already taken
  arrived, left,  \* history: units its documents have moved in and out
  refused         \* history: units on the returns that the shelf refused

purchaseVars ==
  <<po, received, returned, vendorPayment, vendorUsed, arrived, left, refused>>
papers == <<received, returned, vendorPayment, vendorUsed>>
goods  == <<onHand, reserved, held, arrived, left, refused>>

PurchaseStatuses ==
  {"draft", "sent", "confirmed", "partially_received", "fully_received",
   "closed", "cancelled"}

PurchaseTransitions ==
  {<<"draft", "sent">>, <<"sent", "confirmed">>, <<"fully_received", "closed">>,
   <<"partially_received", "closed">>, <<"draft", "cancelled">>,
   <<"sent", "cancelled">>, <<"confirmed", "cancelled">>}

Editable(status) == status \in {"draft", "sent"}
AcceptsReceipt(status) == status \in {"confirmed", "partially_received"}
AcceptsReturn(status) ==
  status \in {"confirmed", "partially_received", "fully_received"}

OutstandingUnits == AtLeastZero(po.ordered - po.received)

StatusAfterReceipt(here) ==
  IF here >= po.ordered THEN "fully_received" ELSE "partially_received"

TotalVendorPaid == MapThenSumSet(LAMBDA p : vendorPayment[p], VendorPayments)

\* What record lets a payment cover: net of what went back.
Payable == po.total - returned - TotalVendorPaid

Ordered(status) == status \in PurchaseStatuses

\* A line read before can still be referred to.
LineStands(line) == Ordered(po.status) /\ line = po.line

-----------------------------------------------------------------------------
(* Purchase orders: create, update, set_status, delete *)

CreatePurchase(n) ==
  /\ po.status = "none"
  /\ Happens("po.create")
  /\ po' = [status |-> "draft", line |-> 1, ordered |-> n, received |-> 0,
            total |-> n, paid |-> 0, due |-> n]
  /\ UNCHANGED <<papers, goods>>

\* An edit asks for n units, or leaves the lines as they are when n is zero.
ReadPurchaseToUpdate(s, n) ==
  /\ Editable(po.status)
  /\ n > 0 => po.line < MaxLineVersions
  /\ Begin(s, "po.update",
           [step |-> "po.write", quantity |-> n, received |-> po.received,
            total |-> IF n = 0 THEN po.total ELSE n, paid |-> po.paid])
  /\ UNCHANGED <<purchaseVars, goods>>

\* The lines are deleted, which the receipts that name them prevent.
CanWritePurchase(n) == Ordered(po.status) /\ (n > 0 => received = 0)

WritePurchase(s) ==
  LET l == slot[s]
      written == [po EXCEPT !.total = l.total, !.due = l.total - l.paid]
  IN
  /\ At(s, "po.write") /\ CanWritePurchase(l.quantity)
  /\ \/ l.quantity = 0 /\ po' = written
     \/ /\ l.quantity > 0
        /\ po' = [written EXCEPT !.line = @ + 1, !.ordered = l.quantity,
                                 !.received = l.received]
  /\ Finish(s)
  /\ UNCHANGED <<papers, goods>>

ReadPurchaseToSetStatus(s, status) ==
  /\ <<po.status, status>> \in PurchaseTransitions
  /\ Begin(s, "po.status", [step |-> "po.writeStatus", status |-> status])
  /\ UNCHANGED <<purchaseVars, goods>>

WritePurchaseStatus(s) ==
  /\ At(s, "po.writeStatus") /\ Ordered(po.status)
  /\ po' = [po EXCEPT !.status = slot[s].status]
  /\ Finish(s)
  /\ UNCHANGED <<papers, goods>>

ReadPurchaseToDelete(s) ==
  /\ po.status = "draft"
  /\ Begin(s, "po.delete", [step |-> "po.delete"])
  /\ UNCHANGED <<purchaseVars, goods>>

\* Receipts, returns and payments refer to the order and keep it in being.
CanDeletePurchase == received = 0 /\ returned = 0 /\ TotalVendorPaid = 0

DeletePurchase(s) ==
  /\ At(s, "po.delete") /\ CanDeletePurchase
  /\ po' = [po EXCEPT !.status = "gone"]
  /\ Finish(s)
  /\ UNCHANGED <<papers, goods>>

-----------------------------------------------------------------------------
(* Goods receipts *)

ReadToReceive(s, w, n) ==
  /\ AcceptsReceipt(po.status)
  /\ n <= OutstandingUnits
  /\ received + returned < MaxPapers
  /\ Begin(s, "po.receive",
           [step |-> "receipt.insert", line |-> po.line, quantity |-> n, at |-> w,
            status |-> StatusAfterReceipt(po.received + n)])
  /\ UNCHANGED <<purchaseVars, goods>>

\* Variant: the line is written as it was computed when the handler began.
InsertReceiptComputed(s) ==
  /\ At(s, "receipt.insert") /\ LineStands(slot[s].line)
  /\ po' = [po EXCEPT !.received = slot[s].quantity, !.status = slot[s].status]
  /\ received' = received + slot[s].quantity
  /\ Continue(s, [step |-> "receipt.move", quantity |-> slot[s].quantity, at |-> slot[s].at])
  /\ UNCHANGED <<returned, vendorPayment, vendorUsed, goods>>

\* One transaction: the receipt, its line, the line's counter and the status
\* derived from what was read.  A line replaced since is no longer there.
InsertReceipt(s) ==
  /\ At(s, "receipt.insert") /\ LineStands(slot[s].line)
  /\ po' = [po EXCEPT !.received = @ + slot[s].quantity, !.status = slot[s].status]
  /\ received' = received + slot[s].quantity
  /\ Continue(s, [step |-> "receipt.move", quantity |-> slot[s].quantity, at |-> slot[s].at])
  /\ UNCHANGED <<returned, vendorPayment, vendorUsed, goods>>

MoveReceived(s) ==
  /\ At(s, "receipt.move")
  /\ Receive(slot[s].at, slot[s].quantity)
  /\ arrived' = arrived + slot[s].quantity
  /\ Finish(s)
  /\ UNCHANGED <<po, papers, left, refused>>

-----------------------------------------------------------------------------
(* Purchase returns *)

\* A return may name the line of the order more than once.  What arrived has to
\* cover all it names together, what is on the shelf each one alone: most is the
\* largest of them.
ReadToReturn(s, w, n, most) ==
  /\ AcceptsReturn(po.status)
  /\ n <= po.received
  /\ received + returned < MaxPapers
  /\ Available(w) >= most
  /\ Begin(s, "po.return",
           [step |-> "return.insert", line |-> po.line, quantity |-> n, at |-> w,
            repeats |-> most < n,
            status |-> StatusAfterReceipt(po.received - n), total |-> po.total])
  /\ UNCHANGED <<purchaseVars, goods>>

InsertReturn(s) ==
  /\ At(s, "return.insert") /\ LineStands(slot[s].line)
  /\ po' = [po EXCEPT !.received = AtLeastZero(@ - slot[s].quantity),
                      !.status = slot[s].status]
  /\ returned' = returned + slot[s].quantity
  /\ Continue(s, [step |-> "return.move", quantity |-> slot[s].quantity,
                  at |-> slot[s].at, repeats |-> slot[s].repeats, total |-> slot[s].total])
  /\ UNCHANGED <<received, vendorPayment, vendorUsed, goods>>

MoveReturned(s) ==
  /\ At(s, "return.move")
  /\ Remove(slot[s].at, slot[s].quantity)
  /\ left' = left + slot[s].quantity
  /\ Continue(s, [step |-> "po.readPaid", total |-> slot[s].total])
  /\ UNCHANGED <<po, papers, arrived, refused>>

\* Sold since the handler looked, or less than the return names in all: the
\* request fails, the return stays on file and the order is not settled.
RefuseReturn(s) ==
  /\ At(s, "return.move")
  /\ ~(Available(slot[s].at) >= slot[s].quantity)
  /\ refused' = refused + slot[s].quantity
  /\ Finish(s)
  /\ UNCHANGED <<po, papers, onHand, reserved, held, arrived, left>>

-----------------------------------------------------------------------------
(* Vendor payments: record and delete, and resettle after either *)

ReadToPayVendor(s, a) ==
  /\ Ordered(po.status) /\ po.status # "draft"
  /\ a <= Payable
  /\ Begin(s, "po.pay", [step |-> "po.insertPayment", amount |-> a, total |-> po.total])
  /\ UNCHANGED <<purchaseVars, goods>>

InsertVendorPayment(s) ==
  LET p == CHOOSE p \in VendorPayments : p \notin vendorUsed IN
  /\ At(s, "po.insertPayment") /\ Ordered(po.status)
  /\ vendorUsed # VendorPayments
  /\ vendorPayment' = [vendorPayment EXCEPT ![p] = slot[s].amount]
  /\ vendorUsed' = vendorUsed \cup {p}
  /\ Continue(s, [step |-> "po.readPaid", total |-> slot[s].total])
  /\ UNCHANGED <<po, received, returned, goods>>

ReadToUnpayVendor(s, p) ==
  /\ vendorPayment[p] > 0
  /\ Begin(s, "po.unpay", [step |-> "po.deletePayment", id |-> p, total |-> po.total])
  /\ UNCHANGED <<purchaseVars, goods>>

DeleteVendorPayment(s) ==
  /\ At(s, "po.deletePayment")
  /\ vendorPayment' = [vendorPayment EXCEPT ![slot[s].id] = 0]
  /\ Continue(s, [step |-> "po.readPaid", total |-> slot[s].total])
  /\ UNCHANGED <<po, received, returned, vendorUsed, goods>>

ReadVendorPaid(s) ==
  /\ At(s, "po.readPaid")
  /\ Continue(s, [step |-> "po.readReturned", total |-> slot[s].total,
                  paid |-> TotalVendorPaid])
  /\ UNCHANGED <<purchaseVars, goods>>

\* Variant: what went back is not read.
SkipReturned(s) ==
  /\ At(s, "po.readReturned")
  /\ Continue(s, [step |-> "po.settle", total |-> slot[s].total,
                  paid |-> slot[s].paid, returned |-> 0])
  /\ UNCHANGED <<purchaseVars, goods>>

ReadReturned(s) ==
  /\ At(s, "po.readReturned")
  /\ Continue(s, [step |-> "po.settle", total |-> slot[s].total,
                  paid |-> slot[s].paid, returned |-> returned])
  /\ UNCHANGED <<purchaseVars, goods>>

\* resettle_order: due is derived from the total as it was read at first.
SettlePurchase(s) ==
  /\ At(s, "po.settle") /\ Ordered(po.status)
  /\ po' = [po EXCEPT !.paid = slot[s].paid,
                      !.due = slot[s].total - slot[s].returned - slot[s].paid]
  /\ Finish(s)
  /\ UNCHANGED <<papers, goods>>

-----------------------------------------------------------------------------
\* A call the database refuses, or on a row that is no longer there.
FailPurchasing(s) ==
  /\ \/ /\ slot[s].step \in {"po.writeStatus", "po.insertPayment", "po.settle"}
        /\ ~Ordered(po.status)
     \/ At(s, "po.write") /\ ~CanWritePurchase(slot[s].quantity)
     \/ At(s, "po.delete") /\ ~CanDeletePurchase
     \/ /\ slot[s].step \in {"receipt.insert", "return.insert"}
        /\ ~LineStands(slot[s].line)
  /\ Finish(s)
  /\ UNCHANGED <<purchaseVars, goods>>

\* Goods sold, or promised to a customer's order, meanwhile.
SellReceived(w, n) ==
  /\ Happens("po.sell")
  /\ Remove(w, n)
  /\ UNCHANGED <<purchaseVars>>

PurchasingInit ==
  /\ po = [status |-> "none", line |-> 0, ordered |-> 0, received |-> 0,
           total |-> 0, paid |-> 0, due |-> 0]
  /\ received = 0 /\ returned = 0
  /\ vendorPayment = [p \in VendorPayments |-> 0]
  /\ vendorUsed = {}
  /\ arrived = 0 /\ left = 0 /\ refused = 0

PurchasingRequest(s) ==
  \/ \E n \in 0..MaxQuantity : ReadPurchaseToUpdate(s, n)
  \/ \E status \in PurchaseStatuses : ReadPurchaseToSetStatus(s, status)
  \/ ReadPurchaseToDelete(s)
  \/ \E w \in Depots, n \in Quantities :
       ReadToReceive(s, w, n) \/ \E most \in 1..n : ReadToReturn(s, w, n, most)
  \/ \E a \in Quantities : ReadToPayVendor(s, a)
  \/ \E p \in VendorPayments : ReadToUnpayVendor(s, p)

PurchasingStep(s) ==
  \/ WritePurchase(s) \/ WritePurchaseStatus(s) \/ DeletePurchase(s)
  \/ InsertReceipt(s) \/ MoveReceived(s)
  \/ InsertReturn(s) \/ MoveReturned(s) \/ RefuseReturn(s)
  \/ InsertVendorPayment(s) \/ DeleteVendorPayment(s)
  \/ ReadVendorPaid(s) \/ ReadReturned(s) \/ SettlePurchase(s)
  \/ FailPurchasing(s)

PurchasingRequests ==
  {"po.create", "po.update", "po.status", "po.delete", "po.receive", "po.return",
   "po.sell", "po.pay", "po.unpay"}

PurchasingNext ==
  /\ Concerns(PurchasingRequests)
  /\ \/ \E n \in Quantities : CreatePurchase(n)
     \/ \E s \in Slots : (Free(s) /\ PurchasingRequest(s)) \/ PurchasingStep(s)
     \/ \E w \in Depots, n \in Quantities : SellReceived(w, n)

-----------------------------------------------------------------------------
(* Correctness *)

\* The rows keep the shape of their columns.
PurchasingTypeOK ==
  /\ po \in [status : PurchaseStatuses \cup {"none", "gone"}, line : Nat,
             ordered : Nat, received : Nat, total : Nat, paid : Nat, due : Int]
  /\ received \in Nat /\ returned \in Nat
  /\ vendorPayment \in [VendorPayments -> Nat]
  /\ vendorUsed \in SUBSET VendorPayments
  /\ arrived \in Nat /\ left \in Nat /\ refused \in Nat

\* Whatever overlaps or is dropped, goods only move on a document: no more has
\* come in than receipts name, nor gone out than returns name, and the line's
\* counter never forgets a unit that arrived and has not gone back.  When a
\* request is over and nothing disturbed it, all that the documents name has
\* moved, but for returns that the shelf refused once they were on file.  In turn
\* it refuses only one that names a line more than once; the counter is exact,
\* and never more than was ordered.
GoodsFollowPapers ==
  /\ arrived <= received /\ left + refused <= returned
  /\ po.received >= received - returned
  /\ Quiet /\ InTurn => arrived = received /\ left + refused = returned
  /\ InTurn =>
       /\ \A s \in Slots :
            At(s, "return.move") =>
              Available(slot[s].at) >= slot[s].quantity \/ slot[s].repeats
       /\ po.received = received - returned /\ po.received <= po.ordered

\* Whenever a request is over, the status says how much has arrived, an order
\* that goods have arrived for is not cancelled, the total is that of the lines,
\* what is paid is what the payments on file add up to, and what is owed is what
\* they and the returns on file leave: too much by what a refused return was
\* worth at most, until the order is settled again, and never too little.
PurchaseAgrees ==
  Quiet /\ InTurn =>
    /\ CASE po.status = "fully_received" -> po.received >= po.ordered
         [] po.status = "partially_received" -> po.received < po.ordered /\ received > 0
         [] po.status = "closed" -> received > 0
         [] OTHER -> received = 0
    /\ po.total = po.ordered
    /\ po.paid = TotalVendorPaid
    /\ po.due - (po.total - returned - TotalVendorPaid) \in 0..refused

-----------------------------------------------------------------------------
(* What the tests say, and the code does not do *)

\* tests/atomic_stock.rs: returns refuse before they write anything, so that of
\* one the shelf cannot cover no document is created.
RefusedReturnsAreNotFiled == InTurn => refused = 0
=============================================================================
