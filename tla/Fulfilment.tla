----------------------------- MODULE Fulfilment -----------------------------
(***************************************************************************)
(* Sales orders, the invoices raised from them, and the shelf they share:  *)
(* OrderUseCases, InvoiceUseCases and PgStockDispatcher.                   *)
(*                                                                         *)
(* A request is served by an async handler that makes several calls on the *)
(* database, each a transaction of its own, and holds no lock between      *)
(* them.  A slot is one such handler: its step names the call it makes     *)
(* next, its other fields are the locals it carries across.  Reads that no *)
(* write of the same handler separates are one step, taken together with   *)
(* the transaction they feed where that transaction reads none of it again *)
(* and commutes with what could come between.                              *)
(*                                                                         *)
(* Documents have one stocked line of one product.  Postings, payments and *)
(* credit notes are left to other modules: here an issued invoice is paid  *)
(* and unpaid at any moment.                                               *)
(***************************************************************************)
EXTENDS Integers, FiniteSets, FiniteSetsExt

CONSTANTS
  Orders, Invoices, Warehouses,
  Slots,          \* the handlers that may run at the same time
  NoOrder, NoInvoice, NoWarehouse,
  MaxQuantity,    \* bound on the quantity of a line and of a movement
  MaxLines,       \* bound on how often the line of an order is replaced
  MaxOnHand,      \* bound on stock on hand and shipped, when more is received
  Requests,       \* what clients ask for: a subset of AllRequests
  MayAbandon      \* whether a client may drop its connection mid-request

AllRequests ==
  {"order.update", "order.status", "order.delete",
   "invoice.convert", "invoice.create", "invoice.update", "invoice.delete",
   "invoice.send", "invoice.cancel", "invoice.pay",
   "stock.in", "stock.out", "dispatch.set"}

ASSUME RequestsAssumption == Requests \subseteq AllRequests
ASSUME MayAbandonAssumption == MayAbandon \in BOOLEAN
ASSUME NamesAssumption ==
  /\ NoOrder \notin Orders
  /\ NoInvoice \notin Invoices
  /\ NoWarehouse \notin Warehouses
  /\ MaxLines \in Nat \ {0} /\ MaxQuantity \in Nat \ {0}
ASSUME FiniteAssumption == IsFiniteSet(Orders) /\ IsFiniteSet(Invoices) /\ IsFiniteSet(Slots)

VARIABLES
  order,      \* sales_orders and their line: status, quantity, line
  invoice,    \* invoices and their line: status, order, quantity, line
  dispatch,   \* organization_settings.default_dispatch_warehouse_id
  onHand, reserved, held,   \* the stock rows, as in module Shelf
  slot,       \* the handlers in flight
  shipped     \* history: units that left for an invoice less those back

stockVars == <<onHand, reserved, held>>
vars == <<order, invoice, dispatch, onHand, reserved, held, slot, shipped>>

\* Replacing the line of an order deletes the row and inserts another, so a
\* line is identified by its order and by how many came before it.
Lines  == Orders \X (1..MaxLines)
NoLine == <<NoOrder, 0>>
Line(o) == <<o, order[o].line>>

Stock == INSTANCE Shelf

Quantities == 1..MaxQuantity

-----------------------------------------------------------------------------
(* Statuses: domain/entities.rs *)

OrderStatuses ==
  {"draft", "confirmed", "processing", "partially_shipped", "shipped",
   "delivered", "cancelled"}

InvoiceStatuses == {"draft", "sent", "paid", "cancelled"}

\* A row not yet inserted, and one deleted: an id is never used again.
Missing == {"none", "deleted"}

OrderTransitions ==
  {<<"draft", "confirmed">>, <<"confirmed", "processing">>,
   <<"processing", "shipped">>, <<"partially_shipped", "shipped">>,
   <<"shipped", "delivered">>, <<"draft", "cancelled">>,
   <<"confirmed", "cancelled">>, <<"processing", "cancelled">>,
   <<"partially_shipped", "cancelled">>}

OrderEditable(status)      == status \in {"draft", "confirmed"}
Invoiceable(status) ==
  status \in {"confirmed", "processing", "partially_shipped", "shipped", "delivered"}
AssertsGoodsHaveLeft(status) == status \in {"shipped", "delivered"}

\* Variant: only an order that says its goods left expects none.
ExpectsUnlessGone(status) == ~AssertsGoodsHaveLeft(status)

StillExpectsGoods(status) ==
  status \in {"confirmed", "processing", "partially_shipped"}

\* Variant: only an order whose goods are gone stays where it is.
AdvancesUnlessGone(status, allInvoiced) ==
  ~allInvoiced /\ status # "partially_shipped" /\ ~AssertsGoodsHaveLeft(status)

\* after_invoice: issuing an instalment moves an order still being worked on.
BecomesPartlyShipped(status, allInvoiced) ==
  ~allInvoiced /\ status \in {"confirmed", "processing"}

\* sent stands for overdue too: both are issued, owed and may be cancelled.
IsIssued(status)      == status \in {"sent", "paid"}
InvoiceEditable(status) == status = "draft"
CanCancel(status)     == status \in {"draft", "sent"}

Exists(row) == row.status \notin Missing

-----------------------------------------------------------------------------
(* Handlers *)

Idle ==
  [step |-> "idle", order |-> NoOrder, invoice |-> NoInvoice,
   quantity |-> 0, line |-> NoLine, status |-> "none"]

At(s, step) == slot[s].step = step
Begin(s, request, locals) ==
  /\ request \in Requests
  /\ At(s, "idle")
  /\ slot' = [slot EXCEPT ![s] = locals]
Continue(s, step) == slot' = [slot EXCEPT ![s].step = step]
Finish(s)         == slot' = [slot EXCEPT ![s] = Idle]

OrderLocals(step, o) == [Idle EXCEPT !.step = step, !.order = o]
InvoiceLocals(step, i) ==
  [Idle EXCEPT !.step = step, !.invoice = i, !.status = invoice[i].status]

-----------------------------------------------------------------------------
(* What orders and invoices read of each other *)

Linked(o) == {i \in Invoices : invoice[i].line = Line(o)}

\* Variant: a draft does not count towards what is billed.
InvoicedWithoutDrafts(o) ==
  MapThenSumSet(LAMBDA i : invoice[i].quantity,
                {i \in Linked(o) : IsIssued(invoice[i].status)})

\* invoiced_by_order_line: every live invoice counts, a draft included.
Invoiced(o) ==
  MapThenSumSet(LAMBDA i : invoice[i].quantity,
                {i \in Linked(o) : invoice[i].status # "cancelled"})

\* invoiced_by_invoices over the issued ones: what has left the shelf.
InvoicedIssued(o) ==
  MapThenSumSet(LAMBDA i : invoice[i].quantity,
                {i \in Linked(o) : IsIssued(invoice[i].status)})

Outstanding(o, billed) == Stock!AtLeastZero(order[o].quantity - billed)

ShipsAutomatically == dispatch # NoWarehouse

-----------------------------------------------------------------------------
(* The dispatcher *)

\* order_confirmed: holds the whole line, as far as the shelf reaches.
HoldOrder(o) ==
  IF ShipsAutomatically /\ Exists(order[o])
       /\ Stock!CanReserve(Line(o), dispatch, order[o].quantity)
    THEN Stock!Reserve(Line(o), dispatch, order[o].quantity)
    ELSE UNCHANGED stockVars

\* Variant: gives back what was ordered rather than what was held.
ReleaseOrdered(o) ==
  IF order[o].line > 0 /\ held[Line(o)] # Stock!NoHold
    THEN /\ held' = [held EXCEPT ![Line(o)] = Stock!NoHold]
         /\ reserved' = [reserved EXCEPT ![held[Line(o)].at] =
                            Stock!AtLeastZero(@ - order[o].quantity)]
         /\ UNCHANGED onHand
    ELSE UNCHANGED stockVars

\* order_released: whatever the order holds, dispatch on or off.
ReleaseOrder(o) ==
  IF order[o].line > 0 /\ held[Line(o)] # Stock!NoHold
    THEN Stock!ReleaseOrder(Line(o))
    ELSE UNCHANGED stockVars

\* Variant: the reservation row outlives its line.
KeepHold(o) == UNCHANGED stockVars

\* The order line goes, and a reservation row that still hangs on it with it.
DropLine(o) ==
  IF held[Line(o)] # Stock!NoHold THEN Stock!CascadeHold(Line(o))
                                  ELSE UNCHANGED stockVars

-----------------------------------------------------------------------------
(* Bounds: the ids not yet taken by a row or by a handler about to insert one *)

SpareLine(o) ==
  order[o].line
    + Cardinality({s \in Slots : slot[s].order = o
                     /\ slot[s].step \in {"update.release", "update.write"}}) < MaxLines

SpareInvoice ==
  Cardinality({s \in Slots : At(s, "bill.create")})
    < Cardinality({i \in Invoices : invoice[i].status = "none"})

-----------------------------------------------------------------------------
(* Orders *)

\* OrderUseCases::create
CreateOrder(o, n) ==
  /\ order[o].status = "none"
  /\ order' = [order EXCEPT ![o] = [status |-> "draft", quantity |-> n, line |-> 1]]
  /\ UNCHANGED <<invoice, dispatch, onHand, reserved, held, slot, shipped>>

\* OrderUseCases::update with lines.  Whether the order is confirmed, and so
\* has a hold to give back first, is decided by what was read here.
ReadOrderToUpdate(s, o, n) ==
  /\ OrderEditable(order[o].status)
  /\ SpareLine(o)
  /\ Begin(s, "order.update",
           [OrderLocals(IF order[o].status = "confirmed" THEN "update.release"
                                                         ELSE "update.write", o)
              EXCEPT !.quantity = n, !.status = order[o].status])
  /\ UNCHANGED <<order, invoice, dispatch, onHand, reserved, held, shipped>>

\* Variant: the lines are replaced with the hold still on them.
KeepHoldBeforeUpdate(s) ==
  /\ At(s, "update.release")
  /\ Continue(s, "update.write")
  /\ UNCHANGED <<order, invoice, dispatch, onHand, reserved, held, shipped>>

ReleaseBeforeUpdate(s) ==
  /\ At(s, "update.release")
  /\ ReleaseOrder(slot[s].order)
  /\ Continue(s, "update.write")
  /\ UNCHANGED <<order, invoice, dispatch, shipped>>

\* Deleting the old line unlinks the invoice lines that pointed at it
\* (ON DELETE SET NULL) and deletes its reservation row (ON DELETE CASCADE).
WriteOrder(s) ==
  LET o == slot[s].order IN
  /\ At(s, "update.write")
  /\ Exists(order[o])
  /\ order' = [order EXCEPT ![o].quantity = slot[s].quantity, ![o].line = @ + 1]
  /\ invoice' = [i \in Invoices |-> IF i \in Linked(o)
                                     THEN [invoice[i] EXCEPT !.line = NoLine]
                                     ELSE invoice[i]]
  /\ DropLine(o)
  /\ IF slot[s].status = "confirmed" THEN Continue(s, "update.hold") ELSE Finish(s)
  /\ UNCHANGED <<dispatch, shipped>>

HoldAfterUpdate(s) ==
  /\ At(s, "update.hold")
  /\ HoldOrder(slot[s].order)
  /\ Finish(s)
  /\ UNCHANGED <<order, invoice, dispatch, shipped>>

\* OrderUseCases::set_status.  An order that claims its goods have left must
\* have nothing outstanding on issued invoices, where invoicing is what ships.
ReadOrderToSetStatus(s, o, status) ==
  /\ <<order[o].status, status>> \in OrderTransitions
  /\ AssertsGoodsHaveLeft(status) /\ ShipsAutomatically
       => Outstanding(o, InvoicedIssued(o)) = 0
  /\ Begin(s, "order.status", [OrderLocals("status.write", o) EXCEPT !.status = status])
  /\ UNCHANGED <<order, invoice, dispatch, onHand, reserved, held, shipped>>

\* Variant: cancelling an order leaves its hold.
WriteOrderStatusOnly(s) ==
  LET o == slot[s].order IN
  /\ At(s, "status.write")
  /\ Exists(order[o])
  /\ order' = [order EXCEPT ![o].status = slot[s].status]
  /\ IF slot[s].status = "confirmed" THEN Continue(s, "status.hold") ELSE Finish(s)
  /\ UNCHANGED <<invoice, dispatch, onHand, reserved, held, shipped>>

WriteOrderStatus(s) ==
  LET o == slot[s].order IN
  /\ At(s, "status.write")
  /\ Exists(order[o])
  /\ order' = [order EXCEPT ![o].status = slot[s].status]
  /\ CASE slot[s].status = "confirmed" -> Continue(s, "status.hold")
       [] slot[s].status = "cancelled" -> Continue(s, "status.release")
       [] OTHER                        -> Finish(s)
  /\ UNCHANGED <<invoice, dispatch, onHand, reserved, held, shipped>>

HoldConfirmed(s) ==
  /\ At(s, "status.hold")
  /\ HoldOrder(slot[s].order)
  /\ Finish(s)
  /\ UNCHANGED <<order, invoice, dispatch, shipped>>

ReleaseCancelled(s) ==
  /\ At(s, "status.release")
  /\ ReleaseOrder(slot[s].order)
  /\ Finish(s)
  /\ UNCHANGED <<order, invoice, dispatch, shipped>>

\* OrderUseCases::delete
ReadOrderToDelete(s, o) ==
  /\ order[o].status = "draft"
  /\ Begin(s, "order.delete", OrderLocals("order.delete", o))
  /\ UNCHANGED <<order, invoice, dispatch, onHand, reserved, held, shipped>>

\* Refused by the foreign key while an invoice names the order.
DeleteOrder(s) ==
  LET o == slot[s].order IN
  /\ At(s, "order.delete")
  /\ Exists(order[o])
  /\ \A i \in Invoices : Exists(invoice[i]) => invoice[i].order # o
  /\ order' = [order EXCEPT ![o].status = "deleted"]
  /\ DropLine(o)
  /\ Finish(s)
  /\ UNCHANGED <<invoice, dispatch, shipped>>

-----------------------------------------------------------------------------
(* Raising invoices *)

\* OrderUseCases::convert_to_invoice: n of what the line has left to bill.
ReadOrderToBill(s, o, n) ==
  /\ Invoiceable(order[o].status)
  /\ n <= Outstanding(o, Invoiced(o))
  /\ SpareInvoice
  /\ Begin(s, "invoice.convert",
           [OrderLocals("bill.create", o) EXCEPT !.quantity = n, !.line = Line(o)])
  /\ UNCHANGED <<order, invoice, dispatch, onHand, reserved, held, shipped>>

\* Refused by the foreign key if the line was replaced since it was read.
CreateInstalment(s, i) ==
  LET o == slot[s].order IN
  /\ At(s, "bill.create")
  /\ invoice[i].status = "none"
  /\ Exists(order[o])
  /\ slot[s].line = Line(o)
  /\ invoice' = [invoice EXCEPT ![i] =
                   [status |-> "draft", order |-> o,
                    quantity |-> slot[s].quantity, line |-> slot[s].line]]
  /\ Finish(s)
  /\ UNCHANGED <<order, dispatch, onHand, reserved, held, shipped>>

\* InvoiceUseCases::create: straight against a customer, so no order line stands
\* behind it, though it may name an order.
CreateInvoice(i, o, n) ==
  /\ "invoice.create" \in Requests
  /\ invoice[i].status = "none" /\ SpareInvoice
  /\ o # NoOrder => Exists(order[o])
  /\ invoice' = [invoice EXCEPT ![i] =
                   [status |-> "draft", order |-> o, quantity |-> n, line |-> NoLine]]
  /\ UNCHANGED <<order, dispatch, onHand, reserved, held, slot, shipped>>

\* InvoiceUseCases::update with lines: build_invoice_lines links none of them.
ReadInvoiceToUpdate(s, i, n) ==
  /\ InvoiceEditable(invoice[i].status)
  /\ Begin(s, "invoice.update",
           [InvoiceLocals("edit.write", i) EXCEPT !.quantity = n])
  /\ UNCHANGED <<order, invoice, dispatch, onHand, reserved, held, shipped>>

WriteInvoice(s) ==
  LET i == slot[s].invoice IN
  /\ At(s, "edit.write")
  /\ Exists(invoice[i])
  /\ invoice' = [invoice EXCEPT ![i].quantity = slot[s].quantity, ![i].line = NoLine]
  /\ Finish(s)
  /\ UNCHANGED <<order, dispatch, onHand, reserved, held, shipped>>

\* InvoiceUseCases::delete
ReadInvoiceToDelete(s, i) ==
  /\ InvoiceEditable(invoice[i].status)
  /\ Begin(s, "invoice.delete", InvoiceLocals("invoice.delete", i))
  /\ UNCHANGED <<order, invoice, dispatch, onHand, reserved, held, shipped>>

DeleteInvoice(s) ==
  LET i == slot[s].invoice IN
  /\ At(s, "invoice.delete")
  /\ invoice' = [invoice EXCEPT ![i].status = "deleted", ![i].line = NoLine]
  /\ Finish(s)
  /\ UNCHANGED <<order, dispatch, onHand, reserved, held, shipped>>

-----------------------------------------------------------------------------
(* Issuing: InvoiceUseCases::set_status to sent *)

ReadInvoiceToSend(s, i) ==
  /\ invoice[i].status = "draft"
  /\ Begin(s, "invoice.send", InvoiceLocals("send.ship", i))
  /\ UNCHANGED <<order, invoice, dispatch, onHand, reserved, held, shipped>>

\* move_lines out.  A deleted invoice has no lines left to move.
Moves(i) == ShipsAutomatically /\ Exists(invoice[i])

Coverable(i) ==
  IF invoice[i].line = NoLine
    THEN Stock!Available(dispatch) >= invoice[i].quantity
    ELSE Stock!CanShip(invoice[i].line, dispatch, invoice[i].quantity)

\* Having the goods is a precondition of issuing: nothing is written before.
ShipInvoice(s) ==
  LET i == slot[s].invoice IN
  /\ At(s, "send.ship")
  /\ IF Moves(i)
       THEN /\ IF invoice[i].line = NoLine
                 THEN Stock!Remove(dispatch, invoice[i].quantity)
                 ELSE Stock!Ship(invoice[i].line, dispatch, invoice[i].quantity)
            /\ shipped' = [shipped EXCEPT ![i] = @ + invoice[i].quantity]
       ELSE UNCHANGED <<onHand, reserved, held, shipped>>
  /\ Continue(s, "send.write")
  /\ UNCHANGED <<order, invoice, dispatch>>

RefuseShipment(s) ==
  LET i == slot[s].invoice IN
  /\ At(s, "send.ship")
  /\ Moves(i) /\ ~Coverable(i)
  /\ Finish(s)
  /\ UNCHANGED <<order, invoice, dispatch, onHand, reserved, held, shipped>>

WriteSent(s) ==
  LET i == slot[s].invoice IN
  /\ At(s, "send.write")
  /\ Exists(invoice[i])
  /\ invoice' = [invoice EXCEPT ![i].status = "sent"]
  /\ Continue(s, "send.advance")
  /\ UNCHANGED <<order, dispatch, onHand, reserved, held, shipped>>

\* advance_order: an order with something left to bill becomes part-shipped.
\* The order's status is read here and written over in the next step.
ReadToAdvance(s) ==
  LET o == invoice[slot[s].invoice].order IN
  /\ At(s, "send.advance")
  /\ IF /\ o # NoOrder
        /\ BecomesPartlyShipped(order[o].status, Invoiced(o) >= order[o].quantity)
       THEN slot' = [slot EXCEPT ![s] = OrderLocals("send.advanceWrite", o)]
       ELSE Finish(s)
  /\ UNCHANGED <<order, invoice, dispatch, onHand, reserved, held, shipped>>

AdvanceOrder(s) ==
  LET o == slot[s].order IN
  /\ At(s, "send.advanceWrite")
  /\ Exists(order[o])
  /\ order' = [order EXCEPT ![o].status = "partially_shipped"]
  /\ Finish(s)
  /\ UNCHANGED <<invoice, dispatch, onHand, reserved, held, shipped>>

-----------------------------------------------------------------------------
(* Cancelling: InvoiceUseCases::set_status to cancelled *)

\* Refused while the order claims the goods reached the customer, where
\* cancelling would put them back on the shelf.
ReadInvoiceToCancel(s, i) ==
  LET o == invoice[i].order IN
  /\ CanCancel(invoice[i].status)
  /\ ShipsAutomatically /\ o # NoOrder => ~AssertsGoodsHaveLeft(order[o].status)
  /\ Begin(s, "invoice.cancel", InvoiceLocals("cancel.write", i))
  /\ UNCHANGED <<order, invoice, dispatch, onHand, reserved, held, shipped>>

\* Variant: a cancelled draft is unwound like an issued invoice.
WriteCancelledAlways(s) ==
  LET i == slot[s].invoice IN
  /\ At(s, "cancel.write")
  /\ Exists(invoice[i])
  /\ invoice' = [invoice EXCEPT ![i].status = "cancelled"]
  /\ Continue(s, "cancel.return")
  /\ UNCHANGED <<order, dispatch, onHand, reserved, held, shipped>>

\* What the invoice was when it was read decides what there is to unwind.
WriteCancelled(s) ==
  LET i == slot[s].invoice IN
  /\ At(s, "cancel.write")
  /\ Exists(invoice[i])
  /\ invoice' = [invoice EXCEPT ![i].status = "cancelled"]
  /\ IF IsIssued(slot[s].status) THEN Continue(s, "cancel.return") ELSE Finish(s)
  /\ UNCHANGED <<order, dispatch, onHand, reserved, held, shipped>>

ReturnGoods(s) ==
  LET i == slot[s].invoice IN
  /\ At(s, "cancel.return")
  /\ IF Moves(i)
       THEN /\ Stock!Receive(dispatch, invoice[i].quantity)
            /\ shipped' = [shipped EXCEPT ![i] = @ - invoice[i].quantity]
       ELSE UNCHANGED <<onHand, reserved, held, shipped>>
  /\ Continue(s, "cancel.release")
  /\ UNCHANGED <<order, invoice, dispatch>>

\* rehold: everything the order holds is given back, then as much of its whole
\* line as the shelf reaches is held again.
ReleaseToRehold(s) ==
  LET o == invoice[slot[s].invoice].order IN
  /\ At(s, "cancel.release")
  /\ IF o # NoOrder /\ StillExpectsGoods(order[o].status)
       THEN /\ ReleaseOrder(o)
            /\ slot' = [slot EXCEPT ![s] = OrderLocals("cancel.hold", o)]
       ELSE /\ Finish(s)
            /\ UNCHANGED stockVars
  /\ UNCHANGED <<order, invoice, dispatch, shipped>>

Rehold(s) ==
  /\ At(s, "cancel.hold")
  /\ HoldOrder(slot[s].order)
  /\ Finish(s)
  /\ UNCHANGED <<order, invoice, dispatch, shipped>>

-----------------------------------------------------------------------------
(* Failing, and being dropped *)

\* An UPDATE ... RETURNING that finds no row, or an INSERT or DELETE that a
\* foreign key refuses, ends the request with an error where it stands.
FailRequest(s) ==
  LET o == slot[s].order
      i == slot[s].invoice
  IN
  /\ \/ /\ slot[s].step \in {"update.write", "status.write", "order.delete",
                              "send.advanceWrite"}
        /\ ~Exists(order[o])
     \/ /\ slot[s].step \in {"edit.write", "send.write", "cancel.write"}
        /\ ~Exists(invoice[i])
     \/ /\ At(s, "bill.create")
        /\ ~Exists(order[o]) \/ slot[s].line # Line(o)
     \/ /\ At(s, "order.delete")
        /\ \E j \in Invoices : Exists(invoice[j]) /\ invoice[j].order = o
  /\ Finish(s)
  /\ UNCHANGED <<order, invoice, dispatch, onHand, reserved, held, shipped>>

\* The client goes away: the handler's future is dropped at the await it is in,
\* after the call it has just made and before the next.
Abandon(s) ==
  /\ MayAbandon
  /\ ~At(s, "idle")
  /\ Finish(s)
  /\ UNCHANGED <<order, invoice, dispatch, onHand, reserved, held, shipped>>

-----------------------------------------------------------------------------
(* The rest of the system, as far as it reaches these rows *)

\* Payments settle an invoice and, deleted again, unsettle it.
Pay(i) ==
  /\ "invoice.pay" \in Requests
  /\ \/ invoice[i].status = "sent" /\ invoice' = [invoice EXCEPT ![i].status = "paid"]
     \/ invoice[i].status = "paid" /\ invoice' = [invoice EXCEPT ![i].status = "sent"]
  /\ UNCHANGED <<order, dispatch, onHand, reserved, held, slot, shipped>>

StockKnown ==
  MapThenSumSet(LAMBDA w : onHand[w], Warehouses)
    + MapThenSumSet(LAMBDA i : shipped[i], Invoices)

\* Movements recorded by hand, goods receipts, returns to a supplier.
StockIn(w, n) ==
  /\ "stock.in" \in Requests
  /\ StockKnown + n <= MaxOnHand
  /\ Stock!Receive(w, n)
  /\ UNCHANGED <<order, invoice, dispatch, slot, shipped>>

StockOut(w, n) ==
  /\ "stock.out" \in Requests
  /\ Stock!Remove(w, n)
  /\ UNCHANGED <<order, invoice, dispatch, slot, shipped>>

\* Settings: an admin chooses, changes or clears the dispatch warehouse.
SetDispatch(w) ==
  /\ "dispatch.set" \in Requests
  /\ dispatch' = w
  /\ UNCHANGED <<order, invoice, onHand, reserved, held, slot, shipped>>

-----------------------------------------------------------------------------
Init ==
  /\ order = [o \in Orders |-> [status |-> "none", quantity |-> 0, line |-> 0]]
  /\ invoice = [i \in Invoices |->
                  [status |-> "none", order |-> NoOrder, quantity |-> 0, line |-> NoLine]]
  /\ dispatch \in Warehouses \cup {NoWarehouse}
  /\ Stock!ShelfInit
  /\ slot = [s \in Slots |-> Idle]
  /\ shipped = [i \in Invoices |-> 0]

OrderStep(s) ==
  \/ ReleaseBeforeUpdate(s) \/ WriteOrder(s) \/ HoldAfterUpdate(s)
  \/ WriteOrderStatus(s) \/ HoldConfirmed(s) \/ ReleaseCancelled(s)
  \/ DeleteOrder(s)

InvoiceStep(s) ==
  \/ \E i \in Invoices : CreateInstalment(s, i)
  \/ WriteInvoice(s) \/ DeleteInvoice(s)
  \/ ShipInvoice(s) \/ RefuseShipment(s) \/ WriteSent(s)
  \/ ReadToAdvance(s) \/ AdvanceOrder(s)
  \/ WriteCancelled(s) \/ ReturnGoods(s) \/ ReleaseToRehold(s) \/ Rehold(s)

\* The next call of a request already accepted.
Step(s) == OrderStep(s) \/ InvoiceStep(s) \/ FailRequest(s)

BeginOrderRequest(s) ==
  \E o \in Orders :
    \/ \E n \in Quantities : ReadOrderToUpdate(s, o, n) \/ ReadOrderToBill(s, o, n)
    \/ \E status \in OrderStatuses : ReadOrderToSetStatus(s, o, status)
    \/ ReadOrderToDelete(s, o)

BeginInvoiceRequest(s) ==
  \E i \in Invoices :
    \/ \E n \in Quantities : ReadInvoiceToUpdate(s, i, n)
    \/ ReadInvoiceToDelete(s, i)
    \/ ReadInvoiceToSend(s, i)
    \/ ReadInvoiceToCancel(s, i)

SingleCall ==
  \/ \E n \in Quantities :
       \/ \E o \in Orders : CreateOrder(o, n)
       \/ \E i \in Invoices, o \in Orders \cup {NoOrder} : CreateInvoice(i, o, n)
       \/ \E w \in Warehouses : StockIn(w, n) \/ StockOut(w, n)
  \/ \E i \in Invoices : Pay(i)
  \/ \E w \in Warehouses \cup {NoWarehouse} : SetDispatch(w)

Next ==
  \/ \E s \in Slots : BeginOrderRequest(s) \/ BeginInvoiceRequest(s)
                       \/ Step(s) \/ Abandon(s)
  \/ SingleCall

Spec == Init /\ [][Next]_vars

\* A handler nobody drops runs to its end: the runtime polls every ready task,
\* and no call waits on another handler.
Fairness == \A s \in Slots : WF_vars(Step(s))

-----------------------------------------------------------------------------
(* Correctness *)

OrderRow ==
  [status : OrderStatuses \cup Missing, quantity : 0..MaxQuantity, line : 0..MaxLines]
InvoiceRow ==
  [status : InvoiceStatuses \cup Missing, order : Orders \cup {NoOrder},
   quantity : 0..MaxQuantity, line : Lines \cup {NoLine}]

Steps ==
  {"idle", "update.release", "update.write", "update.hold", "status.write",
   "status.hold", "status.release", "order.delete", "bill.create", "edit.write",
   "invoice.delete", "send.ship", "send.write", "send.advance",
   "send.advanceWrite", "cancel.write", "cancel.return", "cancel.release",
   "cancel.hold"}

\* Every row, local and level has the shape its column or variable gives it.
TypeOK ==
  /\ order \in [Orders -> OrderRow]
  /\ invoice \in [Invoices -> InvoiceRow]
  /\ dispatch \in Warehouses \cup {NoWarehouse}
  /\ Stock!ShelfTypeOK
  /\ shipped \in [Invoices -> Int]
  /\ slot \in [Slots ->
       [step : Steps, order : Orders \cup {NoOrder}, invoice : Invoices \cup {NoInvoice},
        quantity : 0..MaxQuantity, line : Lines \cup {NoLine},
        status : OrderStatuses \cup InvoiceStatuses \cup {"none"}]]

Quiet == \A s \in Slots : At(s, "idle")

\* A hold belongs to the line an existing order has now, never to a replaced or
\* deleted one, and is never more than that line promises.
HoldWithinPromise ==
  \A l \in Lines : held[l] # Stock!NoHold =>
    /\ Exists(order[l[1]])
    /\ l = Line(l[1])
    /\ held[l].quantity <= order[l[1]].quantity

\* Whatever the documents do and wherever a request is dropped, the stock rows
\* only ever change by whole transactions of the repository: every step is a
\* step of module Shelf, and what is proved of Shelf holds here.
StockSpec == Stock!ShelfSpec

\* With invoicing as what ships, an invoice's goods are out exactly while it is
\* issued: sending moves them once, cancelling an issued one brings them back
\* and cancelling or deleting a draft moves nothing.
IssuedMeansShipped ==
  Quiet /\ ShipsAutomatically =>
    \A i \in Invoices :
      shipped[i] = IF IsIssued(invoice[i].status) THEN invoice[i].quantity ELSE 0

ShippedFor(o) == MapThenSumSet(LAMBDA i : shipped[i], Linked(o))

\* An order that reads shipped or delivered has shipped all it promised.
GoneMeansGone ==
  ShipsAutomatically =>
    \A o \in Orders :
      AssertsGoodsHaveLeft(order[o].status) => ShippedFor(o) >= order[o].quantity

\* What the documents say has gone is what the shelves have lost: invoices while
\* they are issued, and orders that read shipped.
GoodsMatchDocuments == IssuedMeansShipped /\ GoneMeansGone

\* reserved_quantity counts the reservation rows and nothing else: no edit,
\* deletion or cancellation leaves it counting a hold that nothing records.
ReservedIsHeld ==
  \A w \in Warehouses : Cardinality(Stock!UnitsHeld(w)) = reserved[w]

\* No two handlers are in flight.
OneInFlight == \A s, r \in Slots : s = r \/ At(s, "idle") \/ At(r, "idle")

\* As long as requests come one at a time that is so, also where a client drops
\* its request half-way: an edit lets go of the lines it replaces before it writes
\* them, never after.
ReservedInTurn == []OneInFlight => []ReservedIsHeld

\* The live instalments that point at a line never bill more than it promises.
BilledWithinLine ==
  \A o \in Orders :
    MapThenSumSet(LAMBDA i : invoice[i].quantity,
                  {i \in Linked(o) : invoice[i].status \in InvoiceStatuses \ {"cancelled"}})
      <= order[o].quantity

\* Nothing is held for a draft or a cancelled order once its request is over.
HeldOnlyWhenPromised ==
  Quiet =>
    \A o \in Orders :
      order[o].line > 0 /\ held[Line(o)] # Stock!NoHold =>
        order[o].status \notin {"draft", "cancelled"}

\* What orders hold and what the levels count as promised agree, whatever became
\* of the orders.
HoldsMatchOrders == ReservedIsHeld /\ HeldOnlyWhenPromised

\* A cancelled order does not come back, also when what was billed from it is
\* issued or cancelled later (OrderStatus::after_invoice).
CancelledStaysCancelled ==
  [][\A o \in Orders : order[o].status = "cancelled" => order'[o].status = "cancelled"]_vars

\* A cancelled order gives back what it holds, for good.
CancelledLetsGo ==
  \A o \in Orders :
    (order[o].status = "cancelled") ~>
      [](order[o].line > 0 => held[Line(o)] = Stock!NoHold)

-----------------------------------------------------------------------------
(* What the documentation and the comments say, and the code does not do *)

\* README, "What shipped means": an order cannot sit in shipped or delivered
\* with goods on the shelf that are still reserved for it.
ShippedHoldsNothing ==
  Quiet =>
    \A o \in Orders :
      AssertsGoodsHaveLeft(order[o].status) => held[Line(o)] = Stock!NoHold

\* README, "Billing an order in instalments": an order may not bill the same
\* units twice, so raising one more instalment never takes what its live
\* invoices bill past what it promised.
BilledFor(o) ==
  MapThenSumSet(LAMBDA i : invoice[i].quantity,
                {i \in Invoices : invoice[i].order = o
                   /\ Exists(invoice[i]) /\ invoice[i].status # "cancelled"})

NeverBilledTwice ==
  [][\A o \in Orders, i \in Invoices :
       invoice[i].status = "none" /\ invoice'[i].status = "draft" /\ invoice'[i].order = o
         => BilledFor(o)' <= order[o].quantity]_vars
=============================================================================
