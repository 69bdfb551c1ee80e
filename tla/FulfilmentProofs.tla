-------------------------- MODULE FulfilmentProofs --------------------------
(***************************************************************************)
(* What is proved of Fulfilment, for any orders, invoices, warehouses,     *)
(* quantities and handlers, overlapping and dropped as they may be.  First *)
(* the documents: what rows and locals can be, whatever the shelf does.    *)
(* From that every step that touches the stock rows is a transaction of    *)
(* Shelf, so what ShelfProofs proves holds of them.  With it the holds     *)
(* can be followed: each belongs to the line its order has now.  Last,     *)
(* what is true only as long as requests do not overlap: what holds are    *)
(* for, what is billed of a line, and where the goods are.                 *)
(***************************************************************************)
EXTENDS Fulfilment, Sums, FiniteSetTheorems, TLAPS

-----------------------------------------------------------------------------
(* The documents *)

OrderSteps ==
  {"update.release", "update.write", "update.hold", "status.write", "status.hold",
   "status.release", "order.delete", "bill.create", "send.advanceWrite", "cancel.hold"}
InvoiceSteps ==
  {"edit.write", "invoice.delete", "send.ship", "send.write", "send.advance",
   "cancel.write", "cancel.return", "cancel.release"}

LocalsType ==
  [step : Steps, order : Orders \cup {NoOrder}, invoice : Invoices \cup {NoInvoice},
   quantity : 0..MaxQuantity, line : Lines \cup {NoLine},
   status : OrderStatuses \cup InvoiceStatuses \cup {"none"}]

\* What a handler carries to the call it makes next.
LocalsFit(x) ==
  /\ x \in LocalsType
  /\ x.step \in OrderSteps => x.order \in Orders
  /\ x.step \in InvoiceSteps => x.invoice \in Invoices
  /\ x.step \in {"update.release", "update.write", "bill.create", "edit.write"} =>
       x.quantity \in Quantities
  /\ x.step = "bill.create" => x.line \in Lines
  /\ x.step = "status.write" => x.status \in OrderStatuses \ {"draft"}

\* The handlers about to replace the line of an order.
Editing(o) ==
  {s \in Slots : slot[s].order = o /\ slot[s].step \in {"update.release", "update.write"}}

OrdersFit ==
  /\ order \in [Orders -> OrderRow]
  /\ \A o \in Orders :
       /\ Exists(order[o]) => order[o].quantity \in Quantities /\ order[o].line \in 1..MaxLines
       /\ order[o].status = "none" => Editing(o) = {}
       /\ order[o].line + Cardinality(Editing(o)) <= MaxLines

InvoicesFit ==
  /\ invoice \in [Invoices -> InvoiceRow]
  /\ \A i \in Invoices : Exists(invoice[i]) => invoice[i].quantity \in Quantities

HandlersFit ==
  /\ slot \in [Slots -> LocalsType]
  /\ \A s \in Slots : LocalsFit(slot[s])

DocumentsInv ==
  /\ OrdersFit /\ InvoicesFit /\ HandlersFit
  /\ dispatch \in Warehouses \cup {NoWarehouse}

-----------------------------------------------------------------------------
\* Nobody edits an order before the first request.
LEMMA DocumentsInit == Init => DocumentsInv
<1> SUFFICES ASSUME Init PROVE DocumentsInv
  OBVIOUS
<1>1. slot = [s \in Slots |-> Idle] /\ dispatch \in Warehouses \cup {NoWarehouse}
  BY DEF Init
<1>2. LocalsFit(Idle)
  BY NamesAssumption
     DEF Idle, LocalsFit, LocalsType, Steps, OrderSteps, InvoiceSteps, OrderStatuses,
         InvoiceStatuses, NoLine
<1>3. HandlersFit
  BY <1>1, <1>2 DEF HandlersFit, LocalsFit
<1>4. ASSUME NEW o \in Orders PROVE Editing(o) = {}
  BY <1>1 DEF Editing, Idle
<1>5. Cardinality({}) = 0
  BY FS_EmptySet
<1>6. OrdersFit
  <2>1. order = [o \in Orders |-> [status |-> "none", quantity |-> 0, line |-> 0]]
    BY DEF Init
  <2>2. order \in [Orders -> OrderRow]
    BY <2>1, NamesAssumption DEF OrderRow, Missing
  <2>3. ASSUME NEW o \in Orders
        PROVE  /\ ~Exists(order[o]) /\ Editing(o) = {}
               /\ order[o].line + Cardinality(Editing(o)) <= MaxLines
    BY <1>4, <1>5, <2>1, <2>3, NamesAssumption DEF Exists, Missing
  <2> QED
    BY <2>2, <2>3 DEF OrdersFit
<1>7. InvoicesFit
  BY NamesAssumption DEF Init, InvoicesFit, InvoiceRow, Exists, Missing, NoLine
<1> QED
  BY <1>1, <1>3, <1>6, <1>7 DEF DocumentsInv

\* Fewer handlers edit an order once one of them has gone on to another call.
LEMMA EditingShrinks ==
  ASSUME HandlersFit, NEW s \in Slots, NEW x,
         slot' = [slot EXCEPT ![s] = x],
         x.step \notin {"update.release", "update.write"}
           \/ (slot[s].step \in {"update.release", "update.write"} /\ x.order = slot[s].order),
         NEW o \in Orders
  PROVE  /\ Editing(o)' \subseteq Editing(o)
         /\ Cardinality(Editing(o)') \in Nat /\ Cardinality(Editing(o)) \in Nat
         /\ Cardinality(Editing(o)') <= Cardinality(Editing(o))
<1>1. Editing(o)' \subseteq Editing(o)
  BY DEF Editing, HandlersFit
<1>2. Editing(o) \subseteq Slots
  BY DEF Editing
<1> QED
  BY <1>1, <1>2, FiniteAssumption, FS_Subset, FS_CardinalityType

-----------------------------------------------------------------------------
(* Locals *)

Carrying(step, o, i, quantity, line, status) ==
  [step |-> step, order |-> o, invoice |-> i, quantity |-> quantity, line |-> line,
   status |-> status]

\* What OrderLocals and InvoiceLocals come to.
LEMMA LocalsAre ==
  ASSUME NEW step, NEW o, NEW i
  PROVE  /\ Idle = Carrying("idle", NoOrder, NoInvoice, 0, NoLine, "none")
         /\ OrderLocals(step, o) = Carrying(step, o, NoInvoice, 0, NoLine, "none")
         /\ InvoiceLocals(step, i) = Carrying(step, NoOrder, i, 0, NoLine, invoice[i].status)
<1>1. Idle = Carrying("idle", NoOrder, NoInvoice, 0, NoLine, "none")
  BY DEF Idle, Carrying
<1>2. PICK p : p = [Idle EXCEPT !.step = step]
  OBVIOUS
<1>3. p = Carrying(step, NoOrder, NoInvoice, 0, NoLine, "none")
  BY <1>1, <1>2 DEF Carrying
<1>4. [p EXCEPT !.order = o] = Carrying(step, o, NoInvoice, 0, NoLine, "none")
  BY <1>3 DEF Carrying
<1>5. OrderLocals(step, o) = [p EXCEPT !.order = o]
  BY <1>2, Zenon DEF OrderLocals
<1>6. PICK b : b = [p EXCEPT !.invoice = i]
  OBVIOUS
<1>7. b = Carrying(step, NoOrder, i, 0, NoLine, "none")
  BY <1>3, <1>6 DEF Carrying
<1>8. [b EXCEPT !.status = invoice[i].status]
        = Carrying(step, NoOrder, i, 0, NoLine, invoice[i].status)
  BY <1>7 DEF Carrying
<1>9. InvoiceLocals(step, i) = [b EXCEPT !.status = invoice[i].status]
  BY <1>2, <1>6, Zenon DEF InvoiceLocals
<1> QED
  BY <1>1, <1>4, <1>5, <1>8, <1>9, Zenon

\* A handler that goes on to its next call carries what it carried.
LEMMA CarriesOn ==
  ASSUME NEW x, LocalsFit(x), NEW step \in Steps,
         step \in OrderSteps => x.step \in OrderSteps,
         step \in InvoiceSteps => x.step \in InvoiceSteps,
         step \notin {"update.release", "bill.create", "edit.write", "status.write"},
         step = "update.write" => x.step = "update.release"
  PROVE  /\ LocalsFit([x EXCEPT !.step = step])
         /\ [x EXCEPT !.step = step] = Carrying(step, x.order, x.invoice, x.quantity, x.line, x.status)
<1>1. x = Carrying(x.step, x.order, x.invoice, x.quantity, x.line, x.status)
  BY DEF LocalsFit, LocalsType, Carrying
<1>2. [x EXCEPT !.step = step] = Carrying(step, x.order, x.invoice, x.quantity, x.line, x.status)
  BY <1>1 DEF Carrying
<1>3. Carrying(step, x.order, x.invoice, x.quantity, x.line, x.status) \in LocalsType
  BY DEF LocalsFit, LocalsType, Carrying
<1>4. LocalsFit(Carrying(step, x.order, x.invoice, x.quantity, x.line, x.status))
  BY <1>3 DEF LocalsFit, Carrying
<1> QED
  BY <1>2, <1>4

\* A handler that is done carries nothing.
LEMMA IdleFits == LocalsFit(Idle) /\ Idle.step = "idle"
BY NamesAssumption
   DEF Idle, LocalsFit, LocalsType, Steps, OrderSteps, InvoiceSteps, NoLine

-----------------------------------------------------------------------------
(* Steps of the documents *)

\* Locals that fit, and rows that keep their shape, leave nothing to edit that
\* there is no spare line for.
LEMMA DocumentsStep ==
  ASSUME DocumentsInv, NEW s \in Slots, NEW x, LocalsFit(x),
         slot' = [slot EXCEPT ![s] = x],
         x.step \notin {"update.release", "update.write"}
           \/ (slot[s].step \in {"update.release", "update.write"} /\ x.order = slot[s].order),
         order' \in [Orders -> OrderRow],
         \A o \in Orders :
           /\ Exists(order'[o]) =>
                order'[o].quantity \in Quantities /\ order'[o].line \in 1..MaxLines
           /\ order'[o].status = "none" => order[o].status = "none"
           /\ order'[o].line = order[o].line,
         InvoicesFit', dispatch' = dispatch
  PROVE  DocumentsInv'
<1>1. HandlersFit'
  BY DEF DocumentsInv, HandlersFit, LocalsFit
<1>2. ASSUME NEW o \in Orders
      PROVE  /\ order'[o].status = "none" => Editing(o)' = {}
             /\ order'[o].line + Cardinality(Editing(o)') <= MaxLines
  <2>1. /\ Editing(o)' \subseteq Editing(o)
        /\ Cardinality(Editing(o)') \in Nat /\ Cardinality(Editing(o)) \in Nat
        /\ Cardinality(Editing(o)') <= Cardinality(Editing(o))
    BY EditingShrinks DEF DocumentsInv
  <2>2. /\ order[o].status = "none" => Editing(o) = {}
        /\ order[o].line + Cardinality(Editing(o)) <= MaxLines
        /\ order[o].line \in Nat
    BY NamesAssumption DEF DocumentsInv, OrdersFit, OrderRow
  <2> QED
    BY <2>1, <2>2, NamesAssumption
<1>3. OrdersFit'
  BY <1>2 DEF OrdersFit, Exists
<1> QED
  BY <1>1, <1>3 DEF DocumentsInv

\* In particular when no order changes.
LEMMA OrdersKept ==
  ASSUME DocumentsInv, NEW s \in Slots, NEW x, LocalsFit(x),
         slot' = [slot EXCEPT ![s] = x],
         x.step \notin {"update.release", "update.write"}
           \/ (slot[s].step \in {"update.release", "update.write"} /\ x.order = slot[s].order),
         order' = order, InvoicesFit', dispatch' = dispatch
  PROVE  DocumentsInv'
<1>1. /\ order' \in [Orders -> OrderRow]
      /\ \A o \in Orders :
           /\ Exists(order'[o]) =>
                order'[o].quantity \in Quantities /\ order'[o].line \in 1..MaxLines
           /\ order'[o].status = "none" => order[o].status = "none"
           /\ order'[o].line = order[o].line
  BY DEF DocumentsInv, OrdersFit
<1> QED
  BY <1>1, DocumentsStep

\* An order whose line is to be replaced has a line to spare.
LEMMA ReadOrderToUpdateFits ==
  ASSUME DocumentsInv, NEW s \in Slots, NEW o \in Orders, NEW n \in Quantities,
         ReadOrderToUpdate(s, o, n)
  PROVE  DocumentsInv'
<1> DEFINE step == IF order[o].status = "confirmed" THEN "update.release" ELSE "update.write"
           x == Carrying(step, o, NoInvoice, n, NoLine, order[o].status)
<1>1. /\ [OrderLocals(step, o) EXCEPT !.quantity = n, !.status = order[o].status] = x
      /\ step \in {"update.release", "update.write"}
  <2>1. PICK q : q = OrderLocals(step, o)
    OBVIOUS
  <2>2. q = Carrying(step, o, NoInvoice, 0, NoLine, "none")
    BY <2>1, LocalsAre, Zenon
  <2>3. PICK r : r = [q EXCEPT !.quantity = n]
    OBVIOUS
  <2>4. r = Carrying(step, o, NoInvoice, n, NoLine, "none")
    BY <2>2, <2>3 DEF Carrying
  <2>5. [r EXCEPT !.status = order[o].status] = x
    BY <2>4 DEF Carrying
  <2> QED
    BY <2>1, <2>3, <2>5, Zenon
<1>2. slot' = [slot EXCEPT ![s] = x] /\ At(s, "idle") /\ SpareLine(o)
  BY <1>1, Zenon DEF ReadOrderToUpdate, Begin
<1>3. order[o].status \in {"draft", "confirmed"}
  BY DEF ReadOrderToUpdate, OrderEditable
<1>4. UNCHANGED <<order, invoice, dispatch>>
  BY DEF ReadOrderToUpdate
<1>5. x.step \in {"update.release", "update.write"} /\ x.order = o /\ x.quantity = n
      /\ x \in LocalsType
  BY <1>1, <1>3, NamesAssumption
     DEF Carrying, LocalsType, Steps, OrderStatuses, Quantities, NoLine
<1>6. LocalsFit(x)
  BY <1>5 DEF LocalsFit, OrderSteps, InvoiceSteps
<1> HIDE DEF x, step
<1>7. HandlersFit'
  BY <1>2, <1>6 DEF DocumentsInv, HandlersFit, LocalsFit
<1>8. s \notin Editing(o) /\ Editing(o)' = Editing(o) \cup {s}
  BY <1>2, <1>5 DEF Editing, At, DocumentsInv, HandlersFit
<1>9. order[o].line + Cardinality(Editing(o)) < MaxLines
  BY <1>2 DEF SpareLine, Editing
<1>10. IsFiniteSet(Editing(o)) /\ Cardinality(Editing(o)) \in Nat
  <2>1. Editing(o) \subseteq Slots
    BY DEF Editing
  <2> QED
    BY <2>1, FiniteAssumption, FS_Subset, FS_CardinalityType
<1>11. Cardinality(Editing(o)') = Cardinality(Editing(o)) + 1
  BY <1>8, <1>10, FS_AddElement
<1>12. ASSUME NEW p \in Orders \ {o} PROVE Editing(p)' = Editing(p)
  BY <1>2, <1>5, NamesAssumption DEF Editing, At, DocumentsInv, HandlersFit
<1>13. OrdersFit'
  <2>1. order[o].line + Cardinality(Editing(o)') <= MaxLines
    BY <1>9, <1>10, <1>11, NamesAssumption DEF DocumentsInv, OrdersFit, OrderRow
  <2>2. order[o].status # "none"
    BY <1>3
  <2> QED
    BY <1>4, <1>12, <2>1, <2>2 DEF DocumentsInv, OrdersFit, Exists
<1> QED
  BY <1>4, <1>7, <1>13 DEF DocumentsInv, InvoicesFit, Exists

\* The other requests read an order or an invoice that is on file, and carry it.
LEMMA OtherRequestsFit ==
  ASSUME DocumentsInv, NEW s \in Slots,
         \/ \E o \in Orders :
              \/ \E n \in Quantities : ReadOrderToBill(s, o, n)
              \/ \E status \in OrderStatuses : ReadOrderToSetStatus(s, o, status)
              \/ ReadOrderToDelete(s, o)
         \/ BeginInvoiceRequest(s)
  PROVE  DocumentsInv'
<1>1. ASSUME NEW x, LocalsFit(x), x.step \notin {"update.release", "update.write"},
             NEW request, Begin(s, request, x), UNCHANGED <<order, invoice, dispatch>>
      PROVE  DocumentsInv'
  <2>1. slot' = [slot EXCEPT ![s] = x] /\ InvoicesFit'
    BY <1>1 DEF Begin, DocumentsInv, InvoicesFit, Exists
  <2> QED
    BY <1>1, <2>1, OrdersKept
<1>2. ASSUME NEW o \in Orders, NEW n \in Quantities, ReadOrderToBill(s, o, n)
      PROVE  DocumentsInv'
  <2>1. Begin(s, "invoice.convert", Carrying("bill.create", o, NoInvoice, n, Line(o), "none"))
    <3>1. PICK q : q = OrderLocals("bill.create", o)
      OBVIOUS
    <3>2. q = Carrying("bill.create", o, NoInvoice, 0, NoLine, "none")
      BY <3>1, LocalsAre, Zenon
    <3>3. PICK r : r = [q EXCEPT !.quantity = n]
      OBVIOUS
    <3>4. r = Carrying("bill.create", o, NoInvoice, n, NoLine, "none")
      BY <3>2, <3>3 DEF Carrying
    <3>5. [r EXCEPT !.line = Line(o)] = Carrying("bill.create", o, NoInvoice, n, Line(o), "none")
      BY <3>4 DEF Carrying
    <3>6. Begin(s, "invoice.convert", [r EXCEPT !.line = Line(o)])
      BY <1>2, <3>1, <3>3, Zenon DEF ReadOrderToBill
    <3> QED
      BY <3>5, <3>6, Zenon
  <2>2. Exists(order[o]) /\ UNCHANGED <<order, invoice, dispatch>>
    BY <1>2 DEF ReadOrderToBill, Invoiceable, Exists, Missing
  <2>3. Line(o) \in Lines
    BY <2>2 DEF DocumentsInv, OrdersFit, Line, Lines
  <2>4. LocalsFit(Carrying("bill.create", o, NoInvoice, n, Line(o), "none"))
    BY <2>3, NamesAssumption
       DEF Carrying, LocalsFit, LocalsType, Steps, OrderSteps, InvoiceSteps, Quantities
  <2>5. Carrying("bill.create", o, NoInvoice, n, Line(o), "none").step = "bill.create"
    BY DEF Carrying
  <2> QED
    BY <1>1, <2>1, <2>2, <2>4, <2>5
<1>3. ASSUME NEW o \in Orders, NEW status \in OrderStatuses, ReadOrderToSetStatus(s, o, status)
      PROVE  DocumentsInv'
  <2>1. Begin(s, "order.status", Carrying("status.write", o, NoInvoice, 0, NoLine, status))
    <3>1. PICK q : q = OrderLocals("status.write", o)
      OBVIOUS
    <3>2. q = Carrying("status.write", o, NoInvoice, 0, NoLine, "none")
      BY <3>1, LocalsAre, Zenon
    <3>3. [q EXCEPT !.status = status] = Carrying("status.write", o, NoInvoice, 0, NoLine, status)
      BY <3>2 DEF Carrying
    <3>4. Begin(s, "order.status", [q EXCEPT !.status = status])
      BY <1>3, <3>1, Zenon DEF ReadOrderToSetStatus
    <3> QED
      BY <3>3, <3>4, Zenon
  <2>2. status # "draft" /\ UNCHANGED <<order, invoice, dispatch>>
    BY <1>3 DEF ReadOrderToSetStatus, OrderTransitions
  <2>3. LocalsFit(Carrying("status.write", o, NoInvoice, 0, NoLine, status))
    BY <2>2, NamesAssumption
       DEF Carrying, LocalsFit, LocalsType, Steps, OrderSteps, InvoiceSteps
  <2>4. Carrying("status.write", o, NoInvoice, 0, NoLine, status).step = "status.write"
    BY DEF Carrying
  <2> QED
    BY <1>1, <2>1, <2>2, <2>3, <2>4
<1>4. ASSUME NEW o \in Orders, ReadOrderToDelete(s, o) PROVE DocumentsInv'
  <2>1. Begin(s, "order.delete", Carrying("order.delete", o, NoInvoice, 0, NoLine, "none"))
    BY <1>4, LocalsAre, Zenon DEF ReadOrderToDelete
  <2>2. UNCHANGED <<order, invoice, dispatch>>
    BY <1>4 DEF ReadOrderToDelete
  <2>3. LocalsFit(Carrying("order.delete", o, NoInvoice, 0, NoLine, "none"))
    BY NamesAssumption DEF Carrying, LocalsFit, LocalsType, Steps, OrderSteps, InvoiceSteps
  <2>4. Carrying("order.delete", o, NoInvoice, 0, NoLine, "none").step = "order.delete"
    BY DEF Carrying
  <2> QED
    BY <1>1, <2>1, <2>2, <2>3, <2>4
<1>5. ASSUME NEW i \in Invoices, NEW n \in 0..MaxQuantity, NEW step \in InvoiceSteps,
             step = "edit.write" => n \in Quantities,
             invoice[i].status \in InvoiceStatuses,
             NEW request, Begin(s, request, Carrying(step, NoOrder, i, n, NoLine, invoice[i].status)),
             UNCHANGED <<order, invoice, dispatch>>
      PROVE  DocumentsInv'
  <2>1. LocalsFit(Carrying(step, NoOrder, i, n, NoLine, invoice[i].status))
    BY <1>5, NamesAssumption
       DEF Carrying, LocalsFit, LocalsType, Steps, OrderSteps, InvoiceSteps
  <2>2. Carrying(step, NoOrder, i, n, NoLine, invoice[i].status).step = step
    BY DEF Carrying
  <2>3. step \notin {"update.release", "update.write"}
    BY DEF InvoiceSteps
  <2> QED
    BY <1>1, <1>5, <2>1, <2>2, <2>3
<1>6. ASSUME NEW i \in Invoices, NEW n \in Quantities, ReadInvoiceToUpdate(s, i, n)
      PROVE  DocumentsInv'
  <2>1. Begin(s, "invoice.update", Carrying("edit.write", NoOrder, i, n, NoLine, invoice[i].status))
    <3>1. PICK q : q = InvoiceLocals("edit.write", i)
      OBVIOUS
    <3>2. q = Carrying("edit.write", NoOrder, i, 0, NoLine, invoice[i].status)
      BY <3>1, LocalsAre, Zenon
    <3>3. [q EXCEPT !.quantity = n]
            = Carrying("edit.write", NoOrder, i, n, NoLine, invoice[i].status)
      BY <3>2 DEF Carrying
    <3>4. Begin(s, "invoice.update", [q EXCEPT !.quantity = n])
      BY <1>6, <3>1, Zenon DEF ReadInvoiceToUpdate
    <3> QED
      BY <3>3, <3>4, Zenon
  <2>2. UNCHANGED <<order, invoice, dispatch>> /\ invoice[i].status \in InvoiceStatuses
        /\ n \in 0..MaxQuantity
    BY <1>6, NamesAssumption DEF ReadInvoiceToUpdate, InvoiceEditable, InvoiceStatuses, Quantities
  <2> QED
    BY <1>5, <2>1, <2>2 DEF InvoiceSteps
<1>7. ASSUME NEW i \in Invoices,
             ReadInvoiceToDelete(s, i) \/ ReadInvoiceToSend(s, i) \/ ReadInvoiceToCancel(s, i)
      PROVE  DocumentsInv'
  <2>1. PICK step \in {"invoice.delete", "send.ship", "cancel.write"},
             request \in {"invoice.delete", "invoice.send", "invoice.cancel"} :
          Begin(s, request, InvoiceLocals(step, i))
    BY <1>7, Zenon DEF ReadInvoiceToDelete, ReadInvoiceToSend, ReadInvoiceToCancel
  <2>2. Begin(s, request, Carrying(step, NoOrder, i, 0, NoLine, invoice[i].status))
    BY <2>1, LocalsAre, Zenon
  <2>3. UNCHANGED <<order, invoice, dispatch>> /\ invoice[i].status \in InvoiceStatuses
        /\ 0 \in 0..MaxQuantity
    BY <1>7, NamesAssumption
       DEF ReadInvoiceToDelete, ReadInvoiceToSend, ReadInvoiceToCancel, InvoiceEditable,
           CanCancel, InvoiceStatuses
  <2> QED
    BY <1>5, <2>2, <2>3 DEF InvoiceSteps
<1> QED
  BY <1>2, <1>3, <1>4, <1>6, <1>7 DEF BeginInvoiceRequest

\* Going on to the next call, and being done, when no order changes.
LEMMA ContinueFits ==
  ASSUME DocumentsInv, NEW s \in Slots, NEW step \in Steps, Continue(s, step),
         step \in OrderSteps => slot[s].step \in OrderSteps,
         step \in InvoiceSteps => slot[s].step \in InvoiceSteps,
         step \notin {"update.release", "bill.create", "edit.write", "status.write"},
         step = "update.write" => slot[s].step = "update.release",
         order' = order, InvoicesFit', dispatch' = dispatch
  PROVE  DocumentsInv'
<1>1. PICK old : old = slot[s]
  OBVIOUS
<1>2. LocalsFit(old)
  BY <1>1 DEF DocumentsInv, HandlersFit
<1>3. PICK x : x = [old EXCEPT !.step = step]
  OBVIOUS
<1>4. /\ LocalsFit(x)
      /\ x = Carrying(step, old.order, old.invoice, old.quantity, old.line, old.status)
  BY <1>1, <1>2, <1>3, CarriesOn, Zenon
<1>5. slot' = [slot EXCEPT ![s] = x]
  BY <1>1, <1>3, Zenon DEF Continue
<1>6. x.step = step /\ x.order = slot[s].order
  BY <1>1, <1>4 DEF Carrying
<1>7. x.step \notin {"update.release", "update.write"}
        \/ (slot[s].step \in {"update.release", "update.write"} /\ x.order = slot[s].order)
  BY <1>6
<1> QED
  BY <1>4, <1>5, <1>7, OrdersKept

\* A handler that ends carries nothing on.
LEMMA FinishFits ==
  ASSUME DocumentsInv, NEW s \in Slots, Finish(s),
         order' = order, InvoicesFit', dispatch' = dispatch
  PROVE  DocumentsInv'
<1>1. slot' = [slot EXCEPT ![s] = Idle]
  BY DEF Finish
<1>2. Idle.step \notin {"update.release", "update.write"}
  BY IdleFits
<1> QED
  BY <1>1, <1>2, IdleFits, OrdersKept

\* The line is replaced by one that was spared for it.
LEMMA WriteOrderFits ==
  ASSUME DocumentsInv, NEW s \in Slots, WriteOrder(s)
  PROVE  DocumentsInv'
<1>1. PICK o \in Orders : o = slot[s].order
  BY DEF WriteOrder, At, OrderSteps, DocumentsInv, HandlersFit, LocalsFit
<1>2. /\ slot[s].step = "update.write" /\ Exists(order[o]) /\ dispatch' = dispatch
      /\ slot[s].quantity \in Quantities
  BY <1>1 DEF WriteOrder, At, DocumentsInv, HandlersFit, LocalsFit
<1>3. PICK x : /\ LocalsFit(x) /\ slot' = [slot EXCEPT ![s] = x]
               /\ x.step \notin {"update.release", "update.write"}
  <2>1. CASE Finish(s)
    BY <2>1, IdleFits DEF Finish
  <2>2. CASE Continue(s, "update.hold")
    <3>1. PICK old : old = slot[s]
      OBVIOUS
    <3>2. LocalsFit(old) /\ old.step = "update.write"
      BY <1>2, <3>1 DEF DocumentsInv, HandlersFit
    <3>3. PICK y : y = [old EXCEPT !.step = "update.hold"]
      OBVIOUS
    <3>4. /\ LocalsFit(y)
          /\ y = Carrying("update.hold", old.order, old.invoice, old.quantity, old.line, old.status)
      <4>1. "update.hold" \in Steps \ InvoiceSteps /\ old.step \in OrderSteps
        BY <3>2 DEF Steps, OrderSteps, InvoiceSteps
      <4> QED
        BY <3>2, <3>3, <4>1, CarriesOn
    <3>5. slot' = [slot EXCEPT ![s] = y]
      BY <2>2, <3>1, <3>3, Zenon DEF Continue
    <3>6. y.step = "update.hold"
      BY <3>4 DEF Carrying
    <3> QED
      BY <3>4, <3>5, <3>6
  <2> QED
    BY <2>1, <2>2 DEF WriteOrder
<1>4. HandlersFit'
  BY <1>3 DEF DocumentsInv, HandlersFit, LocalsFit
<1>5. InvoicesFit'
  <2>1. invoice' = [i \in Invoices |-> IF i \in Linked(o)
                                         THEN [invoice[i] EXCEPT !.line = NoLine]
                                         ELSE invoice[i]]
    BY <1>1, Zenon DEF WriteOrder
  <2>2. ASSUME NEW i \in Invoices
        PROVE  /\ invoice'[i] \in InvoiceRow
               /\ invoice'[i].status = invoice[i].status
               /\ invoice'[i].quantity = invoice[i].quantity
    BY <2>1 DEF DocumentsInv, InvoicesFit, InvoiceRow
  <2> QED
    BY <2>1, <2>2 DEF DocumentsInv, InvoicesFit, Exists
<1>6. Editing(o)' = Editing(o) \ {s} /\ s \in Editing(o)
  BY <1>1, <1>2, <1>3 DEF Editing, DocumentsInv, HandlersFit
<1>7. IsFiniteSet(Editing(o)) /\ Cardinality(Editing(o)) \in Nat
  <2>1. Editing(o) \subseteq Slots
    BY DEF Editing
  <2> QED
    BY <2>1, FiniteAssumption, FS_Subset, FS_CardinalityType
<1>8. Cardinality(Editing(o)') = Cardinality(Editing(o)) - 1
  BY <1>6, <1>7, FS_RemoveElement
<1>9. order[o].line + Cardinality(Editing(o)) <= MaxLines /\ order[o].line \in 1..MaxLines
  BY <1>2 DEF DocumentsInv, OrdersFit
<1>10. /\ order[o].line + 1 \in 1..MaxLines
       /\ order[o].line + 1 + Cardinality(Editing(o)') <= MaxLines
  <2>1. Cardinality(Editing(o)') \in Nat
    <3>1. Editing(o)' \subseteq Slots
      BY DEF Editing
    <3> QED
      BY <3>1, FiniteAssumption, FS_Subset, FS_CardinalityType
  <2> QED
    BY <1>7, <1>8, <1>9, <2>1, NamesAssumption
<1>11. PICK row : row = order[o]
  OBVIOUS
<1>12. row = [status |-> row.status, quantity |-> row.quantity, line |-> row.line]
       /\ row.status \in OrderStatuses
  BY <1>2, <1>11 DEF DocumentsInv, OrdersFit, OrderRow, Exists
<1>13. order' = [order EXCEPT ![o] = [status |-> row.status, quantity |-> slot[s].quantity,
                                       line |-> row.line + 1]]
  <2>1. PICK p : p = [row EXCEPT !.quantity = slot[s].quantity]
    OBVIOUS
  <2>2. p = [status |-> row.status, quantity |-> slot[s].quantity, line |-> row.line]
    BY <1>12, <2>1
  <2>3. PICK f : f = [order EXCEPT ![o] = p]
    OBVIOUS
  <2>4. f[o] = p
    BY <2>3 DEF DocumentsInv, OrdersFit
  <2>5. PICK q : q = [p EXCEPT !.line = p.line + 1]
    OBVIOUS
  <2>6. q = [status |-> row.status, quantity |-> slot[s].quantity, line |-> row.line + 1]
    BY <2>2, <2>5
  <2>7. order' = [order EXCEPT ![o].quantity = slot[s].quantity, ![o].line = @ + 1]
    BY <1>1, Zenon DEF WriteOrder
  <2>8. order' = [f EXCEPT ![o] = q]
    BY <1>11, <2>1, <2>3, <2>4, <2>5, <2>7, ZenonT(60)
  <2> QED
    BY <2>3, <2>6, <2>8 DEF DocumentsInv, OrdersFit
<1>14. order' \in [Orders -> OrderRow]
  BY <1>2, <1>10, <1>11, <1>12, <1>13, NamesAssumption
     DEF DocumentsInv, OrdersFit, OrderRow, Quantities
<1>15. ASSUME NEW p \in Orders
       PROVE  /\ Exists(order'[p]) => order'[p].quantity \in Quantities /\ order'[p].line \in 1..MaxLines
              /\ order'[p].status = "none" => Editing(p)' = {}
              /\ order'[p].line + Cardinality(Editing(p)') <= MaxLines
  <2>1. CASE p = o
    <3>1. order'[o].status = row.status /\ order'[o].quantity = slot[s].quantity
          /\ order'[o].line = order[o].line + 1
      BY <1>11, <1>13 DEF DocumentsInv, OrdersFit
    <3>2. row.status # "none"
      BY <1>12 DEF OrderStatuses
    <3> QED
      BY <1>2, <1>10, <2>1, <3>1, <3>2
  <2>2. CASE p # o
    <3>1. order'[p] = order[p]
      BY <1>13, <2>2 DEF DocumentsInv, OrdersFit
    <3>2. /\ Editing(p)' \subseteq Editing(p)
          /\ Cardinality(Editing(p)') \in Nat /\ Cardinality(Editing(p)) \in Nat
          /\ Cardinality(Editing(p)') <= Cardinality(Editing(p))
      BY <1>3, EditingShrinks DEF DocumentsInv
    <3>3. order[p].line \in Nat /\ order[p].line + Cardinality(Editing(p)) <= MaxLines
      BY NamesAssumption DEF DocumentsInv, OrdersFit, OrderRow
    <3> QED
      BY <3>1, <3>2, <3>3, NamesAssumption DEF DocumentsInv, OrdersFit
  <2> QED
    BY <2>1, <2>2
<1> QED
  BY <1>2, <1>4, <1>5, <1>14, <1>15 DEF DocumentsInv, OrdersFit, Exists

\* A new status for an order that is on file, or its deletion.
LEMMA StatusFits ==
  ASSUME DocumentsInv, NEW o \in Orders, NEW st \in OrderStatuses \cup {"deleted"},
         Exists(order[o]), order' = [order EXCEPT ![o].status = st]
  PROVE  /\ order' \in [Orders -> OrderRow]
         /\ \A p \in Orders :
              /\ Exists(order'[p]) =>
                   order'[p].quantity \in Quantities /\ order'[p].line \in 1..MaxLines
              /\ order'[p].status = "none" => order[p].status = "none"
              /\ order'[p].line = order[p].line
<1>1. PICK row : row = order[o]
  OBVIOUS
<1>2. row = [status |-> row.status, quantity |-> row.quantity, line |-> row.line]
      /\ row \in OrderRow
  BY <1>1 DEF DocumentsInv, OrdersFit, OrderRow
<1>3. order' = [order EXCEPT ![o] = [status |-> st, quantity |-> row.quantity, line |-> row.line]]
  <2>1. PICK p : p = [row EXCEPT !.status = st]
    OBVIOUS
  <2>2. p = [status |-> st, quantity |-> row.quantity, line |-> row.line]
    BY <1>2, <2>1
  <2>3. order' = [order EXCEPT ![o] = p]
    BY <1>1, <2>1, Zenon
  <2> QED
    BY <2>2, <2>3
<1>4. [status |-> st, quantity |-> row.quantity, line |-> row.line] \in OrderRow
  BY <1>2 DEF OrderRow, Missing
<1>5. order' \in [Orders -> OrderRow]
  BY <1>3, <1>4 DEF DocumentsInv, OrdersFit
<1>6. ASSUME NEW p \in Orders
      PROVE  /\ Exists(order'[p]) =>
                  order'[p].quantity \in Quantities /\ order'[p].line \in 1..MaxLines
             /\ order'[p].status = "none" => order[p].status = "none"
             /\ order'[p].line = order[p].line
  <2>1. CASE p = o
    <3>1. order'[p].status = st /\ order'[p].quantity = order[p].quantity
          /\ order'[p].line = order[p].line
      BY <1>1, <1>3, <2>1 DEF DocumentsInv, OrdersFit
    <3>2. st # "none"
      BY DEF OrderStatuses
    <3> QED
      BY <2>1, <3>1, <3>2 DEF DocumentsInv, OrdersFit
  <2>2. CASE p # o
    <3>1. order'[p] = order[p]
      BY <1>3, <2>2 DEF DocumentsInv, OrdersFit
    <3> QED
      BY <3>1 DEF DocumentsInv, OrdersFit
  <2> QED
    BY <2>1, <2>2
<1> QED
  BY <1>5, <1>6

\* Writing a status leaves the rows in shape, whatever the handler does next.
LEMMA StatusWritesFit ==
  ASSUME DocumentsInv, NEW s \in Slots, WriteOrderStatus(s) \/ DeleteOrder(s) \/ AdvanceOrder(s)
  PROVE  DocumentsInv'
<1>1. /\ slot[s].order \in Orders /\ Exists(order[slot[s].order])
      /\ UNCHANGED <<invoice, dispatch>>
      /\ slot[s].step \in {"status.write", "order.delete", "send.advanceWrite"}
  BY DEF WriteOrderStatus, DeleteOrder, AdvanceOrder, At, OrderSteps, DocumentsInv, HandlersFit,
         LocalsFit
<1>2. PICK o \in Orders : o = slot[s].order
  BY <1>1
<1>3. PICK st \in OrderStatuses \cup {"deleted"} : order' = [order EXCEPT ![o].status = st]
  <2>1. CASE WriteOrderStatus(s)
    <3>1. slot[s].status \in OrderStatuses
      BY <2>1 DEF WriteOrderStatus, At, DocumentsInv, HandlersFit, LocalsFit
    <3>2. order' = [order EXCEPT ![o].status = slot[s].status]
      BY <1>2, <2>1, Zenon DEF WriteOrderStatus
    <3> QED
      BY <3>1, <3>2, Zenon
  <2>2. CASE DeleteOrder(s)
    <3>1. order' = [order EXCEPT ![o].status = "deleted"]
      BY <1>2, <2>2, Zenon DEF DeleteOrder
    <3> QED
      BY <3>1, Zenon
  <2>3. CASE AdvanceOrder(s)
    <3>1. order' = [order EXCEPT ![o].status = "partially_shipped"]
      BY <1>2, <2>3, Zenon DEF AdvanceOrder
    <3>2. "partially_shipped" \in OrderStatuses
      BY DEF OrderStatuses
    <3> QED
      BY <3>1, <3>2, Zenon
  <2> QED
    BY <2>1, <2>2, <2>3
<1>4. /\ order' \in [Orders -> OrderRow]
      /\ \A p \in Orders :
           /\ Exists(order'[p]) =>
                order'[p].quantity \in Quantities /\ order'[p].line \in 1..MaxLines
           /\ order'[p].status = "none" => order[p].status = "none"
           /\ order'[p].line = order[p].line
  BY <1>1, <1>2, <1>3, StatusFits
<1>5. PICK x : /\ LocalsFit(x) /\ slot' = [slot EXCEPT ![s] = x]
               /\ x.step \notin {"update.release", "update.write"}
  <2>1. CASE Finish(s)
    BY <2>1, IdleFits DEF Finish
  <2>2. ASSUME NEW step \in {"status.hold", "status.release"}, Continue(s, step),
               slot[s].step = "status.write"
        PROVE  \E x : /\ LocalsFit(x) /\ slot' = [slot EXCEPT ![s] = x]
                      /\ x.step \notin {"update.release", "update.write"}
    <3>1. PICK old : old = slot[s]
      OBVIOUS
    <3>2. LocalsFit(old) /\ old.step = "status.write"
      BY <2>2, <3>1 DEF DocumentsInv, HandlersFit
    <3>3. PICK y : y = [old EXCEPT !.step = step]
      OBVIOUS
    <3>4. /\ LocalsFit(y)
          /\ y = Carrying(step, old.order, old.invoice, old.quantity, old.line, old.status)
      <4>1. step \in Steps \ InvoiceSteps /\ old.step \in OrderSteps
        BY <3>2 DEF Steps, OrderSteps, InvoiceSteps
      <4> QED
        BY <3>2, <3>3, <4>1, CarriesOn
    <3>5. slot' = [slot EXCEPT ![s] = y]
      BY <2>2, <3>1, <3>3, Zenon DEF Continue
    <3>6. y.step \notin {"update.release", "update.write"}
      BY <3>4 DEF Carrying
    <3> QED
      BY <3>4, <3>5, <3>6
  <2>3. CASE WriteOrderStatus(s)
    <3>1. slot[s].step = "status.write"
          /\ (Finish(s) \/ Continue(s, "status.hold") \/ Continue(s, "status.release"))
      BY <2>3 DEF WriteOrderStatus, At
    <3> QED
      BY <2>1, <2>2, <3>1
  <2> QED
    BY <2>1, <2>3 DEF DeleteOrder, AdvanceOrder
<1>6. InvoicesFit'
  BY <1>1 DEF DocumentsInv, InvoicesFit, Exists
<1> QED
  BY <1>1, <1>4, <1>5, <1>6, DocumentsStep

\* What is written of an invoice.
LEMMA InvoiceFits ==
  ASSUME DocumentsInv, NEW i \in Invoices,
         \/ Exists(invoice[i])
              /\ \E st \in InvoiceStatuses : invoice' = [invoice EXCEPT ![i].status = st]
         \/ \E n \in Quantities : invoice' = [invoice EXCEPT ![i].quantity = n, ![i].line = NoLine]
         \/ invoice' = [invoice EXCEPT ![i].status = "deleted", ![i].line = NoLine]
  PROVE  InvoicesFit'
<1>1. PICK row : row = invoice[i]
  OBVIOUS
<1>2. row = [status |-> row.status, order |-> row.order, quantity |-> row.quantity, line |-> row.line]
      /\ row \in InvoiceRow /\ (Exists(row) => row.quantity \in Quantities)
  BY <1>1 DEF DocumentsInv, InvoicesFit, InvoiceRow
<1>3. ASSUME NEW new, new \in InvoiceRow, Exists(new) => new.quantity \in Quantities,
             invoice' = [invoice EXCEPT ![i] = new]
      PROVE  InvoicesFit'
  BY <1>3 DEF DocumentsInv, InvoicesFit, Exists
<1>4. ASSUME Exists(invoice[i]),
             NEW st \in InvoiceStatuses, invoice' = [invoice EXCEPT ![i].status = st]
      PROVE  InvoicesFit'
  <2>1. PICK p : p = [row EXCEPT !.status = st]
    OBVIOUS
  <2>2. p = [status |-> st, order |-> row.order, quantity |-> row.quantity, line |-> row.line]
    BY <1>2, <2>1
  <2>3. invoice' = [invoice EXCEPT ![i] = p]
    BY <1>1, <1>4, <2>1, Zenon
  <2> QED
    BY <1>1, <1>2, <1>3, <1>4, <2>2, <2>3 DEF InvoiceRow
<1>5. ASSUME NEW f, NEW x, f = [invoice EXCEPT ![i] = x],
             NEW y, invoice' = [f EXCEPT ![i] = y]
      PROVE  invoice' = [invoice EXCEPT ![i] = y]
  BY <1>5 DEF DocumentsInv, InvoicesFit
<1>6. ASSUME NEW n \in Quantities,
             invoice' = [invoice EXCEPT ![i].quantity = n, ![i].line = NoLine]
      PROVE  InvoicesFit'
  <2>1. PICK p : p = [row EXCEPT !.quantity = n]
    OBVIOUS
  <2>2. PICK f : f = [invoice EXCEPT ![i] = p]
    OBVIOUS
  <2>3. f[i] = p
    BY <2>2 DEF DocumentsInv, InvoicesFit
  <2>4. PICK q : q = [p EXCEPT !.line = NoLine]
    OBVIOUS
  <2>5. p = [status |-> row.status, order |-> row.order, quantity |-> n, line |-> row.line]
    BY <1>2, <2>1
  <2>6. q = [status |-> row.status, order |-> row.order, quantity |-> n, line |-> NoLine]
    BY <2>4, <2>5
  <2>7. invoice' = [f EXCEPT ![i] = q]
    BY <1>1, <1>6, <2>1, <2>2, <2>3, <2>4, Zenon
  <2>8. invoice' = [invoice EXCEPT ![i] = q]
    BY <1>5, <2>2, <2>7
  <2>9. n \in 0..MaxQuantity
    BY NamesAssumption DEF Quantities
  <2>10. q \in InvoiceRow /\ q.quantity \in Quantities
    BY <1>2, <2>6, <2>9 DEF InvoiceRow
  <2> QED
    BY <1>3, <2>8, <2>10
<1>7. ASSUME invoice' = [invoice EXCEPT ![i].status = "deleted", ![i].line = NoLine]
      PROVE  InvoicesFit'
  <2>1. PICK p : p = [row EXCEPT !.status = "deleted"]
    OBVIOUS
  <2>2. PICK f : f = [invoice EXCEPT ![i] = p]
    OBVIOUS
  <2>3. f[i] = p
    BY <2>2 DEF DocumentsInv, InvoicesFit
  <2>4. PICK q : q = [p EXCEPT !.line = NoLine]
    OBVIOUS
  <2>5. p = [status |-> "deleted", order |-> row.order, quantity |-> row.quantity, line |-> row.line]
    BY <1>2, <2>1
  <2>6. q = [status |-> "deleted", order |-> row.order, quantity |-> row.quantity, line |-> NoLine]
    BY <2>4, <2>5
  <2>7. invoice' = [f EXCEPT ![i] = q]
    BY <1>1, <1>7, <2>1, <2>2, <2>3, <2>4, Zenon
  <2>8. invoice' = [invoice EXCEPT ![i] = q]
    BY <1>5, <2>2, <2>7
  <2> QED
    BY <1>2, <1>3, <2>6, <2>8 DEF InvoiceRow, Missing, Exists
<1> QED
  BY <1>4, <1>6, <1>7

\* A new invoice takes an id that was free.
LEMMA NewInvoiceFits ==
  ASSUME DocumentsInv, NEW i \in Invoices, NEW o \in Orders \cup {NoOrder},
         NEW n \in Quantities, NEW l \in Lines \cup {NoLine},
         invoice' = [invoice EXCEPT ![i] =
                       [status |-> "draft", order |-> o, quantity |-> n, line |-> l]]
  PROVE  InvoicesFit'
<1>1. n \in 0..MaxQuantity
  BY NamesAssumption DEF Quantities
<1>2. [status |-> "draft", order |-> o, quantity |-> n, line |-> l] \in InvoiceRow
  BY <1>1 DEF InvoiceRow, InvoiceStatuses
<1> QED
  BY <1>2 DEF DocumentsInv, InvoicesFit, Exists

\* The calls of a handler under way that write no order.
LEMMA OtherStepsFit ==
  ASSUME DocumentsInv, NEW s \in Slots,
         \/ ReleaseBeforeUpdate(s) \/ HoldAfterUpdate(s) \/ HoldConfirmed(s)
         \/ ReleaseCancelled(s) \/ InvoiceStep(s) \/ FailRequest(s) \/ Abandon(s),
         ~AdvanceOrder(s)
  PROVE  DocumentsInv'
<1>1. UNCHANGED invoice => InvoicesFit'
  BY DEF DocumentsInv, InvoicesFit, Exists
<1>2. CASE ReleaseBeforeUpdate(s)
  <2>1. /\ slot[s].step = "update.release" /\ Continue(s, "update.write")
        /\ UNCHANGED <<order, invoice, dispatch>>
    BY <1>2 DEF ReleaseBeforeUpdate, At
  <2> QED
    BY <1>1, <2>1, ContinueFits DEF Steps, OrderSteps, InvoiceSteps
<1>3. CASE \/ HoldAfterUpdate(s) \/ HoldConfirmed(s) \/ ReleaseCancelled(s) \/ Rehold(s)
           \/ RefuseShipment(s) \/ FailRequest(s) \/ Abandon(s)
  <2>1. Finish(s) /\ UNCHANGED <<order, invoice, dispatch>>
    BY <1>3 DEF HoldAfterUpdate, HoldConfirmed, ReleaseCancelled, Rehold, RefuseShipment,
                FailRequest, Abandon
  <2> QED
    BY <1>1, <2>1, FinishFits
<1>4. ASSUME NEW i \in Invoices, CreateInstalment(s, i) PROVE DocumentsInv'
  <2>1. /\ slot[s].step = "bill.create" /\ Finish(s) /\ UNCHANGED <<order, dispatch>>
        /\ invoice' = [invoice EXCEPT ![i] =
             [status |-> "draft", order |-> slot[s].order, quantity |-> slot[s].quantity,
              line |-> slot[s].line]]
    BY <1>4 DEF CreateInstalment, At
  <2>2. slot[s].order \in Orders /\ slot[s].quantity \in Quantities /\ slot[s].line \in Lines
    BY <2>1 DEF DocumentsInv, HandlersFit, LocalsFit, OrderSteps
  <2>3. InvoicesFit'
    BY <2>1, <2>2, NewInvoiceFits
  <2> QED
    BY <2>1, <2>3, FinishFits
<1>5. CASE WriteInvoice(s) \/ DeleteInvoice(s)
  <2>1. PICK i \in Invoices : i = slot[s].invoice
    BY <1>5 DEF WriteInvoice, DeleteInvoice, At, InvoiceSteps, DocumentsInv, HandlersFit, LocalsFit
  <2>2. Finish(s) /\ UNCHANGED <<order, dispatch>>
    BY <1>5 DEF WriteInvoice, DeleteInvoice
  <2>3. CASE WriteInvoice(s)
    <3>1. slot[s].quantity \in Quantities
      BY <2>3 DEF WriteInvoice, At, DocumentsInv, HandlersFit, LocalsFit
    <3>2. invoice' = [invoice EXCEPT ![i].quantity = slot[s].quantity, ![i].line = NoLine]
      BY <2>1, <2>3, Zenon DEF WriteInvoice
    <3>3. InvoicesFit'
      BY <3>1, <3>2, InvoiceFits, Zenon
    <3> QED
      BY <2>2, <3>3, FinishFits
  <2>4. CASE DeleteInvoice(s)
    <3>1. invoice' = [invoice EXCEPT ![i].status = "deleted", ![i].line = NoLine]
      BY <2>1, <2>4, Zenon DEF DeleteInvoice
    <3>2. InvoicesFit'
      BY <3>1, InvoiceFits, Zenon
    <3> QED
      BY <2>2, <3>2, FinishFits
  <2> QED
    BY <1>5, <2>3, <2>4
<1>6. CASE ShipInvoice(s) \/ ReturnGoods(s)
  <2>1. PICK step \in {"send.write", "cancel.release"} : Continue(s, step)
    BY <1>6 DEF ShipInvoice, ReturnGoods
  <2>2. slot[s].step \in {"send.ship", "cancel.return"} /\ UNCHANGED <<order, invoice, dispatch>>
    BY <1>6 DEF ShipInvoice, ReturnGoods, At
  <2>3. step \in Steps \ OrderSteps /\ slot[s].step \in InvoiceSteps
    BY <2>2 DEF Steps, OrderSteps, InvoiceSteps
  <2> QED
    BY <1>1, <2>1, <2>2, <2>3, ContinueFits
<1>7. CASE WriteSent(s) \/ WriteCancelled(s)
  <2>1. PICK i \in Invoices : i = slot[s].invoice
    BY <1>7 DEF WriteSent, WriteCancelled, At, InvoiceSteps, DocumentsInv, HandlersFit, LocalsFit
  <2>2. /\ Exists(invoice[i]) /\ UNCHANGED <<order, dispatch>>
        /\ slot[s].step \in {"send.write", "cancel.write"}
    BY <1>7, <2>1 DEF WriteSent, WriteCancelled, At
  <2>3. PICK st \in InvoiceStatuses : invoice' = [invoice EXCEPT ![i].status = st]
    <3>1. {"sent", "cancelled"} \subseteq InvoiceStatuses
      BY DEF InvoiceStatuses
    <3> QED
      BY <1>7, <2>1, <3>1, Zenon DEF WriteSent, WriteCancelled
  <2>4. InvoicesFit'
    BY <2>2, <2>3, InvoiceFits, Zenon
  <2>5. Finish(s) \/ Continue(s, "send.advance") \/ Continue(s, "cancel.return")
    BY <1>7 DEF WriteSent, WriteCancelled
  <2>6. slot[s].step \in InvoiceSteps /\ {"send.advance", "cancel.return"} \subseteq Steps \ OrderSteps
    BY <2>2 DEF Steps, OrderSteps, InvoiceSteps
  <2> QED
    BY <2>2, <2>4, <2>5, <2>6, FinishFits, ContinueFits
<1>8. CASE ReadToAdvance(s) \/ ReleaseToRehold(s)
  <2>1. UNCHANGED <<order, invoice, dispatch>>
    BY <1>8 DEF ReadToAdvance, ReleaseToRehold
  <2>2. CASE Finish(s)
    BY <1>1, <2>1, <2>2, FinishFits
  <2>3. ASSUME ~Finish(s) PROVE DocumentsInv'
    <3>1. slot[s].invoice \in Invoices
      BY <1>8 DEF ReadToAdvance, ReleaseToRehold, At, InvoiceSteps, DocumentsInv, HandlersFit,
                  LocalsFit
    <3>2. PICK o : o = invoice[slot[s].invoice].order
      OBVIOUS
    <3>3. PICK step \in {"send.advanceWrite", "cancel.hold"} :
            o # NoOrder /\ slot' = [slot EXCEPT ![s] = OrderLocals(step, o)]
      BY <1>8, <2>3, <3>2 DEF ReadToAdvance, ReleaseToRehold
    <3>4. o \in Orders
      BY <3>1, <3>2, <3>3 DEF DocumentsInv, InvoicesFit, InvoiceRow
    <3>5. slot' = [slot EXCEPT ![s] = Carrying(step, o, NoInvoice, 0, NoLine, "none")]
      BY <3>3, LocalsAre, Zenon
    <3>6. LocalsFit(Carrying(step, o, NoInvoice, 0, NoLine, "none"))
      BY <3>4, NamesAssumption
         DEF Carrying, LocalsFit, LocalsType, Steps, OrderSteps, InvoiceSteps
    <3>7. Carrying(step, o, NoInvoice, 0, NoLine, "none").step \notin {"update.release", "update.write"}
      BY DEF Carrying
    <3> QED
      BY <1>1, <2>1, <3>5, <3>6, <3>7, OrdersKept
  <2> QED
    BY <2>2, <2>3
<1> QED
  BY <1>2, <1>3, <1>4, <1>5, <1>6, <1>7, <1>8 DEF InvoiceStep

\* The steps that take one call, or come from outside.
LEMMA SingleCallFits ==
  ASSUME DocumentsInv, SingleCall
  PROVE  DocumentsInv'
<1>1. ASSUME slot' = slot, NEW o \in Orders PROVE Editing(o)' = Editing(o)
  BY <1>1 DEF Editing
<1>2. ASSUME slot' = slot, order' = order, InvoicesFit', dispatch' \in Warehouses \cup {NoWarehouse}
      PROVE  DocumentsInv'
  BY <1>1, <1>2 DEF DocumentsInv, OrdersFit, HandlersFit, Exists
<1>3. invoice' = invoice => InvoicesFit'
  BY DEF DocumentsInv, InvoicesFit, Exists
<1>4. ASSUME NEW o \in Orders, NEW n \in Quantities, CreateOrder(o, n) PROVE DocumentsInv'
  <2>1. /\ order[o].status = "none" /\ UNCHANGED <<slot, invoice, dispatch>>
        /\ order' = [order EXCEPT ![o] = [status |-> "draft", quantity |-> n, line |-> 1]]
    BY <1>4 DEF CreateOrder
  <2>2. Editing(o) = {} /\ Cardinality(Editing(o)) = 0
    BY <2>1, FS_EmptySet DEF DocumentsInv, OrdersFit
  <2>3. n \in 0..MaxQuantity /\ 1 \in 1..MaxLines
    BY NamesAssumption DEF Quantities
  <2>4. [status |-> "draft", quantity |-> n, line |-> 1] \in OrderRow
    BY <2>3 DEF OrderRow, OrderStatuses
  <2>5. order' \in [Orders -> OrderRow]
    BY <2>1, <2>4 DEF DocumentsInv, OrdersFit
  <2>6. ASSUME NEW p \in Orders
        PROVE  /\ Exists(order'[p]) => order'[p].quantity \in Quantities /\ order'[p].line \in 1..MaxLines
               /\ order'[p].status = "none" => Editing(p)' = {}
               /\ order'[p].line + Cardinality(Editing(p)') <= MaxLines
    <3>1. Editing(p)' = Editing(p)
      BY <1>1, <2>1
    <3>2. CASE p = o
      <4>1. order'[o].status = "draft" /\ order'[o].quantity = n /\ order'[o].line = 1
        BY <2>1 DEF DocumentsInv, OrdersFit
      <4> QED
        BY <2>2, <2>3, <3>1, <3>2, <4>1, NamesAssumption
    <3>3. CASE p # o
      <4>1. order'[p] = order[p]
        BY <2>1, <3>3 DEF DocumentsInv, OrdersFit
      <4> QED
        BY <3>1, <4>1 DEF DocumentsInv, OrdersFit
    <3> QED
      BY <3>2, <3>3
  <2> QED
    BY <1>3, <2>1, <2>5, <2>6 DEF DocumentsInv, OrdersFit, HandlersFit, Exists
<1>5. ASSUME NEW i \in Invoices, NEW o \in Orders \cup {NoOrder}, NEW n \in Quantities,
             CreateInvoice(i, o, n)
      PROVE  DocumentsInv'
  <2>1. /\ UNCHANGED <<slot, order, dispatch>>
        /\ invoice' = [invoice EXCEPT ![i] =
             [status |-> "draft", order |-> o, quantity |-> n, line |-> NoLine]]
    BY <1>5 DEF CreateInvoice
  <2>2. InvoicesFit'
    BY <2>1, NewInvoiceFits
  <2> QED
    BY <1>2, <2>1, <2>2 DEF DocumentsInv
<1>6. ASSUME NEW w \in Warehouses, NEW n \in Quantities, StockIn(w, n) \/ StockOut(w, n)
      PROVE  DocumentsInv'
  <2>1. UNCHANGED <<slot, order, invoice, dispatch>>
    BY <1>6 DEF StockIn, StockOut
  <2> QED
    BY <1>2, <1>3, <2>1 DEF DocumentsInv
<1>7. ASSUME NEW i \in Invoices, Pay(i) PROVE DocumentsInv'
  <2>1. UNCHANGED <<slot, order, dispatch>> /\ Exists(invoice[i])
    BY <1>7 DEF Pay, Exists, Missing
  <2>2. \E st \in InvoiceStatuses : invoice' = [invoice EXCEPT ![i].status = st]
    <3>1. {"sent", "paid"} \subseteq InvoiceStatuses
      BY DEF InvoiceStatuses
    <3> QED
      BY <1>7, <3>1, Zenon DEF Pay
  <2>3. InvoicesFit'
    BY <2>1, <2>2, InvoiceFits, Zenon
  <2> QED
    BY <1>2, <2>1, <2>3 DEF DocumentsInv
<1>8. ASSUME NEW w \in Warehouses \cup {NoWarehouse}, SetDispatch(w) PROVE DocumentsInv'
  BY <1>2, <1>3, <1>8 DEF SetDispatch
<1> QED
  BY <1>4, <1>5, <1>6, <1>7, <1>8 DEF SingleCall

\* Every step of the handlers and of the rest of the system.
LEMMA DocumentsNext == DocumentsInv /\ [Next]_vars => DocumentsInv'
<1> SUFFICES ASSUME DocumentsInv, [Next]_vars PROVE DocumentsInv'
  OBVIOUS
<1>1. ASSUME NEW s \in Slots, BeginOrderRequest(s) \/ BeginInvoiceRequest(s) PROVE DocumentsInv'
  BY <1>1, ReadOrderToUpdateFits, OtherRequestsFit, Zenon DEF BeginOrderRequest
<1>2. ASSUME NEW s \in Slots, Step(s) \/ Abandon(s) PROVE DocumentsInv'
  BY <1>2, WriteOrderFits, StatusWritesFit, OtherStepsFit, Zenon DEF Step, OrderStep
<1>3. CASE UNCHANGED vars
  BY <1>3 DEF vars, DocumentsInv, OrdersFit, InvoicesFit, HandlersFit, Editing, Exists
<1> QED
  BY <1>1, <1>2, <1>3, SingleCallFits, Zenon DEF Next

\* The invariant of every behaviour.
LEMMA DocumentsAlways == Spec => []DocumentsInv
BY DocumentsInit, DocumentsNext, PTL DEF Spec

-----------------------------------------------------------------------------
(* The shelf *)

\* A line with a place in its order's history is a row the shelf knows.
LEMMA LineKnown ==
  ASSUME DocumentsInv, NEW o \in Orders, order[o].line > 0
  PROVE  Line(o) \in Lines
BY DEF DocumentsInv, OrdersFit, OrderRow, Line, Lines

\* A transaction of the shelf that writes to a level what it writes to a row.
Counting ==
  \/ \E w \in Warehouses, n \in Quantities :
       \/ \E l \in Lines : Stock!Reserve(l, w, n) \/ Stock!Ship(l, w, n)
       \/ Stock!Remove(w, n)
       \/ Stock!Receive(w, n)
  \/ \E l \in Lines : Stock!ReleaseOrder(l)

\* Each dispatcher call on an order is one transaction of the shelf, or none.
LEMMA DispatcherSteps ==
  ASSUME DocumentsInv, NEW o \in Orders
  PROVE  /\ HoldOrder(o) => [Counting]_stockVars
         /\ ReleaseOrder(o) => [Counting]_stockVars
         /\ Exists(order[o]) /\ DropLine(o) => [Stock!ShelfNext]_stockVars
<1>1. Exists(order[o]) => order[o].quantity \in Quantities /\ order[o].line > 0
  BY DEF DocumentsInv, OrdersFit
<1>2. HoldOrder(o) => [Counting]_stockVars
  <2> SUFFICES ASSUME HoldOrder(o), ~UNCHANGED stockVars PROVE Counting
    OBVIOUS
  <2>1. ShipsAutomatically /\ Exists(order[o]) /\ Stock!Reserve(Line(o), dispatch, order[o].quantity)
    BY Zenon DEF HoldOrder
  <2>2. dispatch \in Warehouses /\ order[o].quantity \in Quantities /\ Line(o) \in Lines
    BY <1>1, <2>1, LineKnown DEF ShipsAutomatically, DocumentsInv
  <2> QED
    BY <2>1, <2>2, Zenon DEF Counting
<1>3. ReleaseOrder(o) => [Counting]_stockVars
  BY LineKnown, Zenon DEF ReleaseOrder, Counting
<1>4. Exists(order[o]) /\ DropLine(o) => [Stock!ShelfNext]_stockVars
  BY <1>1, LineKnown, Zenon DEF DropLine, Stock!ShelfNext
<1> QED
  BY <1>2, <1>3, <1>4

\* Goods leave and come back by the quantity of an existing invoice.
LEMMA InvoiceMovements ==
  ASSUME DocumentsInv, NEW s \in Slots, ShipInvoice(s) \/ ReturnGoods(s)
  PROVE  [Counting]_stockVars
<1> DEFINE i == slot[s].invoice
<1>1. i \in Invoices
  BY DEF DocumentsInv, HandlersFit, LocalsFit, ShipInvoice, ReturnGoods, At, InvoiceSteps
<1>2. ASSUME Moves(i)
      PROVE  /\ dispatch \in Warehouses /\ invoice[i].quantity \in Quantities
             /\ invoice[i].line = NoLine \/ invoice[i].line \in Lines
  BY <1>1, <1>2 DEF Moves, ShipsAutomatically, DocumentsInv, InvoicesFit, InvoiceRow
<1>3. CASE ~Moves(i)
  BY <1>3, Zenon DEF ShipInvoice, ReturnGoods, stockVars
<1>4. CASE Moves(i)
  BY <1>2, <1>4, Zenon DEF ShipInvoice, ReturnGoods, Counting
<1> QED
  BY <1>3, <1>4

\* Every step of the system that touches the stock rows is one transaction of
\* the shelf, and only the two that delete a line may leave a level behind.
LEMMA CountingSteps ==
  ASSUME DocumentsInv, [Next]_vars
  PROVE  [Counting]_stockVars \/ \E s \in Slots : WriteOrder(s) \/ DeleteOrder(s)
<1>1. ASSUME NEW s \in Slots, BeginOrderRequest(s) \/ BeginInvoiceRequest(s)
      PROVE  [Counting]_stockVars
  BY <1>1, Zenon DEF BeginOrderRequest, BeginInvoiceRequest, ReadOrderToUpdate, ReadOrderToBill,
     ReadOrderToSetStatus, ReadOrderToDelete, ReadInvoiceToUpdate, ReadInvoiceToDelete,
     ReadInvoiceToSend, ReadInvoiceToCancel, stockVars
<1>2. ASSUME NEW s \in Slots, Step(s) \/ Abandon(s), ~(WriteOrder(s) \/ DeleteOrder(s))
      PROVE  [Counting]_stockVars
  <2>1. slot[s].step \in OrderSteps => slot[s].order \in Orders
    BY DEF DocumentsInv, HandlersFit, LocalsFit
  <2>2. CASE \/ ReleaseBeforeUpdate(s) \/ HoldAfterUpdate(s) \/ HoldConfirmed(s)
             \/ ReleaseCancelled(s) \/ Rehold(s)
    <3>1. slot[s].order \in Orders
      BY <2>1, <2>2 DEF ReleaseBeforeUpdate, HoldAfterUpdate, HoldConfirmed, ReleaseCancelled,
                        Rehold, At, OrderSteps
    <3> QED
      BY <2>2, <3>1, DispatcherSteps, Zenon
         DEF ReleaseBeforeUpdate, HoldAfterUpdate, HoldConfirmed, ReleaseCancelled, Rehold
  <2>4. CASE ShipInvoice(s) \/ ReturnGoods(s)
    BY <2>4, InvoiceMovements
  <2>5. CASE ReleaseToRehold(s)
    <3> DEFINE o == invoice[slot[s].invoice].order
    <3>1. CASE o # NoOrder /\ StillExpectsGoods(order[o].status)
      <4>1. slot[s].invoice \in Invoices
        BY <2>5 DEF ReleaseToRehold, At, DocumentsInv, HandlersFit, LocalsFit, InvoiceSteps
      <4>2. o \in Orders
        BY <3>1, <4>1 DEF DocumentsInv, InvoicesFit, InvoiceRow
      <4> QED
        BY <2>5, <3>1, <4>2, DispatcherSteps, Zenon DEF ReleaseToRehold
    <3>2. CASE ~(o # NoOrder /\ StillExpectsGoods(order[o].status))
      BY <2>5, <3>2, Zenon DEF ReleaseToRehold
    <3> QED
      BY <3>1, <3>2
  <2>6. CASE \/ WriteOrderStatus(s) \/ WriteInvoice(s) \/ DeleteInvoice(s)
             \/ RefuseShipment(s) \/ WriteSent(s) \/ ReadToAdvance(s) \/ AdvanceOrder(s)
             \/ WriteCancelled(s) \/ FailRequest(s) \/ Abandon(s)
             \/ \E i \in Invoices : CreateInstalment(s, i)
    BY <2>6, Zenon DEF WriteOrderStatus, WriteInvoice, DeleteInvoice, RefuseShipment, WriteSent,
       ReadToAdvance, AdvanceOrder, WriteCancelled, FailRequest, Abandon, CreateInstalment, stockVars
  <2> QED
    BY <1>2, <2>2, <2>4, <2>5, <2>6, Zenon DEF Step, OrderStep, InvoiceStep
<1>3. CASE SingleCall
  <2>1. ASSUME NEW n \in Quantities, NEW w \in Warehouses, StockIn(w, n) \/ StockOut(w, n)
        PROVE  Counting
    BY <2>1, Zenon DEF StockIn, StockOut, Counting
  <2> QED
    BY <1>3, <2>1, Zenon DEF SingleCall, CreateOrder, CreateInvoice, Pay, SetDispatch, stockVars
<1>4. CASE UNCHANGED vars
  BY <1>4 DEF vars, stockVars
<1> QED
  BY <1>1, <1>2, <1>3, <1>4, Zenon DEF Next

\* Deleting a line deletes its row with it, whatever that held.
LEMMA StockStep ==
  DocumentsInv /\ [Next]_vars => [Stock!ShelfNext]_stockVars
<1> SUFFICES ASSUME DocumentsInv, [Next]_vars PROVE [Stock!ShelfNext]_stockVars
  OBVIOUS
<1>1. Counting => Stock!ShelfNext
  <2>1. Quantities = Stock!Quantities
    BY DEF Quantities, Stock!Quantities
  <2> QED
    BY <2>1, Zenon DEF Counting, Stock!ShelfNext
<1>2. ASSUME NEW s \in Slots, WriteOrder(s) \/ DeleteOrder(s)
      PROVE  [Stock!ShelfNext]_stockVars
  <2>1. slot[s].order \in Orders
    BY <1>2 DEF WriteOrder, DeleteOrder, At, DocumentsInv, HandlersFit, LocalsFit, OrderSteps
  <2> QED
    BY <1>2, <2>1, DispatcherSteps, Zenon DEF WriteOrder, DeleteOrder
<1> QED
  BY <1>1, <1>2, CountingSteps

\* StockSpec: sales documents drive the shelf only by its own transactions,
\* however their handlers overlap and wherever they are dropped.
THEOREM DocumentsDriveTheShelf == Spec => StockSpec
<1>1. Init => Stock!ShelfInit
  BY DEF Init
<1>2. DocumentsInv /\ [Next]_vars => [Stock!ShelfNext]_(Stock!shelfVars)
  BY StockStep, Zenon DEF stockVars, Stock!shelfVars
<1> QED
  BY <1>1, <1>2, DocumentsAlways, PTL DEF Spec, StockSpec, Stock!ShelfSpec

-----------------------------------------------------------------------------
(* What ShelfProofs proves of the shelf holds of the system's *)

Goods == INSTANCE ShelfProofs

\* The shelf the documents drive is the one ShelfProofs is about.
LEMMA TheSameShelf == Spec => Goods!ShelfSpec
<1>1. Stock!ShelfInit => Goods!ShelfInit
  BY DEF Stock!ShelfInit, Stock!NoHold, Goods!ShelfInit, Goods!NoHold
<1>2. Stock!ShelfNext => Goods!ShelfNext
  BY DEF Stock!ShelfNext, Stock!Reserve, Stock!Ship, Stock!Remove, Stock!Receive, Stock!Transfer,
         Stock!ReleaseOrder, Stock!CascadeHold, Stock!CanReserve, Stock!Reservable,
         Stock!Available, Stock!CanShip, Stock!ReservedAfter, Stock!HoldAfter, Stock!GivenBack,
         Stock!Lesser, Stock!AtLeastZero, Stock!NoHold, Stock!Quantities,
         Goods!ShelfNext, Goods!Reserve, Goods!Ship, Goods!Remove, Goods!Receive, Goods!Transfer,
         Goods!ReleaseOrder, Goods!CascadeHold, Goods!CanReserve, Goods!Reservable,
         Goods!Available, Goods!CanShip, Goods!ReservedAfter, Goods!HoldAfter, Goods!GivenBack,
         Goods!Lesser, Goods!AtLeastZero, Goods!NoHold, Goods!Quantities
<1>3. [Stock!ShelfNext]_(Stock!shelfVars) => [Goods!ShelfNext]_(Goods!shelfVars)
  BY <1>2 DEF Stock!shelfVars, Goods!shelfVars
<1> QED
  BY <1>1, <1>3, DocumentsDriveTheShelf, PTL DEF StockSpec, Stock!ShelfSpec, Goods!ShelfSpec

\* The names of this module's constants are as Shelf assumes them.
LEMMA GoodsAssumptions ==
  /\ Goods!IsFiniteSet(Lines)
  /\ NoWarehouse \notin Warehouses
  /\ MaxQuantity \in Nat \ {0}
<1>1. IsFiniteSet(1..MaxLines)
  BY FS_Interval, NamesAssumption
<1>2. IsFiniteSet(Lines)
  BY <1>1, FS_Product, FiniteAssumption DEF Lines
<1>3. \A S : IsFiniteSet(S) = Goods!IsFiniteSet(S)
  BY Zenon DEF IsFiniteSet, Goods!IsFiniteSet
<1> QED
  BY <1>2, <1>3, NamesAssumption

\* Columns of the stock rows keep their type while documents drive them.
LEMMA ShelfTyped == Spec => []Stock!ShelfTypeOK
<1>1. Goods!ShelfSpec => []Goods!ShelfTypeOK
  BY Goods!TypeCorrect, GoodsAssumptions
<1>2. Goods!ShelfTypeOK => Stock!ShelfTypeOK
  BY DEF Goods!ShelfTypeOK, Goods!Hold, Goods!NoHold, Goods!Quantities,
         Stock!ShelfTypeOK, Stock!Hold, Stock!NoHold, Stock!Quantities
<1> QED
  BY <1>1, <1>2, TheSameShelf, PTL

\* Whatever orders, invoices and their handlers do, no shelf ever promises more
\* than it has.
THEOREM OrdersNeverOversell == Spec => []Stock!NeverOversold
<1>1. Goods!ShelfSpec => []Goods!NeverOversold
  BY Goods!Promises, GoodsAssumptions
<1>2. Goods!NeverOversold => Stock!NeverOversold
  BY DEF Goods!NeverOversold, Stock!NeverOversold
<1> QED
  BY <1>1, <1>2, TheSameShelf, PTL

\* Whatever orders, invoices and their handlers do, what a line holds can be
\* shipped for it.
THEOREM HeldGoodsShip == Spec => []Stock!HeldGoodsCanShip
<1>1. Goods!ShelfSpec => []Goods!HeldGoodsCanShip
  BY Goods!Shippable, GoodsAssumptions
<1>2. Goods!HeldGoodsCanShip => Stock!HeldGoodsCanShip
  BY DEF Goods!HeldGoodsCanShip, Goods!CanShip, Goods!ReservedAfter, Goods!GivenBack, Goods!Lesser,
         Goods!AtLeastZero, Goods!NoHold, Stock!HeldGoodsCanShip, Stock!CanShip,
         Stock!ReservedAfter, Stock!GivenBack, Stock!Lesser, Stock!AtLeastZero, Stock!NoHold
<1> QED
  BY <1>1, <1>2, TheSameShelf, PTL

-----------------------------------------------------------------------------
(* Types *)

ShippedFits == shipped \in [Invoices -> Int]

\* Each movement for an invoice is of a whole quantity, out or back.
LEMMA ShippedTyped ==
  DocumentsInv /\ ShippedFits /\ [Next]_vars => ShippedFits'
<1> SUFFICES ASSUME DocumentsInv, shipped \in [Invoices -> Int], [Next]_vars
             PROVE  shipped' \in [Invoices -> Int]
  BY DEF ShippedFits
<1>1. ASSUME NEW s \in Slots, ShipInvoice(s) \/ ReturnGoods(s) PROVE shipped' \in [Invoices -> Int]
  <2>1. slot[s].invoice \in Invoices
    BY <1>1 DEF DocumentsInv, HandlersFit, LocalsFit, ShipInvoice, ReturnGoods, At, InvoiceSteps
  <2>2. \A i \in Invoices : invoice[i].quantity \in Int
    BY NamesAssumption DEF DocumentsInv, InvoicesFit, InvoiceRow
  <2> QED
    BY <1>1, <2>1, <2>2 DEF ShipInvoice, ReturnGoods
<1>2. ASSUME NEW s \in Slots, Step(s) \/ Abandon(s), ~(ShipInvoice(s) \/ ReturnGoods(s))
      PROVE  shipped' = shipped
  BY <1>2, Zenon DEF Step, OrderStep, InvoiceStep, ReleaseBeforeUpdate, WriteOrder, HoldAfterUpdate,
     WriteOrderStatus, HoldConfirmed, ReleaseCancelled, DeleteOrder, CreateInstalment, WriteInvoice,
     DeleteInvoice, RefuseShipment, WriteSent, ReadToAdvance, AdvanceOrder, WriteCancelled,
     ReleaseToRehold, Rehold, FailRequest, Abandon
<1>3. ASSUME NEW s \in Slots, BeginOrderRequest(s) \/ BeginInvoiceRequest(s)
      PROVE  shipped' = shipped
  BY <1>3, Zenon DEF BeginOrderRequest, BeginInvoiceRequest, ReadOrderToUpdate, ReadOrderToBill,
     ReadOrderToSetStatus, ReadOrderToDelete, ReadInvoiceToUpdate, ReadInvoiceToDelete,
     ReadInvoiceToSend, ReadInvoiceToCancel
<1>4. SingleCall \/ UNCHANGED vars => shipped' = shipped
  BY Zenon DEF SingleCall, CreateOrder, CreateInvoice, StockIn, StockOut, Pay, SetDispatch, vars
<1> QED
  BY <1>1, <1>2, <1>3, <1>4, Zenon DEF Next

\* TypeOK: rows, levels and the locals of handlers have the type of their column
\* or variable, also when a handler writes back what it read before others wrote.
THEOREM TypeCorrect == Spec => []TypeOK
<1>1. Init => ShippedFits
  BY DEF Init, ShippedFits
<1>2. DocumentsInv /\ Stock!ShelfTypeOK /\ ShippedFits => TypeOK
  BY DEF ShippedFits, DocumentsInv, OrdersFit, InvoicesFit, HandlersFit, LocalsType, TypeOK
<1> QED
  BY <1>1, <1>2, ShippedTyped, DocumentsAlways, ShelfTyped, PTL DEF Spec

-----------------------------------------------------------------------------
(* Holds follow the line their order has now *)

\* A row of o that exists still exists, with the line and quantity it had.
Kept(o) ==
  Exists(order[o]) =>
    Exists(order'[o]) /\ order'[o].line = order[o].line /\ order'[o].quantity = order[o].quantity

\* The hold of l is gone or no larger than it was.
Shrinks(l) ==
  held'[l] # Stock!NoHold =>
    held[l] # Stock!NoHold /\ held'[l].quantity <= held[l].quantity

\* Nothing that shrinks holds and keeps the orders they belong to disturbs them.
LEMMA HoldsShrink ==
  ASSUME HoldWithinPromise, Stock!ShelfTypeOK,
         \A l \in Lines : Shrinks(l) /\ (held'[l] # Stock!NoHold => Kept(l[1])),
         Stock!ShelfTypeOK', OrdersFit, OrdersFit'
  PROVE  HoldWithinPromise'
<1> SUFFICES ASSUME NEW l \in Lines, held'[l] # Stock!NoHold
             PROVE  /\ Exists(order'[l[1]])
                    /\ l = <<l[1], order'[l[1]].line>>
                    /\ held'[l].quantity <= order'[l[1]].quantity
  BY DEF HoldWithinPromise, Line, Stock!NoHold, Exists
<1>1. /\ Exists(order[l[1]])
      /\ l = <<l[1], order[l[1]].line>>
      /\ held[l].quantity <= order[l[1]].quantity
      /\ held'[l].quantity <= held[l].quantity
  BY DEF Shrinks, HoldWithinPromise, Line
<1>2. held[l].quantity \in Int /\ held'[l].quantity \in Int
  BY DEF Stock!ShelfTypeOK, Stock!Hold, Stock!NoHold, Stock!Quantities
<1>3. Exists(order'[l[1]]) /\ order'[l[1]].line = order[l[1]].line
        /\ order'[l[1]].quantity = order[l[1]].quantity
  BY <1>1 DEF Kept
<1>4. order[l[1]].quantity \in Int
  <2>1. l[1] \in Orders
    BY DEF Lines
  <2> QED
    BY <2>1, NamesAssumption DEF OrdersFit, OrderRow
<1> QED
  BY <1>1, <1>2, <1>3, <1>4

\* A hold is taken on the line the order has now, and of no more than it
\* promises.
LEMMA HoldOrderWithin ==
  ASSUME DocumentsInv, Stock!ShelfTypeOK, HoldWithinPromise, NEW o \in Orders,
         HoldOrder(o), order' = order
  PROVE  HoldWithinPromise'
<1>1. CASE UNCHANGED stockVars
  BY <1>1 DEF stockVars, HoldWithinPromise, Line, Exists, Stock!NoHold
<1>2. CASE ~UNCHANGED stockVars
  <2>1. Exists(order[o]) /\ ShipsAutomatically
          /\ Stock!Reserve(Line(o), dispatch, order[o].quantity)
    BY <1>2, Zenon DEF HoldOrder
  <2> DEFINE n == Stock!Reservable(dispatch, order[o].quantity)
  <2>2. held' = [held EXCEPT ![Line(o)] = [at |-> dispatch, quantity |-> n]]
    BY <2>1, Zenon DEF Stock!Reserve
  <2>3. n <= order[o].quantity
    BY <2>1, NamesAssumption DEF DocumentsInv, OrdersFit, OrderRow, ShipsAutomatically, Stock!ShelfTypeOK,
       Stock!Reservable, Stock!AtLeastZero, Stock!Lesser, Stock!Available, Quantities
  <2>4. Line(o) \in Lines
    BY <2>1, LineKnown DEF DocumentsInv, OrdersFit
  <2> HIDE DEF n
  <2>5. SUFFICES ASSUME NEW l \in Lines, held'[l] # Stock!NoHold
                 PROVE  /\ Exists(order[l[1]])
                        /\ l = Line(l[1])
                        /\ held'[l].quantity <= order[l[1]].quantity
    BY DEF HoldWithinPromise, Line, Stock!NoHold, Exists
  <2>6. CASE l = Line(o)
    BY <2>1, <2>2, <2>3, <2>4, <2>6 DEF Line, Stock!ShelfTypeOK
  <2>7. CASE l # Line(o)
    BY <2>2, <2>5, <2>7 DEF HoldWithinPromise, Stock!ShelfTypeOK
  <2> QED
    BY <2>6, <2>7
<1> QED
  BY <1>1, <1>2

\* Giving a hold back, or losing it with its line, empties one row.
LEMMA OneRowEmptied ==
  ASSUME Stock!ShelfTypeOK, NEW o \in Orders, ReleaseOrder(o) \/ DropLine(o)
  PROVE  /\ \A l \in Lines : Shrinks(l)
         /\ Line(o) \in Lines /\ DropLine(o) => held'[Line(o)] = Stock!NoHold
<1>1. CASE held' = held
  BY <1>1 DEF Shrinks, Stock!ShelfTypeOK, Stock!Hold, Stock!NoHold, Stock!Quantities,
              DropLine, Stock!CascadeHold, ReleaseOrder, Stock!ReleaseOrder
<1>2. CASE held' = [held EXCEPT ![Line(o)] = Stock!NoHold]
  BY <1>2 DEF Shrinks, Stock!ShelfTypeOK, Stock!Hold, Stock!NoHold, Stock!Quantities
<1> QED
  BY <1>1, <1>2, Zenon DEF ReleaseOrder, DropLine, Stock!ReleaseOrder, Stock!CascadeHold, stockVars

\* An order that leaves its documents alone may give its hold back.
LEMMA ReleaseOrderWithin ==
  ASSUME DocumentsInv, Stock!ShelfTypeOK, Stock!ShelfTypeOK', HoldWithinPromise,
         NEW o \in Orders, ReleaseOrder(o), order' = order, DocumentsInv'
  PROVE  HoldWithinPromise'
<1>1. \A l \in Lines : Shrinks(l) /\ Kept(l[1])
  BY OneRowEmptied DEF Kept
<1> QED
  BY <1>1, HoldsShrink DEF DocumentsInv

\* The old line goes with its hold; the other orders keep theirs.
LEMMA DroppedWithin ==
  ASSUME DocumentsInv, DocumentsInv', Stock!ShelfTypeOK, Stock!ShelfTypeOK', HoldWithinPromise,
         NEW s \in Slots, WriteOrder(s) \/ DeleteOrder(s)
  PROVE  HoldWithinPromise'
<1> DEFINE o == slot[s].order
<1>1. o \in Orders /\ Exists(order[o]) /\ DropLine(o)
  BY DEF WriteOrder, DeleteOrder, DocumentsInv, HandlersFit, LocalsFit, At, OrderSteps
<1>2. Line(o) \in Lines
  BY <1>1, LineKnown DEF DocumentsInv, OrdersFit
<1>3. \A p \in Orders \ {o} : Kept(p)
  BY <1>1 DEF Kept, WriteOrder, DeleteOrder, DocumentsInv, OrdersFit
<1>4. \A l \in Lines : Shrinks(l) /\ (held'[l] # Stock!NoHold => Kept(l[1]))
  <2> SUFFICES ASSUME NEW l \in Lines
               PROVE  Shrinks(l) /\ (held'[l] # Stock!NoHold => Kept(l[1]))
    OBVIOUS
  <2>1. Shrinks(l) /\ held'[Line(o)] = Stock!NoHold
    BY <1>1, <1>2, OneRowEmptied
  <2>2. l[1] \in Orders
    BY DEF Lines
  <2>3. held'[l] # Stock!NoHold => l[1] # o
    BY <2>1 DEF Shrinks, HoldWithinPromise
  <2> QED
    BY <2>1, <2>2, <2>3, <1>3
<1> QED
  BY <1>4, HoldsShrink DEF DocumentsInv

\* Shipping for an invoice gives back part of a hold, and documents stay.
LEMMA ShippedWithin ==
  ASSUME DocumentsInv, DocumentsInv', Stock!ShelfTypeOK, Stock!ShelfTypeOK', HoldWithinPromise,
         NEW s \in Slots, ShipInvoice(s) \/ ReturnGoods(s)
  PROVE  HoldWithinPromise'
<1> DEFINE i == slot[s].invoice
           l == invoice[i].line
           n == invoice[i].quantity
<1>1. i \in Invoices
  BY DEF DocumentsInv, HandlersFit, LocalsFit, ShipInvoice, ReturnGoods, At, InvoiceSteps
<1>2. n \in Nat /\ l \in Lines \cup {NoLine}
  BY <1>1, NamesAssumption DEF DocumentsInv, InvoicesFit, InvoiceRow
<1>3. CASE held' = held
  BY <1>3 DEF ShipInvoice, ReturnGoods, HoldWithinPromise, Line, Exists, Stock!NoHold
<1>4. CASE l \in Lines /\ held' = [held EXCEPT ![l] = Stock!HoldAfter(l, n)]
  <2> HIDE DEF n, l
  <2>1. \A k \in Lines : Shrinks(k)
    BY <1>2, <1>4 DEF Shrinks, Stock!ShelfTypeOK, Stock!Hold, Stock!NoHold, Stock!Quantities,
                      Stock!HoldAfter
  <2>2. \A k \in Lines : Kept(k[1])
    BY DEF ShipInvoice, ReturnGoods, Kept
  <2> QED
    BY <2>1, <2>2, HoldsShrink DEF DocumentsInv
<1> QED
  BY <1>2, <1>3, <1>4, Zenon
     DEF ShipInvoice, ReturnGoods, Stock!Remove, Stock!Ship, Stock!Receive

\* Writing a status, or a first row, keeps the line and the quantity of orders.
LEMMA StatusWithin ==
  ASSUME DocumentsInv, DocumentsInv', Stock!ShelfTypeOK, Stock!ShelfTypeOK', HoldWithinPromise,
         held' = held,
         \/ order' = order
         \/ \E s \in Slots : WriteOrderStatus(s) \/ AdvanceOrder(s)
         \/ \E o \in Orders, n \in Quantities : CreateOrder(o, n)
  PROVE  HoldWithinPromise'
<1>1. CASE order' = order
  BY <1>1 DEF HoldWithinPromise, Line, Exists, Stock!NoHold
<1>2. ASSUME \A o \in Orders : Kept(o) PROVE HoldWithinPromise'
  <2>1. \A l \in Lines : Shrinks(l) /\ l[1] \in Orders
    BY DEF Shrinks, Lines, Stock!ShelfTypeOK, Stock!Hold, Stock!NoHold, Stock!Quantities
  <2> QED
    BY <1>2, <2>1, HoldsShrink DEF DocumentsInv
<1>3. ASSUME NEW s \in Slots, WriteOrderStatus(s) \/ AdvanceOrder(s)
      PROVE  \A o \in Orders : Kept(o)
  <2>1. ASSUME NEW p \in Orders, NEW status, status \notin Missing,
               order' = [order EXCEPT ![p].status = status]
        PROVE  \A o \in Orders : Kept(o)
    <3>1. /\ order'[p].status = status
          /\ order'[p].line = order[p].line /\ order'[p].quantity = order[p].quantity
      BY <2>1 DEF DocumentsInv, OrdersFit, OrderRow
    <3>2. \A o \in Orders \ {p} : order'[o] = order[o]
      BY <2>1 DEF DocumentsInv, OrdersFit
    <3> QED
      BY <2>1, <3>1, <3>2 DEF Kept, Exists
  <2>2. slot[s].step \in {"status.write", "send.advanceWrite"} => slot[s].order \in Orders
    BY DEF DocumentsInv, HandlersFit, LocalsFit, OrderSteps
  <2>3. slot[s].step = "status.write" => slot[s].status \notin Missing
    BY DEF DocumentsInv, HandlersFit, LocalsFit, OrderStatuses, Missing
  <2>4. CASE WriteOrderStatus(s)
    <3>1. slot[s].step = "status.write"
          /\ order' = [order EXCEPT ![slot[s].order].status = slot[s].status]
      BY <2>4, Zenon DEF WriteOrderStatus, At
    <3> QED
      BY <2>1, <2>2, <2>3, <3>1, Zenon
  <2>5. CASE AdvanceOrder(s)
    <3>1. slot[s].step = "send.advanceWrite"
          /\ order' = [order EXCEPT ![slot[s].order].status = "partially_shipped"]
      BY <2>5, Zenon DEF AdvanceOrder, At
    <3>2. "partially_shipped" \notin Missing
      BY DEF Missing
    <3> QED
      BY <2>1, <2>2, <3>1, <3>2, Zenon
  <2> QED
    BY <1>3, <2>4, <2>5
<1>4. ASSUME NEW o \in Orders, NEW n \in Quantities, CreateOrder(o, n)
      PROVE  \A p \in Orders : Kept(p)
  BY <1>4 DEF CreateOrder, Kept, Exists, Missing, DocumentsInv, OrdersFit
<1> QED
  BY <1>1, <1>2, <1>3, <1>4

\* Every step keeps holds within what their orders promise.
LEMMA WithinNext ==
  DocumentsInv /\ DocumentsInv' /\ Stock!ShelfTypeOK /\ Stock!ShelfTypeOK'
    /\ HoldWithinPromise /\ [Next]_vars => HoldWithinPromise'
<1> SUFFICES ASSUME DocumentsInv, DocumentsInv', Stock!ShelfTypeOK, Stock!ShelfTypeOK',
                    HoldWithinPromise, [Next]_vars
             PROVE  HoldWithinPromise'
  OBVIOUS
<1>1. ASSUME NEW s \in Slots, BeginOrderRequest(s) \/ BeginInvoiceRequest(s)
      PROVE  HoldWithinPromise'
  <2>1. order' = order /\ held' = held
    BY <1>1, Zenon DEF BeginOrderRequest, BeginInvoiceRequest, ReadOrderToUpdate, ReadOrderToBill,
       ReadOrderToSetStatus, ReadOrderToDelete, ReadInvoiceToUpdate, ReadInvoiceToDelete,
       ReadInvoiceToSend, ReadInvoiceToCancel
  <2> QED
    BY <2>1, StatusWithin
<1>2. ASSUME NEW s \in Slots, Step(s) \/ Abandon(s) PROVE HoldWithinPromise'
  <2>1. slot[s].step \in OrderSteps => slot[s].order \in Orders
    BY DEF DocumentsInv, HandlersFit, LocalsFit
  <2>2. CASE \/ ReleaseBeforeUpdate(s) \/ ReleaseCancelled(s)
             \/ HoldAfterUpdate(s) \/ HoldConfirmed(s) \/ Rehold(s)
    <3>1. slot[s].order \in Orders
      BY <2>1, <2>2 DEF ReleaseBeforeUpdate, HoldAfterUpdate, HoldConfirmed, ReleaseCancelled,
                        Rehold, At, OrderSteps
    <3>2. order' = order /\ (HoldOrder(slot[s].order) \/ ReleaseOrder(slot[s].order))
      BY <2>2, Zenon DEF ReleaseBeforeUpdate, HoldAfterUpdate, HoldConfirmed, ReleaseCancelled, Rehold
    <3> QED
      BY <3>1, <3>2, HoldOrderWithin, ReleaseOrderWithin
  <2>3. CASE WriteOrder(s) \/ DeleteOrder(s)
    BY <2>3, DroppedWithin
  <2>4. CASE ShipInvoice(s) \/ ReturnGoods(s)
    BY <2>4, ShippedWithin
  <2>5. CASE ReleaseToRehold(s)
    <3> DEFINE o == invoice[slot[s].invoice].order
    <3>1. order' = order
      BY <2>5, Zenon DEF ReleaseToRehold
    <3>2. CASE o # NoOrder /\ StillExpectsGoods(order[o].status)
      <4>1. slot[s].invoice \in Invoices
        BY <2>5 DEF ReleaseToRehold, At, DocumentsInv, HandlersFit, LocalsFit, InvoiceSteps
      <4>2. o \in Orders
        BY <3>2, <4>1 DEF DocumentsInv, InvoicesFit, InvoiceRow
      <4>3. ReleaseOrder(o)
        BY <2>5, <3>2, Zenon DEF ReleaseToRehold
      <4> QED
        BY <3>1, <4>2, <4>3, ReleaseOrderWithin
    <3>3. CASE ~(o # NoOrder /\ StillExpectsGoods(order[o].status))
      <4>1. held' = held
        BY <2>5, <3>3, Zenon DEF ReleaseToRehold, stockVars
      <4> QED
        BY <3>1, <4>1, StatusWithin
    <3> QED
      BY <3>2, <3>3
  <2>6. CASE WriteOrderStatus(s) \/ AdvanceOrder(s)
    <3>1. held' = held
      BY <2>6, Zenon DEF WriteOrderStatus, AdvanceOrder
    <3> QED
      BY <2>6, <3>1, StatusWithin
  <2>7. CASE \/ WriteInvoice(s) \/ DeleteInvoice(s)
             \/ RefuseShipment(s) \/ WriteSent(s) \/ ReadToAdvance(s)
             \/ WriteCancelled(s) \/ FailRequest(s) \/ Abandon(s)
             \/ \E i \in Invoices : CreateInstalment(s, i)
    <3>1. order' = order /\ held' = held
      BY <2>7, Zenon DEF WriteInvoice, DeleteInvoice, RefuseShipment, WriteSent,
         ReadToAdvance, WriteCancelled, FailRequest, Abandon, CreateInstalment
    <3> QED
      BY <3>1, StatusWithin
  <2> QED
    BY <1>2, <2>2, <2>3, <2>4, <2>5, <2>6, <2>7, Zenon DEF Step, OrderStep, InvoiceStep
<1>3. CASE SingleCall
  <2>1. held' = held
    BY <1>3, Zenon DEF SingleCall, CreateOrder, CreateInvoice, Pay, SetDispatch, StockIn, StockOut,
                       Stock!Receive, Stock!Remove
  <2>2. order' = order \/ \E o \in Orders, n \in Quantities : CreateOrder(o, n)
    BY <1>3, Zenon DEF SingleCall, CreateInvoice, Pay, SetDispatch, StockIn, StockOut
  <2> QED
    BY <2>1, <2>2, StatusWithin
<1>4. CASE UNCHANGED vars
  BY <1>4, StatusWithin DEF vars
<1> QED
  BY <1>1, <1>2, <1>3, <1>4, Zenon DEF Next

\* HoldWithinPromise: a hold belongs to the line an existing order has now and is
\* never more than it promises, with handlers overlapping and dropped anywhere.
THEOREM HoldsStayWithinPromises == Spec => []HoldWithinPromise
<1>1. Init => HoldWithinPromise
  BY DEF Init, Stock!ShelfInit, HoldWithinPromise
<1> QED
  BY <1>1, WithinNext, DocumentsAlways, ShelfTyped, PTL DEF Spec

-----------------------------------------------------------------------------
(* One request at a time: what a handler reads is still so when it writes, so *)
(* holds and levels agree.  With two handlers at once neither needs to be so. *)


\* No two handlers, whether there are any or not.
OneAtATime == \A s, r \in Slots : s = r

\* The orders that hold nothing.
HoldsNothing(o) == \A l \in Lines : l[1] = o => held[l] = Stock!NoHold

DraftsHoldNothing == \A o \in Orders : order[o].status = "draft" => HoldsNothing(o)

\* What a handler of s has read, or written itself, of its order is still so.
StillAsRead(s) ==
  LET o == slot[s].order IN
  /\ slot[s].step \in {"update.release", "update.hold", "status.hold"} =>
       order[o].status = "confirmed"
  /\ slot[s].step \in {"update.release", "update.write"} =>
       slot[s].status = order[o].status
  /\ slot[s].step = "update.write" =>
       order[o].status \in {"draft", "confirmed"} /\ HoldsNothing(o)
  /\ slot[s].step = "status.write" => <<order[o].status, slot[s].status>> \in OrderTransitions
  /\ slot[s].step = "status.release" => order[o].status = "cancelled"
  /\ slot[s].step = "order.delete" => order[o].status = "draft"
  /\ slot[s].step = "send.advanceWrite" => order[o].status \in {"confirmed", "processing"}
  /\ slot[s].step = "cancel.hold" => StillExpectsGoods(order[o].status)

SequentialInv == DraftsHoldNothing /\ \A s \in Slots : StillAsRead(s)

\* A cancelled order that still holds something is about to give it back.
Releasing ==
  \A o \in Orders : order[o].status = "cancelled" =>
    HoldsNothing(o) \/ \E s \in Slots : slot[s].step = "status.release" /\ slot[s].order = o

-----------------------------------------------------------------------------
(* Locals after a step *)

\* The steps for which what was read matters.
Watched ==
  {"update.release", "update.write", "update.hold", "status.write", "status.hold",
   "status.release", "order.delete", "send.advanceWrite", "cancel.hold"}

\* A handler that goes on keeps what it is about and the status it has read.
LEMMA GoesOn ==
  ASSUME HandlersFit, NEW s \in Slots, NEW step, Continue(s, step)
  PROVE  /\ slot'[s].step = step /\ slot'[s].order = slot[s].order
         /\ slot'[s].invoice = slot[s].invoice /\ slot'[s].status = slot[s].status
<1>1. PICK old : old = slot[s]
  OBVIOUS
<1>2. old = Carrying(old.step, old.order, old.invoice, old.quantity, old.line, old.status)
  BY <1>1 DEF HandlersFit, LocalsType, Carrying
<1>3. PICK x : x = [old EXCEPT !.step = step]
  OBVIOUS
<1>4. x = Carrying(step, old.order, old.invoice, old.quantity, old.line, old.status)
  BY <1>2, <1>3 DEF Carrying
<1>5. slot' = [slot EXCEPT ![s] = x]
  BY <1>1, <1>3, Zenon DEF Continue
<1>6. slot'[s] = x
  BY <1>5 DEF HandlersFit
<1> QED
  BY <1>1, <1>4, <1>6 DEF Carrying

\* A handler that ends is idle.
LEMMA Ends ==
  ASSUME HandlersFit, NEW s \in Slots, Finish(s)
  PROVE  slot'[s].step = "idle"
BY IdleFits DEF Finish, HandlersFit

\* What a request about an order carries first.
LEMMA OrderRequestLocals ==
  ASSUME HandlersFit, NEW s \in Slots, NEW o \in Orders
  PROVE  /\ \A n \in Quantities : ReadOrderToUpdate(s, o, n) =>
              /\ slot'[s].step = IF order[o].status = "confirmed" THEN "update.release"
                                                                 ELSE "update.write"
              /\ slot'[s].order = o /\ slot'[s].status = order[o].status
         /\ \A n \in Quantities : ReadOrderToBill(s, o, n) =>
              /\ slot'[s].step = "bill.create" /\ slot'[s].order = o
              /\ slot'[s].quantity = n /\ slot'[s].line = Line(o)
         /\ \A status \in OrderStatuses : ReadOrderToSetStatus(s, o, status) =>
              slot'[s].step = "status.write" /\ slot'[s].order = o /\ slot'[s].status = status
         /\ ReadOrderToDelete(s, o) => slot'[s].step = "order.delete" /\ slot'[s].order = o
<1>1. ASSUME NEW n \in Quantities, ReadOrderToUpdate(s, o, n)
      PROVE  /\ slot'[s].step = IF order[o].status = "confirmed" THEN "update.release"
                                                                ELSE "update.write"
             /\ slot'[s].order = o /\ slot'[s].status = order[o].status
  <2> DEFINE step == IF order[o].status = "confirmed" THEN "update.release" ELSE "update.write"
  <2>1. PICK q : q = OrderLocals(step, o)
    OBVIOUS
  <2>2. q = Carrying(step, o, NoInvoice, 0, NoLine, "none")
    BY <2>1, LocalsAre, Zenon
  <2>3. PICK r : r = [q EXCEPT !.quantity = n]
    OBVIOUS
  <2>4. r = Carrying(step, o, NoInvoice, n, NoLine, "none")
    BY <2>2, <2>3 DEF Carrying
  <2>5. PICK x : x = [r EXCEPT !.status = order[o].status]
    OBVIOUS
  <2>6. x = Carrying(step, o, NoInvoice, n, NoLine, order[o].status)
    BY <2>4, <2>5 DEF Carrying
  <2>7. slot' = [slot EXCEPT ![s] = x]
    BY <1>1, <2>1, <2>3, <2>5, Zenon DEF ReadOrderToUpdate, Begin
  <2> QED
    BY <2>6, <2>7 DEF Carrying, HandlersFit
<1>2. ASSUME NEW n \in Quantities, ReadOrderToBill(s, o, n)
      PROVE  /\ slot'[s].step = "bill.create" /\ slot'[s].order = o
             /\ slot'[s].quantity = n /\ slot'[s].line = Line(o)
  <2>1. PICK q : q = OrderLocals("bill.create", o)
    OBVIOUS
  <2>2. q = Carrying("bill.create", o, NoInvoice, 0, NoLine, "none")
    BY <2>1, LocalsAre, Zenon
  <2>3. PICK r : r = [q EXCEPT !.quantity = n]
    OBVIOUS
  <2>4. r = Carrying("bill.create", o, NoInvoice, n, NoLine, "none")
    BY <2>2, <2>3 DEF Carrying
  <2>5. PICK x : x = [r EXCEPT !.line = Line(o)]
    OBVIOUS
  <2>6. x = Carrying("bill.create", o, NoInvoice, n, Line(o), "none")
    BY <2>4, <2>5 DEF Carrying
  <2>7. slot' = [slot EXCEPT ![s] = x]
    BY <1>2, <2>1, <2>3, <2>5, Zenon DEF ReadOrderToBill, Begin
  <2> QED
    BY <2>6, <2>7 DEF Carrying, HandlersFit
<1>3. ASSUME NEW status \in OrderStatuses, ReadOrderToSetStatus(s, o, status)
      PROVE  slot'[s].step = "status.write" /\ slot'[s].order = o /\ slot'[s].status = status
  <2>1. PICK q : q = OrderLocals("status.write", o)
    OBVIOUS
  <2>2. q = Carrying("status.write", o, NoInvoice, 0, NoLine, "none")
    BY <2>1, LocalsAre, Zenon
  <2>3. PICK x : x = [q EXCEPT !.status = status]
    OBVIOUS
  <2>4. x = Carrying("status.write", o, NoInvoice, 0, NoLine, status)
    BY <2>2, <2>3 DEF Carrying
  <2>5. slot' = [slot EXCEPT ![s] = x]
    BY <1>3, <2>1, <2>3, Zenon DEF ReadOrderToSetStatus, Begin
  <2> QED
    BY <2>4, <2>5 DEF Carrying, HandlersFit
<1>4. ASSUME ReadOrderToDelete(s, o)
      PROVE  slot'[s].step = "order.delete" /\ slot'[s].order = o
  <2>1. slot' = [slot EXCEPT ![s] = Carrying("order.delete", o, NoInvoice, 0, NoLine, "none")]
    BY <1>4, LocalsAre, Zenon DEF ReadOrderToDelete, Begin
  <2> QED
    BY <2>1 DEF Carrying, HandlersFit
<1> QED
  BY <1>1, <1>2, <1>3, <1>4

\* What a request about an invoice has read of it when it begins.
ReadOf(step, i) ==
  \/ step \in {"edit.write", "invoice.delete", "send.ship"} /\ invoice[i].status = "draft"
  \/ /\ step = "cancel.write" /\ CanCancel(invoice[i].status)
     /\ ShipsAutomatically /\ invoice[i].order # NoOrder
          => ~AssertsGoodsHaveLeft(order[invoice[i].order].status)

\* And what it carries.
LEMMA InvoiceRequestLocals ==
  ASSUME HandlersFit, NEW s \in Slots, BeginInvoiceRequest(s)
  PROVE  \E i \in Invoices :
           /\ slot'[s].invoice = i /\ slot'[s].status = invoice[i].status
           /\ ReadOf(slot'[s].step, i)
<1>1. ASSUME NEW i \in Invoices, NEW n \in Quantities, ReadInvoiceToUpdate(s, i, n)
      PROVE  /\ slot'[s].invoice = i /\ slot'[s].status = invoice[i].status
             /\ slot'[s].step = "edit.write"
  <2>1. PICK q : q = InvoiceLocals("edit.write", i)
    OBVIOUS
  <2>2. q = Carrying("edit.write", NoOrder, i, 0, NoLine, invoice[i].status)
    BY <2>1, LocalsAre, Zenon
  <2>3. PICK x : x = [q EXCEPT !.quantity = n]
    OBVIOUS
  <2>4. x = Carrying("edit.write", NoOrder, i, n, NoLine, invoice[i].status)
    BY <2>2, <2>3 DEF Carrying
  <2>5. slot' = [slot EXCEPT ![s] = x]
    BY <1>1, <2>1, <2>3, Zenon DEF ReadInvoiceToUpdate, Begin
  <2> QED
    BY <2>4, <2>5 DEF Carrying, HandlersFit
<1>2. ASSUME NEW i \in Invoices, NEW step, slot' = [slot EXCEPT ![s] = InvoiceLocals(step, i)]
      PROVE  /\ slot'[s].invoice = i /\ slot'[s].status = invoice[i].status
             /\ slot'[s].step = step
  <2>1. slot' = [slot EXCEPT ![s] = Carrying(step, NoOrder, i, 0, NoLine, invoice[i].status)]
    BY <1>2, LocalsAre, Zenon
  <2> QED
    BY <2>1 DEF Carrying, HandlersFit
<1>3. ASSUME NEW i \in Invoices, ReadInvoiceToDelete(s, i) \/ ReadInvoiceToSend(s, i)
      PROVE  /\ slot'[s].invoice = i /\ slot'[s].status = invoice[i].status
             /\ ReadOf(slot'[s].step, i)
  <2>1. invoice[i].status = "draft"
    BY <1>3 DEF ReadInvoiceToDelete, ReadInvoiceToSend, InvoiceEditable
  <2>2. \/ slot' = [slot EXCEPT ![s] = InvoiceLocals("invoice.delete", i)]
        \/ slot' = [slot EXCEPT ![s] = InvoiceLocals("send.ship", i)]
    BY <1>3, Zenon DEF ReadInvoiceToDelete, ReadInvoiceToSend, Begin
  <2> QED
    BY <1>2, <2>1, <2>2 DEF ReadOf
<1>4. ASSUME NEW i \in Invoices, ReadInvoiceToCancel(s, i)
      PROVE  /\ slot'[s].invoice = i /\ slot'[s].status = invoice[i].status
             /\ ReadOf(slot'[s].step, i)
  <2>1. slot' = [slot EXCEPT ![s] = InvoiceLocals("cancel.write", i)]
    BY <1>4, Zenon DEF ReadInvoiceToCancel, Begin
  <2> QED
    BY <1>2, <1>4, <2>1 DEF ReadOf, ReadInvoiceToCancel
<1>5. ASSUME NEW i \in Invoices, NEW n \in Quantities, ReadInvoiceToUpdate(s, i, n)
      PROVE  /\ slot'[s].invoice = i /\ slot'[s].status = invoice[i].status
             /\ ReadOf(slot'[s].step, i)
  BY <1>1, <1>5 DEF ReadOf, ReadInvoiceToUpdate, InvoiceEditable
<1> QED
  BY <1>3, <1>4, <1>5, Zenon DEF BeginInvoiceRequest

-----------------------------------------------------------------------------
(* Holds after a step *)

\* What the proofs below start from: what FulfilmentProofs proves of any number
\* of handlers, and what one at a time adds.
Reached == DocumentsInv /\ Stock!ShelfTypeOK /\ HoldWithinPromise /\ SequentialInv

CancelledKept ==
  \A o \in Orders : order[o].status = "cancelled" => order'[o].status = "cancelled"

\* An order that holds nothing holds nothing more.
LEMMA NothingMore ==
  ASSUME \A l \in Lines : Shrinks(l), NEW o, HoldsNothing(o)
  PROVE  HoldsNothing(o)'
BY DEF HoldsNothing, Shrinks, Stock!NoHold

\* An order that has been released holds nothing at all: what it held was for
\* the line it has.
LEMMA NothingLeft ==
  ASSUME Reached, NEW o \in Orders, ReleaseOrder(o)
  PROVE  HoldsNothing(o)'
<1> SUFFICES ASSUME NEW l \in Lines, l[1] = o PROVE held'[l] = Stock!NoHold
  BY DEF HoldsNothing, Stock!NoHold
<1>1. held[l] # Stock!NoHold => l = Line(o) /\ Exists(order[o])
  BY DEF Reached, HoldWithinPromise
<1>2. Exists(order[o]) => order[o].line > 0
  BY DEF Reached, DocumentsInv, OrdersFit
<1>3. held \in [Lines -> Stock!Hold]
  BY DEF Reached, Stock!ShelfTypeOK
<1>4. CASE held[l] = Stock!NoHold
  <2>1. Shrinks(l)
    BY OneRowEmptied DEF Reached
  <2> QED
    BY <1>4, <2>1 DEF Shrinks
<1>5. CASE held[l] # Stock!NoHold
  BY <1>1, <1>2, <1>3, <1>5 DEF ReleaseOrder, Stock!ReleaseOrder
<1> QED
  BY <1>4, <1>5

\* A line is held only for an order that is neither new, draft nor deleted.
LEMMA NewHoldsNothing ==
  ASSUME Reached, NEW o \in Orders, order[o].status \in {"none", "deleted", "draft"}
  PROVE  HoldsNothing(o)
BY DEF Reached, SequentialInv, DraftsHoldNothing, HoldWithinPromise, HoldsNothing, Exists, Missing

\* Holds that only shrink stay off drafts.
LEMMA DraftsStay ==
  ASSUME Reached, \A l \in Lines : Shrinks(l),
         \A o \in Orders : order'[o].status = "draft" => order[o].status \in {"draft", "none"}
  PROVE  DraftsHoldNothing'
<1> SUFFICES ASSUME NEW o \in Orders, order'[o].status = "draft" PROVE HoldsNothing(o)'
  BY DEF DraftsHoldNothing
<1> QED
  BY NewHoldsNothing, NothingMore

\* Rows untouched have not grown.
LEMMA Untouched ==
  ASSUME Stock!ShelfTypeOK, held' = held
  PROVE  \A l \in Lines : Shrinks(l)
BY DEF Shrinks, Stock!ShelfTypeOK, Stock!Hold, Stock!NoHold, Stock!Quantities

\* Goods that leave for an invoice take from holds.
LEMMA MovementsShrink ==
  ASSUME DocumentsInv, Stock!ShelfTypeOK, NEW s \in Slots, ShipInvoice(s) \/ ReturnGoods(s)
  PROVE  \A l \in Lines : Shrinks(l)
<1> DEFINE i == slot[s].invoice
           k == invoice[i].line
           n == invoice[i].quantity
<1>1. i \in Invoices
  BY DEF DocumentsInv, HandlersFit, LocalsFit, ShipInvoice, ReturnGoods, At, InvoiceSteps
<1>2. n \in Nat /\ k \in Lines \cup {NoLine}
  BY <1>1, NamesAssumption DEF DocumentsInv, InvoicesFit, InvoiceRow
<1>3. CASE held' = held
  BY <1>3, Untouched
<1>4. CASE k \in Lines /\ held' = [held EXCEPT ![k] = Stock!HoldAfter(k, n)]
  <2> HIDE DEF n, k
  <2> QED
    BY <1>2, <1>4 DEF Shrinks, Stock!ShelfTypeOK, Stock!Hold, Stock!NoHold, Stock!Quantities,
                      Stock!HoldAfter
<1> QED
  BY <1>2, <1>3, <1>4, Zenon
     DEF ShipInvoice, ReturnGoods, Stock!Remove, Stock!Ship, Stock!Receive

\* An order that is not a draft may take a hold: no draft does.
LEMMA HoldTaken ==
  ASSUME Reached, NEW o \in Orders, HoldOrder(o), order' = order
  PROVE  /\ \A p \in Orders \ {o} : HoldsNothing(p) => HoldsNothing(p)'
         /\ order[o].status # "draft" => DraftsHoldNothing'
<1>1. held' = held \/ (Line(o) \in Lines /\ \E h : held' = [held EXCEPT ![Line(o)] = h])
  <2>1. Exists(order[o]) => Line(o) \in Lines
    BY LineKnown DEF Reached, DocumentsInv, OrdersFit
  <2> QED
    BY <2>1, Zenon DEF HoldOrder, Stock!Reserve, stockVars
<1>2. ASSUME NEW p \in Orders \ {o}, HoldsNothing(p) PROVE HoldsNothing(p)'
  BY <1>1, <1>2 DEF HoldsNothing, Line, Reached, Stock!ShelfTypeOK, Stock!NoHold
<1> QED
  BY <1>2 DEF DraftsHoldNothing, Reached, SequentialInv

-----------------------------------------------------------------------------
(* Steps *)

\* After the step nobody but s is in flight.
Alone(s) == \A r \in Slots \ {s} : slot'[r].step = "idle"

\* While no two handlers are in flight, one that takes a step is alone.
LEMMA NobodyElse ==
  ASSUME HandlersFit, OneInFlight, OneInFlight', NEW s \in Slots,
         \/ Step(s) \/ Abandon(s)
         \/ BeginOrderRequest(s) \/ BeginInvoiceRequest(s)
  PROVE  Alone(s)
<1>1. \E x : slot' = [slot EXCEPT ![s] = x]
  BY Zenon DEF Step, OrderStep, InvoiceStep, ReleaseBeforeUpdate, WriteOrder, HoldAfterUpdate,
     WriteOrderStatus, HoldConfirmed, ReleaseCancelled, DeleteOrder, CreateInstalment, WriteInvoice,
     DeleteInvoice, ShipInvoice, RefuseShipment, WriteSent, ReadToAdvance, AdvanceOrder,
     WriteCancelled, ReturnGoods, ReleaseToRehold, Rehold, FailRequest, Abandon,
     BeginOrderRequest, BeginInvoiceRequest, ReadOrderToUpdate, ReadOrderToBill,
     ReadOrderToSetStatus, ReadOrderToDelete, ReadInvoiceToUpdate, ReadInvoiceToDelete,
     ReadInvoiceToSend, ReadInvoiceToCancel, Begin, Continue, Finish
<1>2. \A r \in Slots \ {s} : slot'[r] = slot[r]
  BY <1>1 DEF HandlersFit
<1>3. CASE Step(s) \/ Abandon(s)
  <2>1. slot[s].step # "idle"
    BY <1>3, Zenon DEF Step, OrderStep, InvoiceStep, ReleaseBeforeUpdate, WriteOrder, HoldAfterUpdate,
       WriteOrderStatus, HoldConfirmed, ReleaseCancelled, DeleteOrder, CreateInstalment,
       WriteInvoice, DeleteInvoice, ShipInvoice, RefuseShipment, WriteSent, ReadToAdvance,
       AdvanceOrder, WriteCancelled, ReturnGoods, ReleaseToRehold, Rehold, FailRequest, Abandon, At
  <2> QED
    BY <1>2, <2>1 DEF OneInFlight, At, Alone
<1>4. CASE BeginOrderRequest(s) \/ BeginInvoiceRequest(s)
  <2>1. slot'[s].step # "idle"
    <3>1. CASE BeginOrderRequest(s)
      BY <3>1, OrderRequestLocals DEF BeginOrderRequest
    <3>2. CASE BeginInvoiceRequest(s)
      BY <3>2, InvoiceRequestLocals DEF ReadOf
    <3> QED
      BY <1>4, <3>1, <3>2
  <2> QED
    BY <2>1 DEF OneInFlight, At, Alone
<1> QED
  BY <1>3, <1>4

\* A handler at a step for which nothing it has read matters.
LEMMA Unwatched ==
  ASSUME NEW s \in Slots, slot'[s].step \notin Watched
  PROVE  StillAsRead(s)'
BY DEF StillAsRead, Watched

\* A step of s alone keeps the invariant if what s has read is still so and drafts
\* hold nothing.
LEMMA KeptAlone ==
  ASSUME NEW s \in Slots, Alone(s), StillAsRead(s)', DraftsHoldNothing'
  PROVE  SequentialInv'
<1>1. \A r \in Slots \ {s} : slot'[r].step \notin Watched
  BY DEF Alone, Watched
<1> QED
  BY <1>1, Unwatched DEF SequentialInv

\* All the more one that changes no order.
LEMMA OrdersLeft ==
  ASSUME NEW s \in Slots, Alone(s), order' = order, StillAsRead(s)', DraftsHoldNothing'
  PROVE  SequentialInv' /\ CancelledKept
BY KeptAlone DEF CancelledKept

\* A request starts from what it reads.
LEMMA RequestsKeep ==
  ASSUME Reached, NEW s \in Slots, Alone(s), BeginOrderRequest(s) \/ BeginInvoiceRequest(s)
  PROVE  SequentialInv' /\ CancelledKept
<1>1. order' = order /\ held' = held
  BY Zenon DEF BeginOrderRequest, BeginInvoiceRequest, ReadOrderToUpdate, ReadOrderToBill,
     ReadOrderToSetStatus, ReadOrderToDelete, ReadInvoiceToUpdate, ReadInvoiceToDelete,
     ReadInvoiceToSend, ReadInvoiceToCancel
<1>2. DraftsHoldNothing'
  BY <1>1, Untouched, DraftsStay DEF Reached
<1>3. HandlersFit
  BY DEF Reached, DocumentsInv
<1>4. CASE BeginInvoiceRequest(s)
  <2>1. slot'[s].step \notin Watched
    BY <1>3, <1>4, InvoiceRequestLocals DEF ReadOf, Watched
  <2> QED
    BY <1>1, <1>2, <2>1, Unwatched, OrdersLeft
<1>5. ASSUME NEW o \in Orders, NEW n \in Quantities, ReadOrderToUpdate(s, o, n)
      PROVE  StillAsRead(s)'
  <2>1. order[o].status \in {"draft", "confirmed"}
    BY <1>5 DEF ReadOrderToUpdate, OrderEditable
  <2>2. order[o].status = "draft" => HoldsNothing(o)'
    BY <1>1, <2>1, NewHoldsNothing, NothingMore, Untouched DEF Reached
  <2>3. /\ slot'[s].step = IF order[o].status = "confirmed" THEN "update.release"
                                                          ELSE "update.write"
        /\ slot'[s].order = o /\ slot'[s].status = order[o].status
    BY <1>3, <1>5, OrderRequestLocals
  <2> QED
    BY <1>1, <2>1, <2>2, <2>3 DEF StillAsRead
<1>6. ASSUME NEW o \in Orders, NEW status \in OrderStatuses, ReadOrderToSetStatus(s, o, status)
      PROVE  StillAsRead(s)'
  <2>1. slot'[s].step = "status.write" /\ slot'[s].order = o /\ slot'[s].status = status
    BY <1>3, <1>6, OrderRequestLocals
  <2> QED
    BY <1>1, <1>6, <2>1 DEF StillAsRead, ReadOrderToSetStatus
<1>7. ASSUME NEW o \in Orders, ReadOrderToDelete(s, o) PROVE StillAsRead(s)'
  <2>1. slot'[s].step = "order.delete" /\ slot'[s].order = o
    BY <1>3, <1>7, OrderRequestLocals
  <2> QED
    BY <1>1, <1>7, <2>1 DEF StillAsRead, ReadOrderToDelete
<1>8. ASSUME NEW o \in Orders, NEW n \in Quantities, ReadOrderToBill(s, o, n)
      PROVE  StillAsRead(s)'
  BY <1>3, <1>8, OrderRequestLocals, Unwatched DEF Watched
<1> QED
  BY <1>1, <1>2, <1>4, <1>5, <1>6, <1>7, <1>8, OrdersLeft, Zenon DEF BeginOrderRequest

\* A hold is given back before the line it is for goes, and taken again after.
LEMMA UpdateKeeps ==
  ASSUME Reached, NEW s \in Slots, Alone(s),
         ReleaseBeforeUpdate(s) \/ WriteOrder(s) \/ HoldAfterUpdate(s)
  PROVE  SequentialInv' /\ CancelledKept /\ (WriteOrder(s) => UNCHANGED stockVars)
<1> PICK o \in Orders : o = slot[s].order
  BY DEF Reached, SequentialInv, DocumentsInv, HandlersFit, LocalsFit, ReleaseBeforeUpdate,
         WriteOrder, HoldAfterUpdate, At, OrderSteps
<1>1. HandlersFit /\ StillAsRead(s)
  BY DEF Reached, SequentialInv, DocumentsInv
<1>2. CASE ReleaseBeforeUpdate(s)
  <2>1. slot'[s].step = "update.write" /\ slot'[s].order = o /\ slot'[s].status = slot[s].status
    BY <1>1, <1>2, GoesOn DEF ReleaseBeforeUpdate
  <2>2. ReleaseOrder(o) /\ order' = order /\ slot[s].step = "update.release"
    BY <1>2 DEF ReleaseBeforeUpdate, At
  <2>3. HoldsNothing(o)'
    BY <1>1, <2>2, NothingLeft
  <2>4. order[o].status = "confirmed" /\ slot[s].status = order[o].status
    BY <1>1, <2>2 DEF StillAsRead
  <2>5. StillAsRead(s)'
    BY <2>1, <2>2, <2>3, <2>4 DEF StillAsRead
  <2>6. DraftsHoldNothing'
    <3>1. \A l \in Lines : Shrinks(l)
      BY <1>1, <2>2, OneRowEmptied DEF Reached
    <3> QED
      BY <3>1, <2>2, DraftsStay
  <2> QED
    BY <1>2, <2>2, <2>5, <2>6, OrdersLeft DEF ReleaseBeforeUpdate, WriteOrder, At
<1>3. CASE WriteOrder(s)
  <2>1. /\ slot[s].step = "update.write" /\ Exists(order[o]) /\ DropLine(o)
        /\ order' = [order EXCEPT ![o].quantity = slot[s].quantity, ![o].line = @ + 1]
        /\ IF slot[s].status = "confirmed" THEN Continue(s, "update.hold") ELSE Finish(s)
    BY <1>3, Zenon DEF WriteOrder, At
  <2>2. HoldsNothing(o) /\ slot[s].status = order[o].status
    BY <1>1, <2>1 DEF StillAsRead
  <2>3. UNCHANGED stockVars
    <3>1. Line(o) \in Lines
      BY <1>1, <2>1, LineKnown DEF Reached, DocumentsInv, OrdersFit
    <3>2. held[Line(o)] = Stock!NoHold
      BY <2>2, <3>1 DEF HoldsNothing, Line
    <3> QED
      BY <2>1, <3>2 DEF DropLine
  <2>4. \A p \in Orders : order'[p].status = order[p].status
    <3>1. PICK row : row = order[o]
      OBVIOUS
    <3>2. row = [status |-> row.status, quantity |-> row.quantity, line |-> row.line]
      BY <1>1, <3>1 DEF Reached, DocumentsInv, OrdersFit, OrderRow
    <3>3. \A p \in Orders \ {o} : order'[p] = order[p]
      BY <2>1 DEF Reached, DocumentsInv, OrdersFit
    <3>4. PICK f : f = [order EXCEPT ![o].quantity = slot[s].quantity]
      OBVIOUS
    <3>5. f \in [Orders -> OrderRow \cup {f[o]}] /\ f[o] = [row EXCEPT !.quantity = slot[s].quantity]
      BY <1>1, <3>1, <3>4 DEF Reached, DocumentsInv, OrdersFit
    <3> QED
      BY <1>1, <2>1, <3>1, <3>2, <3>3, <3>4, <3>5
  <2>5. CancelledKept
    BY <2>4 DEF CancelledKept
  <2>6. DraftsHoldNothing'
    BY <2>3, <2>4, Untouched, DraftsStay DEF stockVars, Reached
  <2>7. StillAsRead(s)'
    <3>1. CASE slot[s].status = "confirmed"
      <4>1. slot'[s].step = "update.hold" /\ slot'[s].order = o
        BY <1>1, <2>1, <3>1, GoesOn
      <4> QED
        BY <1>1, <2>2, <2>4, <3>1, <4>1 DEF StillAsRead
    <3>2. CASE slot[s].status # "confirmed"
      BY <1>1, <2>1, <3>2, Ends, Unwatched DEF Watched
    <3> QED
      BY <3>1, <3>2
  <2> QED
    BY <2>3, <2>5, <2>6, <2>7, KeptAlone
<1>4. CASE HoldAfterUpdate(s)
  <2>1. slot[s].step = "update.hold" /\ HoldOrder(o) /\ Finish(s) /\ order' = order
    BY <1>4 DEF HoldAfterUpdate, At
  <2>2. order[o].status # "draft"
    BY <1>1, <2>1 DEF StillAsRead
  <2>3. StillAsRead(s)'
    BY <1>1, <2>1, Ends, Unwatched DEF Watched
  <2> QED
    BY <1>1, <2>1, <2>2, <2>3, HoldTaken, OrdersLeft DEF WriteOrder, At
<1> QED
  BY <1>2, <1>3, <1>4

\* A status is written over the one the transition starts from.
LEMMA StatusKeeps ==
  ASSUME Reached, NEW s \in Slots, Alone(s), WriteOrderStatus(s)
  PROVE  /\ SequentialInv' /\ CancelledKept
         /\ \A p \in Orders : order'[p].status = "cancelled" =>
              \/ order[p].status = "cancelled"
              \/ slot'[s].step = "status.release" /\ slot'[s].order = p
<1> PICK o \in Orders : o = slot[s].order
  BY DEF Reached, SequentialInv, DocumentsInv, HandlersFit, LocalsFit, WriteOrderStatus, At, OrderSteps
<1>1. HandlersFit /\ StillAsRead(s)
  BY DEF Reached, SequentialInv, DocumentsInv
<1>2. /\ slot[s].step = "status.write"
      /\ order' = [order EXCEPT ![o].status = slot[s].status]
      /\ held' = held
  BY Zenon DEF WriteOrderStatus, At
<1>3. <<order[o].status, slot[s].status>> \in OrderTransitions
  BY <1>1, <1>2 DEF StillAsRead
<1>4. order'[o].status = slot[s].status /\ \A p \in Orders \ {o} : order'[p] = order[p]
  BY <1>2 DEF Reached, DocumentsInv, OrdersFit, OrderRow
<1>5. order[o].status # "cancelled" /\ slot[s].status # "draft"
  BY <1>3 DEF OrderTransitions
<1>6. CancelledKept
  BY <1>4, <1>5 DEF CancelledKept
<1>7. DraftsHoldNothing'
  <2>1. \A p \in Orders : order'[p].status = "draft" => order[p].status \in {"draft", "none"}
    BY <1>4, <1>5
  <2> QED
    BY <1>2, <2>1, Untouched, DraftsStay DEF Reached
<1>8. /\ slot[s].status = "confirmed" => Continue(s, "status.hold")
      /\ slot[s].status = "cancelled" => Continue(s, "status.release")
      /\ slot[s].status \notin {"confirmed", "cancelled"} => Finish(s)
  BY DEF WriteOrderStatus
<1>9. /\ slot[s].status = "confirmed" => slot'[s].step = "status.hold" /\ slot'[s].order = o
      /\ slot[s].status = "cancelled" => slot'[s].step = "status.release" /\ slot'[s].order = o
      /\ slot[s].status \notin {"confirmed", "cancelled"} => slot'[s].step = "idle"
  BY <1>1, <1>8, GoesOn, Ends
<1>10. StillAsRead(s)'
  BY <1>4, <1>9 DEF StillAsRead
<1> QED
  BY <1>4, <1>6, <1>7, <1>9, <1>10, KeptAlone

\* Only a draft is deleted, and a draft holds nothing.
LEMMA DeleteKeeps ==
  ASSUME Reached, NEW s \in Slots, Alone(s), DeleteOrder(s)
  PROVE  SequentialInv' /\ CancelledKept /\ UNCHANGED stockVars
<1> PICK o \in Orders : o = slot[s].order
  BY DEF Reached, SequentialInv, DocumentsInv, HandlersFit, LocalsFit, DeleteOrder, At, OrderSteps
<1>1. HandlersFit /\ StillAsRead(s)
  BY DEF Reached, SequentialInv, DocumentsInv
<1>2. /\ slot[s].step = "order.delete" /\ Exists(order[o]) /\ DropLine(o) /\ Finish(s)
      /\ order' = [order EXCEPT ![o].status = "deleted"]
  BY Zenon DEF DeleteOrder, At
<1>3. order[o].status = "draft"
  BY <1>1, <1>2 DEF StillAsRead
<1>4. UNCHANGED stockVars
  <2>1. Line(o) \in Lines
    BY <1>2, LineKnown DEF Reached, DocumentsInv, OrdersFit
  <2>2. held[Line(o)] = Stock!NoHold
    BY <1>3, <2>1, NewHoldsNothing DEF HoldsNothing, Line
  <2> QED
    BY <1>2, <2>2 DEF DropLine
<1>5. order'[o].status = "deleted" /\ \A p \in Orders \ {o} : order'[p] = order[p]
  BY <1>2 DEF Reached, DocumentsInv, OrdersFit, OrderRow
<1>6. CancelledKept
  BY <1>3, <1>5 DEF CancelledKept
<1>7. DraftsHoldNothing'
  <2>1. \A p \in Orders : order'[p].status = "draft" => order[p].status \in {"draft", "none"}
    BY <1>5
  <2> QED
    BY <1>4, <2>1, Untouched, DraftsStay DEF Reached, stockVars
<1>8. StillAsRead(s)'
  BY <1>1, <1>2, Ends, Unwatched DEF Watched
<1> QED
  BY <1>4, <1>6, <1>7, <1>8, KeptAlone

\* Confirming takes a hold and cancelling gives it back.
LEMMA HoldsKeep ==
  ASSUME Reached, NEW s \in Slots, Alone(s),
         HoldConfirmed(s) \/ ReleaseCancelled(s) \/ Rehold(s)
  PROVE  SequentialInv' /\ CancelledKept
<1> PICK o \in Orders : o = slot[s].order
  BY DEF Reached, SequentialInv, DocumentsInv, HandlersFit, LocalsFit, HoldConfirmed,
         ReleaseCancelled, Rehold, At, OrderSteps
<1>1. HandlersFit /\ StillAsRead(s)
  BY DEF Reached, SequentialInv, DocumentsInv
<1>2. Finish(s) /\ order' = order
  BY DEF HoldConfirmed, ReleaseCancelled, Rehold
<1>3. StillAsRead(s)'
  BY <1>1, <1>2, Ends, Unwatched DEF Watched
<1>4. DraftsHoldNothing'
  <2>1. CASE HoldConfirmed(s) \/ Rehold(s)
    <3>1. HoldOrder(o) /\ order[o].status # "draft"
      BY <1>1, <2>1 DEF HoldConfirmed, Rehold, At, StillAsRead, StillExpectsGoods
    <3> QED
      BY <1>2, <3>1, HoldTaken
  <2>2. CASE ReleaseCancelled(s)
    <3>1. \A l \in Lines : Shrinks(l)
      BY <2>2, OneRowEmptied DEF ReleaseCancelled, Reached
    <3> QED
      BY <1>2, <3>1, DraftsStay
  <2> QED
    BY <2>1, <2>2
<1> QED
  BY <1>2, <1>3, <1>4, OrdersLeft

\* Advancing writes over a status that is still the one read.
LEMMA AdvanceKeeps ==
  ASSUME Reached, NEW s \in Slots, Alone(s), AdvanceOrder(s)
  PROVE  SequentialInv' /\ CancelledKept /\ held' = held
           /\ \A p \in Orders : order'[p].status = "cancelled" => order[p].status = "cancelled"
<1> PICK o \in Orders : o = slot[s].order
  BY DEF Reached, SequentialInv, DocumentsInv, HandlersFit, LocalsFit, AdvanceOrder, At, OrderSteps
<1>1. HandlersFit /\ StillAsRead(s)
  BY DEF Reached, SequentialInv, DocumentsInv
<1>2. /\ slot[s].step = "send.advanceWrite" /\ Finish(s) /\ held' = held
      /\ order' = [order EXCEPT ![o].status = "partially_shipped"]
  BY Zenon DEF AdvanceOrder, At
<1>3. order[o].status \in {"confirmed", "processing"}
  BY <1>1, <1>2 DEF StillAsRead
<1>4. order'[o].status = "partially_shipped" /\ \A p \in Orders \ {o} : order'[p] = order[p]
  BY <1>2 DEF Reached, DocumentsInv, OrdersFit, OrderRow
<1>5. CancelledKept /\ \A p \in Orders : order'[p].status = "cancelled" => order[p].status = "cancelled"
  BY <1>3, <1>4 DEF CancelledKept
<1>6. DraftsHoldNothing'
  <2>1. \A p \in Orders : order'[p].status = "draft" => order[p].status \in {"draft", "none"}
    BY <1>4
  <2> QED
    BY <1>2, <2>1, Untouched, DraftsStay DEF Reached
<1>7. StillAsRead(s)'
  BY <1>1, <1>2, Ends, Unwatched DEF Watched
<1> QED
  BY <1>2, <1>5, <1>6, <1>7, KeptAlone

\* What comes after an invoice is written relies on its order as it is read then.
LEMMA AfterInvoiceKeeps ==
  ASSUME Reached, NEW s \in Slots, Alone(s), ReadToAdvance(s) \/ ReleaseToRehold(s)
  PROVE  SequentialInv' /\ CancelledKept /\ \A l \in Lines : Shrinks(l)
<1> PICK i \in Invoices : i = slot[s].invoice
  BY DEF Reached, SequentialInv, DocumentsInv, HandlersFit, LocalsFit, ReadToAdvance,
         ReleaseToRehold, At, InvoiceSteps
<1> PICK o \in Orders \cup {NoOrder} : o = invoice[i].order
  BY DEF Reached, DocumentsInv, InvoicesFit, InvoiceRow
<1>1. HandlersFit /\ order' = order
  BY Zenon DEF Reached, DocumentsInv, ReadToAdvance, ReleaseToRehold
<1>2. CASE ReadToAdvance(s)
  <2>1. held' = held /\ \A l \in Lines : Shrinks(l)
    BY <1>2, Untouched DEF ReadToAdvance, Reached
  <2>2. StillAsRead(s)'
    <3>1. CASE o # NoOrder /\ BecomesPartlyShipped(order[o].status, Invoiced(o) >= order[o].quantity)
      <4>1. slot' = [slot EXCEPT ![s] = Carrying("send.advanceWrite", o, NoInvoice, 0, NoLine, "none")]
        BY <1>2, <3>1, LocalsAre, Zenon DEF ReadToAdvance
      <4>2. slot'[s].step = "send.advanceWrite" /\ slot'[s].order = o
        BY <1>1, <4>1 DEF HandlersFit, Carrying
      <4>3. order[o].status \in {"confirmed", "processing"}
        BY <3>1 DEF BecomesPartlyShipped
      <4> QED
        BY <1>1, <4>2, <4>3 DEF StillAsRead
    <3>2. CASE ~(o # NoOrder /\ BecomesPartlyShipped(order[o].status, Invoiced(o) >= order[o].quantity))
      <4>1. Finish(s)
        BY <1>2, <3>2, Zenon DEF ReadToAdvance
      <4> QED
        BY <1>1, <4>1, Ends, Unwatched DEF Watched
    <3> QED
      BY <3>1, <3>2
  <2>3. DraftsHoldNothing'
    BY <1>1, <2>1, DraftsStay
  <2> QED
    BY <1>1, <2>1, <2>2, <2>3, OrdersLeft
<1>3. CASE ReleaseToRehold(s)
  <2>1. CASE o # NoOrder /\ StillExpectsGoods(order[o].status)
    <3>1. /\ ReleaseOrder(o)
          /\ slot' = [slot EXCEPT ![s] = Carrying("cancel.hold", o, NoInvoice, 0, NoLine, "none")]
      BY <1>3, <2>1, LocalsAre, Zenon DEF ReleaseToRehold
    <3>2. slot'[s].step = "cancel.hold" /\ slot'[s].order = o
      BY <1>1, <3>1 DEF HandlersFit, Carrying
    <3>3. \A l \in Lines : Shrinks(l)
      BY <2>1, <3>1, OneRowEmptied DEF Reached
    <3>4. StillAsRead(s)'
      BY <1>1, <2>1, <3>2 DEF StillAsRead
    <3>5. DraftsHoldNothing'
      BY <1>1, <3>3, DraftsStay
    <3> QED
      BY <1>1, <3>3, <3>4, <3>5, OrdersLeft
  <2>2. CASE ~(o # NoOrder /\ StillExpectsGoods(order[o].status))
    <3>1. Finish(s) /\ held' = held
      BY <1>3, <2>2, Zenon DEF ReleaseToRehold, stockVars
    <3>2. \A l \in Lines : Shrinks(l)
      BY <3>1, Untouched DEF Reached
    <3>3. StillAsRead(s)'
      BY <1>1, <3>1, Ends, Unwatched DEF Watched
    <3> QED
      BY <1>1, <3>2, <3>3, DraftsStay, OrdersLeft
  <2> QED
    BY <2>1, <2>2
<1> QED
  BY <1>2, <1>3

\* The other calls of a handler leave orders alone and take no hold.
OtherCall(s) ==
  \/ \E i \in Invoices : CreateInstalment(s, i)
  \/ WriteInvoice(s) \/ DeleteInvoice(s)
  \/ ShipInvoice(s) \/ RefuseShipment(s) \/ WriteSent(s)
  \/ WriteCancelled(s) \/ ReturnGoods(s)
  \/ FailRequest(s) \/ Abandon(s)

\* They carry on to a call for which nothing read of an order matters.
LEMMA OtherCallsKeep ==
  ASSUME Reached, NEW s \in Slots, Alone(s), OtherCall(s)
  PROVE  SequentialInv' /\ CancelledKept /\ \A l \in Lines : Shrinks(l)
<1>1. HandlersFit /\ order' = order
  BY Zenon DEF Reached, DocumentsInv, OtherCall, CreateInstalment, WriteInvoice, DeleteInvoice,
     ShipInvoice, RefuseShipment, WriteSent, WriteCancelled, ReturnGoods, FailRequest, Abandon
<1>2. \A l \in Lines : Shrinks(l)
  <2>1. CASE ShipInvoice(s) \/ ReturnGoods(s)
    BY <2>1, MovementsShrink DEF Reached
  <2>2. CASE ~(ShipInvoice(s) \/ ReturnGoods(s))
    <3>1. held' = held
      BY <2>2, Zenon DEF OtherCall, CreateInstalment, WriteInvoice, DeleteInvoice, RefuseShipment,
         WriteSent, WriteCancelled, FailRequest, Abandon
    <3> QED
      BY <3>1, Untouched DEF Reached
  <2> QED
    BY <2>1, <2>2
<1>3. \/ Finish(s)
      \/ \E step \in {"send.write", "send.advance", "cancel.return", "cancel.release"} : Continue(s, step)
  BY Zenon DEF OtherCall, CreateInstalment, WriteInvoice, DeleteInvoice, ShipInvoice, RefuseShipment,
     WriteSent, WriteCancelled, ReturnGoods, FailRequest, Abandon
<1>4. slot'[s].step \in {"idle", "send.write", "send.advance", "cancel.return", "cancel.release"}
  BY <1>1, <1>3, GoesOn, Ends
<1>5. StillAsRead(s)'
  BY <1>4, Unwatched DEF Watched
<1> QED
  BY <1>1, <1>2, <1>5, DraftsStay, OrdersLeft

\* What the rest of the system does touches no order a handler has read.
LEMMA SingleCallsKeep ==
  ASSUME Reached, SingleCall \/ UNCHANGED vars
  PROVE  /\ SequentialInv' /\ CancelledKept /\ held' = held /\ slot' = slot
         /\ \A p \in Orders : order'[p].status = "cancelled" => order[p].status = "cancelled"
<1>1. slot' = slot /\ held' = held
  BY Zenon DEF SingleCall, CreateOrder, CreateInvoice, Pay, SetDispatch, StockIn, StockOut,
               Stock!Receive, Stock!Remove, vars
<1>2. order' = order \/ \E o \in Orders, n \in Quantities : CreateOrder(o, n)
  BY Zenon DEF SingleCall, CreateInvoice, Pay, SetDispatch, StockIn, StockOut, vars
<1>3. \A o \in Orders :
        \/ order'[o] = order[o]
        \/ order[o].status = "none" /\ order'[o].status = "draft"
  BY <1>2 DEF CreateOrder, Reached, DocumentsInv, OrdersFit
<1>4. DraftsHoldNothing'
  BY <1>1, <1>3, Untouched, DraftsStay DEF Reached
<1>5. ASSUME NEW s \in Slots PROVE StillAsRead(s)'
  <2> PICK o : o = slot[s].order
    OBVIOUS
  <2>1. StillAsRead(s) /\ slot'[s] = slot[s]
    BY <1>1 DEF Reached, SequentialInv
  <2>2. slot[s].step \in Watched => o \in Orders
    BY DEF Reached, DocumentsInv, HandlersFit, LocalsFit, Watched, OrderSteps
  <2>3. HoldsNothing(o) => HoldsNothing(o)'
    BY <1>1 DEF HoldsNothing, Stock!NoHold
  <2>4. CASE slot[s].step \notin Watched
    BY <2>1, <2>4, Unwatched
  <2>5. CASE o \in Orders /\ order'[o] = order[o]
    BY <2>1, <2>3, <2>5 DEF StillAsRead
  <2>6. CASE o \in Orders /\ order[o].status = "none" /\ slot[s].step \in Watched
    BY <2>1, <2>6 DEF StillAsRead, Watched, OrderTransitions, StillExpectsGoods
  <2> QED
    BY <1>3, <2>2, <2>4, <2>5, <2>6
<1> QED
  BY <1>1, <1>3, <1>4, <1>5 DEF SequentialInv, CancelledKept

\* The invariant is kept by every step while no two handlers are in flight.
LEMMA SequentialNext ==
  ASSUME OneInFlight, OneInFlight', Reached, [Next]_vars
  PROVE  SequentialInv' /\ CancelledKept
<1>1. HandlersFit
  BY DEF Reached, DocumentsInv
<1>2. ASSUME NEW s \in Slots, Step(s) \/ Abandon(s) PROVE SequentialInv' /\ CancelledKept
  <2>1. Alone(s)
    BY <1>1, <1>2, NobodyElse
  <2> QED
    BY <1>2, <2>1, UpdateKeeps, StatusKeeps, DeleteKeeps, HoldsKeep, AdvanceKeeps,
       AfterInvoiceKeeps, OtherCallsKeep, Zenon DEF Step, OrderStep, InvoiceStep, OtherCall
<1>3. ASSUME NEW s \in Slots, BeginOrderRequest(s) \/ BeginInvoiceRequest(s)
      PROVE  SequentialInv' /\ CancelledKept
  <2>1. Alone(s)
    BY <1>1, <1>3, NobodyElse
  <2> QED
    BY <1>3, <2>1, RequestsKeep
<1> QED
  BY <1>2, <1>3, SingleCallsKeep, Zenon DEF Next

\* Nothing is on file and no handler runs at first.
LEMMA SequentialInit == Init => SequentialInv
<1> SUFFICES ASSUME Init PROVE SequentialInv
  OBVIOUS
<1>1. \A s \in Slots : slot[s].step = "idle"
  BY IdleFits DEF Init
<1> QED
  BY <1>1 DEF Init, SequentialInv, DraftsHoldNothing, StillAsRead

\* The invariant of every behaviour in which no two handlers are in flight.
LEMMA SequentialAlways == Spec /\ []OneInFlight => []Reached
<1>1. DocumentsInv /\ Stock!ShelfTypeOK /\ HoldWithinPromise /\ SequentialInv
        /\ OneInFlight /\ OneInFlight' /\ [Next]_vars => SequentialInv'
  BY SequentialNext DEF Reached
<1>2. DocumentsInv /\ Stock!ShelfTypeOK /\ HoldWithinPromise /\ SequentialInv => Reached
  BY DEF Reached
<1> QED
  BY <1>1, <1>2, SequentialInit, DocumentsAlways, ShelfTyped, HoldsStayWithinPromises, PTL DEF Spec

-----------------------------------------------------------------------------
(* What holds when requests do not overlap *)

\* CancelledStaysCancelled: requests that come one at a time, dropped anywhere,
\* never bring a cancelled order back.
THEOREM CancelledForGood == Spec /\ []OneInFlight => CancelledStaysCancelled
<1>1. OneInFlight /\ OneInFlight' /\ Reached /\ [Next]_vars
        => [\A o \in Orders : order[o].status = "cancelled" => order'[o].status = "cancelled"]_vars
  BY SequentialNext DEF CancelledKept
<1>2. Spec /\ []OneInFlight => []Reached
  BY SequentialAlways
<1> QED
  BY <1>1, <1>2, PTL DEF Spec, CancelledStaysCancelled

\* No line goes while it holds, so every transaction counts what it writes.
LEMMA CountingOnly ==
  ASSUME OneInFlight, OneInFlight', Reached, [Next]_vars
  PROVE  [Counting]_stockVars
<1>1. ASSUME NEW s \in Slots, WriteOrder(s) \/ DeleteOrder(s) PROVE UNCHANGED stockVars
  <2>1. Alone(s)
    BY <1>1, NobodyElse, Zenon DEF Step, OrderStep, Reached, DocumentsInv
  <2> QED
    BY <1>1, <2>1, UpdateKeeps, DeleteKeeps
<1> QED
  BY <1>1, CountingSteps DEF Reached

\* ReservedInTurn: as long as requests come one at a time, dropped anywhere, a
\* level counts the reservation rows and nothing else.
THEOREM ReservationsExact == Spec => ReservedInTurn
<1>1. Init => Goods!ShelfInit
  BY DEF Init, Stock!ShelfInit, Stock!NoHold, Goods!ShelfInit, Goods!NoHold
<1>2. Counting => Goods!StepWithoutCascade
  BY DEF Counting, Quantities, Stock!Reserve, Stock!Ship, Stock!Remove, Stock!Receive,
         Stock!ReleaseOrder, Stock!CanReserve, Stock!Reservable,
         Stock!Available, Stock!CanShip, Stock!ReservedAfter, Stock!HoldAfter, Stock!GivenBack,
         Stock!Lesser, Stock!AtLeastZero, Stock!NoHold, Goods!Quantities,
         Goods!StepWithoutCascade, Goods!Reserve, Goods!Ship, Goods!Remove, Goods!Receive,
         Goods!ReleaseOrder, Goods!CanReserve, Goods!Reservable,
         Goods!Available, Goods!CanShip, Goods!ReservedAfter, Goods!HoldAfter, Goods!GivenBack,
         Goods!Lesser, Goods!AtLeastZero, Goods!NoHold
<1>3. OneInFlight /\ OneInFlight' /\ Reached /\ [Next]_vars => [Goods!StepWithoutCascade]_(Goods!shelfVars)
  BY <1>2, CountingOnly DEF stockVars, Goods!shelfVars
<1>4. Goods!ShelfInit /\ [][Goods!StepWithoutCascade]_(Goods!shelfVars) => []Goods!CountedExactly
  BY Goods!ExactCount, GoodsAssumptions
<1>5. Goods!CountedExactly => ReservedIsHeld
  <2>1. \A w \in Warehouses : Goods!UnitsHeld(w) = Stock!UnitsHeld(w)
    BY DEF Goods!UnitsHeld, Goods!Quantities, Stock!UnitsHeld, Stock!Quantities
  <2>2. \A S : Cardinality(S) = Goods!Cardinality(S)
    BY DEF Cardinality, Goods!Cardinality
  <2> QED
    BY <2>1, <2>2 DEF Goods!CountedExactly, ReservedIsHeld
<1>6. Spec /\ []OneInFlight => []Reached
  BY SequentialAlways
<1> QED
  BY <1>1, <1>3, <1>4, <1>5, <1>6, PTL DEF Spec, ReservedInTurn

-----------------------------------------------------------------------------
(* When, besides, no request is dropped *)

\* While s is about to do anything but release, what is cancelled holds nothing.
LEMMA NoneReleasing ==
  ASSUME OneAtATime, Releasing, NEW s \in Slots, slot[s].step # "status.release",
         NEW o \in Orders, order[o].status = "cancelled"
  PROVE  HoldsNothing(o)
BY DEF OneAtATime, Releasing

\* Orders cancelled before, and holds that only shrink.
LEMMA StillNothing ==
  ASSUME \A o \in Orders : order[o].status = "cancelled" => HoldsNothing(o),
         \A o \in Orders : order'[o].status = "cancelled" => order[o].status = "cancelled",
         \A l \in Lines : Shrinks(l)
  PROVE  Releasing'
<1>1. ASSUME NEW o \in Orders, order'[o].status = "cancelled" PROVE HoldsNothing(o)'
  BY <1>1, NothingMore
<1> QED
  BY <1>1 DEF Releasing

\* The step that gives back what a cancelled order holds.
LEMMA ReleaseReleases ==
  ASSUME OneAtATime, Reached, Releasing, NEW s \in Slots, ReleaseCancelled(s)
  PROVE  Releasing'
<1> PICK o \in Orders : o = slot[s].order
  BY DEF Reached, DocumentsInv, HandlersFit, LocalsFit, ReleaseCancelled, At, OrderSteps
<1>1. ReleaseOrder(o) /\ order' = order
  BY DEF ReleaseCancelled
<1>2. HoldsNothing(o)'
  BY <1>1, NothingLeft
<1>3. \A l \in Lines : Shrinks(l)
  BY <1>1, OneRowEmptied DEF Reached
<1>4. ASSUME NEW p \in Orders, order[p].status = "cancelled", p # o PROVE HoldsNothing(p)'
  <2>1. HoldsNothing(p)
    BY <1>4 DEF Releasing, OneAtATime
  <2> QED
    BY <1>3, <2>1, NothingMore
<1> QED
  BY <1>1, <1>2, <1>4 DEF Releasing

\* Every other step of a handler leaves nothing held for what is cancelled, or is
\* about to release it.
LEMMA OthersRelease ==
  ASSUME OneAtATime, ~MayAbandon, Reached, Releasing, NEW s \in Slots,
         Step(s) \/ Abandon(s), ~ReleaseCancelled(s)
  PROVE  Releasing'
<1> Alone(s)
  BY DEF OneAtATime, Alone
<1>1. slot[s].step # "status.release"
  BY DEF Step, OrderStep, InvoiceStep, ReleaseBeforeUpdate, WriteOrder, HoldAfterUpdate,
     WriteOrderStatus, HoldConfirmed, DeleteOrder, CreateInstalment, WriteInvoice, DeleteInvoice,
     ShipInvoice, RefuseShipment, WriteSent, ReadToAdvance, AdvanceOrder, WriteCancelled,
     ReturnGoods, ReleaseToRehold, Rehold, FailRequest, Abandon, At
<1>2. \A o \in Orders : order[o].status = "cancelled" => HoldsNothing(o)
  BY <1>1, NoneReleasing
<1>3. CASE OtherCall(s) \/ ReadToAdvance(s) \/ ReleaseToRehold(s)
  <2>1. order' = order
    BY <1>3, Zenon DEF OtherCall, CreateInstalment, WriteInvoice, DeleteInvoice, ShipInvoice,
       RefuseShipment, WriteSent, WriteCancelled, ReturnGoods, FailRequest, Abandon,
       ReadToAdvance, ReleaseToRehold
  <2>2. \A l \in Lines : Shrinks(l)
    BY <1>3, OtherCallsKeep, AfterInvoiceKeeps
  <2> QED
    BY <1>2, <2>1, <2>2, StillNothing
<1>4. CASE AdvanceOrder(s)
  BY <1>2, <1>4, AdvanceKeeps, Untouched, StillNothing DEF Reached
<1>5. CASE WriteOrderStatus(s)
  <2>1. held' = held
    BY <1>5 DEF WriteOrderStatus
  <2>2. \A l \in Lines : Shrinks(l)
    BY <2>1, Untouched DEF Reached
  <2>3. ASSUME NEW p \in Orders, order'[p].status = "cancelled"
        PROVE  \/ HoldsNothing(p)'
               \/ slot'[s].step = "status.release" /\ slot'[s].order = p
    BY <1>2, <1>5, <2>2, <2>3, StatusKeeps, NothingMore
  <2> QED
    BY <2>3 DEF Releasing
<1>6. CASE WriteOrder(s) \/ DeleteOrder(s)
  <2> PICK o \in Orders : o = slot[s].order
    BY <1>6 DEF Reached, DocumentsInv, HandlersFit, LocalsFit, WriteOrder, DeleteOrder, At, OrderSteps
  <2>1. held' = held
    BY <1>6, UpdateKeeps, DeleteKeeps DEF stockVars
  <2>2. \A l \in Lines : Shrinks(l)
    BY <2>1, Untouched DEF Reached
  <2>3. \A p \in Orders : order'[p].status = "cancelled" => order[p].status = "cancelled"
    <3>1. order[o].status \in {"draft", "confirmed"} /\ \A p \in Orders \ {o} : order'[p] = order[p]
      BY <1>6 DEF Reached, SequentialInv, StillAsRead, DocumentsInv, OrdersFit, WriteOrder,
                  DeleteOrder, At
    <3>2. order'[o].status # "cancelled"
      <4>1. CASE DeleteOrder(s)
        BY <4>1 DEF DeleteOrder, Reached, DocumentsInv, OrdersFit, OrderRow
      <4>2. CASE WriteOrder(s)
        <5>1. PICK row : row = order[o]
          OBVIOUS
        <5>2. row = [status |-> row.status, quantity |-> row.quantity, line |-> row.line]
          BY <5>1 DEF Reached, DocumentsInv, OrdersFit, OrderRow
        <5>3. order' = [order EXCEPT ![o].quantity = slot[s].quantity, ![o].line = @ + 1]
          BY <4>2, Zenon DEF WriteOrder
        <5>4. PICK f : f = [order EXCEPT ![o].quantity = slot[s].quantity]
          OBVIOUS
        <5>5. f[o] = [row EXCEPT !.quantity = slot[s].quantity]
          BY <5>1, <5>4 DEF Reached, DocumentsInv, OrdersFit
        <5>6. order'[o].status = row.status
          BY <5>2, <5>3, <5>4, <5>5 DEF Reached, DocumentsInv, OrdersFit
        <5> QED
          BY <3>1, <5>1, <5>6
      <4> QED
        BY <1>6, <4>1, <4>2
    <3> QED
      BY <3>1, <3>2
  <2> QED
    BY <1>2, <2>2, <2>3, StillNothing
<1>7. CASE ReleaseBeforeUpdate(s)
  <2> PICK o \in Orders : o = slot[s].order
    BY <1>7 DEF Reached, DocumentsInv, HandlersFit, LocalsFit, ReleaseBeforeUpdate, At, OrderSteps
  <2>1. order' = order /\ \A l \in Lines : Shrinks(l)
    BY <1>7, OneRowEmptied DEF ReleaseBeforeUpdate, Reached
  <2> QED
    BY <1>2, <2>1, StillNothing
<1>8. CASE HoldAfterUpdate(s) \/ HoldConfirmed(s) \/ Rehold(s)
  <2> PICK o \in Orders : o = slot[s].order
    BY <1>8 DEF Reached, DocumentsInv, HandlersFit, LocalsFit, HoldAfterUpdate, HoldConfirmed,
                Rehold, At, OrderSteps
  <2>1. HoldOrder(o) /\ order' = order
    BY <1>8 DEF HoldAfterUpdate, HoldConfirmed, Rehold
  <2>2. order[o].status # "cancelled"
    BY <1>8 DEF Reached, SequentialInv, StillAsRead, HoldAfterUpdate, HoldConfirmed, Rehold, At,
                StillExpectsGoods
  <2>3. ASSUME NEW p \in Orders, order'[p].status = "cancelled" PROVE HoldsNothing(p)'
    BY <1>2, <2>1, <2>2, <2>3, HoldTaken
  <2> QED
    BY <2>3 DEF Releasing
<1> QED
  BY <1>3, <1>4, <1>5, <1>6, <1>7, <1>8, Zenon DEF Step, OrderStep, InvoiceStep, OtherCall

\* A request begins, and the rest of the system acts, while nobody releases or
\* leaving the release where it is.
LEMMA ReleasingNext ==
  ASSUME OneAtATime, ~MayAbandon, Reached, Releasing, [Next]_vars
  PROVE  Releasing'
<1>1. ASSUME NEW s \in Slots, BeginOrderRequest(s) \/ BeginInvoiceRequest(s) PROVE Releasing'
  <2>1. order' = order /\ held' = held
    BY <1>1, Zenon DEF BeginOrderRequest, BeginInvoiceRequest, ReadOrderToUpdate, ReadOrderToBill,
       ReadOrderToSetStatus, ReadOrderToDelete, ReadInvoiceToUpdate, ReadInvoiceToDelete,
       ReadInvoiceToSend, ReadInvoiceToCancel
  <2>2. slot[s].step = "idle"
    BY <1>1, Zenon DEF BeginOrderRequest, BeginInvoiceRequest, ReadOrderToUpdate, ReadOrderToBill,
       ReadOrderToSetStatus, ReadOrderToDelete, ReadInvoiceToUpdate, ReadInvoiceToDelete,
       ReadInvoiceToSend, ReadInvoiceToCancel, Begin, At
  <2>3. \A o \in Orders : order[o].status = "cancelled" => HoldsNothing(o)
    BY <2>2, NoneReleasing
  <2> QED
    BY <2>1, <2>3, Untouched, StillNothing DEF Reached
<1>2. ASSUME NEW s \in Slots, Step(s) \/ Abandon(s) PROVE Releasing'
  BY <1>2, ReleaseReleases, OthersRelease
<1>3. CASE SingleCall \/ UNCHANGED vars
  <2>1. /\ held' = held /\ slot' = slot
        /\ \A p \in Orders : order'[p].status = "cancelled" => order[p].status = "cancelled"
    BY <1>3, SingleCallsKeep
  <2>2. \A p : HoldsNothing(p) => HoldsNothing(p)'
    BY <2>1 DEF HoldsNothing, Stock!NoHold
  <2> QED
    BY <2>1, <2>2 DEF Releasing
<1> QED
  BY <1>1, <1>2, <1>3, Zenon DEF Next

\* HoldsMatchOrders: requests that run one at a time, each to its end, leave no
\* hold that nothing counts and none on a draft or a cancelled order.
THEOREM HoldsAgreeWithOrders ==
  OneAtATime /\ ~MayAbandon => (Spec => []HoldsMatchOrders)
<1> SUFFICES ASSUME OneAtATime, ~MayAbandon PROVE Spec => []HoldsMatchOrders
  OBVIOUS
<1>1. Init => Releasing
  BY DEF Init, Releasing
<1>2. Reached /\ Releasing /\ [Next]_vars => Releasing'
  BY ReleasingNext
<1>3. Reached /\ Releasing => HeldOnlyWhenPromised
  <2> SUFFICES ASSUME Reached, Releasing, Quiet, NEW o \in Orders, order[o].line > 0,
                      held[Line(o)] # Stock!NoHold
               PROVE  order[o].status \notin {"draft", "cancelled"}
    BY DEF HeldOnlyWhenPromised
  <2>1. Line(o) \in Lines
    BY LineKnown DEF Reached
  <2>2. ~HoldsNothing(o)
    BY <2>1 DEF HoldsNothing, Line
  <2>3. order[o].status # "draft"
    BY <2>2 DEF Reached, SequentialInv, DraftsHoldNothing
  <2>4. order[o].status # "cancelled"
    BY <2>2 DEF Releasing, Quiet, At
  <2> QED
    BY <2>3, <2>4
<1>4. OneInFlight
  BY DEF OneAtATime, OneInFlight
<1>5. ReservedIsHeld /\ HeldOnlyWhenPromised => HoldsMatchOrders
  BY DEF HoldsMatchOrders
<1> QED
  BY <1>1, <1>2, <1>3, <1>4, <1>5, SequentialAlways, ReservationsExact, PTL
     DEF Spec, ReservedInTurn
-----------------------------------------------------------------------------
(* Invoices after a step *)

\* The row of i is written, and no other.
InvoiceNow(i, st, o, n, l) ==
  /\ invoice'[i].status = st /\ invoice'[i].order = o
  /\ invoice'[i].quantity = n /\ invoice'[i].line = l
  /\ \A j \in Invoices \ {i} : invoice'[j] = invoice[j]

\* What the columns that are written come to.
LEMMA InvoiceWritten ==
  ASSUME DocumentsInv, NEW i \in Invoices
  PROVE  /\ \A st : invoice' = [invoice EXCEPT ![i].status = st]
              => InvoiceNow(i, st, invoice[i].order, invoice[i].quantity, invoice[i].line)
         /\ \A n : invoice' = [invoice EXCEPT ![i].quantity = n, ![i].line = NoLine]
              => InvoiceNow(i, invoice[i].status, invoice[i].order, n, NoLine)
         /\ invoice' = [invoice EXCEPT ![i].status = "deleted", ![i].line = NoLine]
              => InvoiceNow(i, "deleted", invoice[i].order, invoice[i].quantity, NoLine)
         /\ \A st, o, n, l :
              invoice' = [invoice EXCEPT ![i] =
                            [status |-> st, order |-> o, quantity |-> n, line |-> l]]
                => InvoiceNow(i, st, o, n, l)
<1> DEFINE Row(st, o, n, l) == [status |-> st, order |-> o, quantity |-> n, line |-> l]
<1>1. PICK row : row = invoice[i]
  OBVIOUS
<1>2. row = Row(row.status, row.order, row.quantity, row.line)
  BY <1>1 DEF DocumentsInv, InvoicesFit, InvoiceRow
<1>3. ASSUME NEW st, NEW o, NEW n, NEW l, invoice' = [invoice EXCEPT ![i] = Row(st, o, n, l)]
      PROVE  InvoiceNow(i, st, o, n, l)
  BY <1>3 DEF DocumentsInv, InvoicesFit, InvoiceNow
<1>4. ASSUME NEW st, invoice' = [invoice EXCEPT ![i].status = st]
      PROVE  InvoiceNow(i, st, row.order, row.quantity, row.line)
  <2>1. PICK p : p = [row EXCEPT !.status = st]
    OBVIOUS
  <2>2. p = Row(st, row.order, row.quantity, row.line)
    BY <1>2, <2>1
  <2>3. invoice' = [invoice EXCEPT ![i] = p]
    BY <1>1, <1>4, <2>1, Zenon
  <2> QED
    BY <1>3, <2>2, <2>3
<1>5. ASSUME NEW f, NEW x, f = [invoice EXCEPT ![i] = x],
             NEW y, invoice' = [f EXCEPT ![i] = y]
      PROVE  invoice' = [invoice EXCEPT ![i] = y]
  BY <1>5 DEF DocumentsInv, InvoicesFit
<1>6. ASSUME NEW n, invoice' = [invoice EXCEPT ![i].quantity = n, ![i].line = NoLine]
      PROVE  InvoiceNow(i, row.status, row.order, n, NoLine)
  <2>1. PICK p : p = [row EXCEPT !.quantity = n]
    OBVIOUS
  <2>2. PICK f : f = [invoice EXCEPT ![i] = p]
    OBVIOUS
  <2>3. f[i] = p
    BY <2>2 DEF DocumentsInv, InvoicesFit
  <2>4. PICK q : q = [p EXCEPT !.line = NoLine]
    OBVIOUS
  <2>5. p = Row(row.status, row.order, n, row.line)
    BY <1>2, <2>1
  <2>6. q = Row(row.status, row.order, n, NoLine)
    BY <2>4, <2>5
  <2>7. invoice' = [f EXCEPT ![i] = q]
    BY <1>1, <1>6, <2>1, <2>2, <2>3, <2>4, Zenon
  <2> QED
    BY <1>3, <1>5, <2>2, <2>6, <2>7
<1>7. ASSUME invoice' = [invoice EXCEPT ![i].status = "deleted", ![i].line = NoLine]
      PROVE  InvoiceNow(i, "deleted", row.order, row.quantity, NoLine)
  <2>1. PICK p : p = [row EXCEPT !.status = "deleted"]
    OBVIOUS
  <2>2. PICK f : f = [invoice EXCEPT ![i] = p]
    OBVIOUS
  <2>3. f[i] = p
    BY <2>2 DEF DocumentsInv, InvoicesFit
  <2>4. PICK q : q = [p EXCEPT !.line = NoLine]
    OBVIOUS
  <2>5. p = Row("deleted", row.order, row.quantity, row.line)
    BY <1>2, <2>1
  <2>6. q = Row("deleted", row.order, row.quantity, NoLine)
    BY <2>4, <2>5
  <2>7. invoice' = [f EXCEPT ![i] = q]
    BY <1>1, <1>7, <2>1, <2>2, <2>3, <2>4, Zenon
  <2> QED
    BY <1>3, <1>5, <2>2, <2>6, <2>7
<1> QED
  BY <1>1, <1>3, <1>4, <1>6, <1>7

\* The invoice a handler is about.
InvoiceOf(s) == slot[s].invoice

\* What the calls about an invoice write of it.
LEMMA InvoiceCalls ==
  ASSUME DocumentsInv, NEW s \in Slots
  PROVE  /\ \A i \in Invoices : CreateInstalment(s, i) =>
              InvoiceNow(i, "draft", slot[s].order, slot[s].quantity, slot[s].line)
         /\ WriteInvoice(s) =>
              InvoiceNow(InvoiceOf(s), invoice[InvoiceOf(s)].status, invoice[InvoiceOf(s)].order,
                         slot[s].quantity, NoLine)
         /\ DeleteInvoice(s) =>
              InvoiceNow(InvoiceOf(s), "deleted", invoice[InvoiceOf(s)].order, invoice[InvoiceOf(s)].quantity, NoLine)
         /\ WriteSent(s) =>
              InvoiceNow(InvoiceOf(s), "sent", invoice[InvoiceOf(s)].order, invoice[InvoiceOf(s)].quantity,
                         invoice[InvoiceOf(s)].line)
         /\ WriteCancelled(s) =>
              InvoiceNow(InvoiceOf(s), "cancelled", invoice[InvoiceOf(s)].order, invoice[InvoiceOf(s)].quantity,
                         invoice[InvoiceOf(s)].line)
         /\ slot[s].step \in InvoiceSteps => InvoiceOf(s) \in Invoices
<1>1. slot[s].step \in InvoiceSteps => InvoiceOf(s) \in Invoices
  BY DEF DocumentsInv, HandlersFit, LocalsFit, InvoiceOf
<1>2. WriteInvoice(s) \/ DeleteInvoice(s) \/ WriteSent(s) \/ WriteCancelled(s) => InvoiceOf(s) \in Invoices
  BY <1>1 DEF WriteInvoice, DeleteInvoice, WriteSent, WriteCancelled, At, InvoiceSteps
<1>3. WriteInvoice(s) =>
        invoice' = [invoice EXCEPT ![InvoiceOf(s)].quantity = slot[s].quantity, ![InvoiceOf(s)].line = NoLine]
  BY Zenon DEF WriteInvoice, InvoiceOf
<1>4. DeleteInvoice(s) =>
        invoice' = [invoice EXCEPT ![InvoiceOf(s)].status = "deleted", ![InvoiceOf(s)].line = NoLine]
  BY Zenon DEF DeleteInvoice, InvoiceOf
<1>5. WriteSent(s) => invoice' = [invoice EXCEPT ![InvoiceOf(s)].status = "sent"]
  BY Zenon DEF WriteSent, InvoiceOf
<1>6. WriteCancelled(s) => invoice' = [invoice EXCEPT ![InvoiceOf(s)].status = "cancelled"]
  BY Zenon DEF WriteCancelled, InvoiceOf
<1>7. \A i \in Invoices : CreateInstalment(s, i) =>
        invoice' = [invoice EXCEPT ![i] = [status |-> "draft", order |-> slot[s].order,
                      quantity |-> slot[s].quantity, line |-> slot[s].line]]
  BY Zenon DEF CreateInstalment
<1> QED
  BY <1>1, <1>2, <1>3, <1>4, <1>5, <1>6, <1>7, InvoiceWritten, Zenon

\* The row of o is written, and no other.
OrderNow(o, st, n, l) ==
  /\ order'[o].status = st /\ order'[o].quantity = n /\ order'[o].line = l
  /\ \A p \in Orders \ {o} : order'[p] = order[p]

\* The order a handler is about.
OrderOf(s) == slot[s].order

\* What the columns that are written come to.
LEMMA OrderWritten ==
  ASSUME DocumentsInv, NEW o \in Orders
  PROVE  /\ \A st : order' = [order EXCEPT ![o].status = st]
              => OrderNow(o, st, order[o].quantity, order[o].line)
         /\ \A n : order' = [order EXCEPT ![o].quantity = n, ![o].line = @ + 1]
              => OrderNow(o, order[o].status, n, order[o].line + 1)
         /\ \A st, n, l : order' = [order EXCEPT ![o] = [status |-> st, quantity |-> n, line |-> l]]
              => OrderNow(o, st, n, l)
<1> DEFINE Row(st, n, l) == [status |-> st, quantity |-> n, line |-> l]
<1>1. PICK row : row = order[o]
  OBVIOUS
<1>2. row = Row(row.status, row.quantity, row.line)
  BY <1>1 DEF DocumentsInv, OrdersFit, OrderRow
<1>3. ASSUME NEW st, NEW n, NEW l, order' = [order EXCEPT ![o] = Row(st, n, l)]
      PROVE  OrderNow(o, st, n, l)
  BY <1>3 DEF DocumentsInv, OrdersFit, OrderNow
<1>4. ASSUME NEW st, order' = [order EXCEPT ![o].status = st]
      PROVE  OrderNow(o, st, row.quantity, row.line)
  <2>1. PICK p : p = [row EXCEPT !.status = st]
    OBVIOUS
  <2>2. p = Row(st, row.quantity, row.line)
    BY <1>2, <2>1
  <2>3. order' = [order EXCEPT ![o] = p]
    BY <1>1, <1>4, <2>1, Zenon
  <2> QED
    BY <1>3, <2>2, <2>3
<1>5. ASSUME NEW f, NEW x, f = [order EXCEPT ![o] = x],
             NEW y, order' = [f EXCEPT ![o] = y]
      PROVE  order' = [order EXCEPT ![o] = y]
  BY <1>5 DEF DocumentsInv, OrdersFit
<1>6. ASSUME NEW n, order' = [order EXCEPT ![o].quantity = n, ![o].line = @ + 1]
      PROVE  OrderNow(o, row.status, n, row.line + 1)
  <2>1. PICK p : p = [row EXCEPT !.quantity = n]
    OBVIOUS
  <2>2. PICK f : f = [order EXCEPT ![o] = p]
    OBVIOUS
  <2>3. f[o] = p
    BY <2>2 DEF DocumentsInv, OrdersFit
  <2>4. PICK q : q = [p EXCEPT !.line = @ + 1]
    OBVIOUS
  <2>5. p = Row(row.status, n, row.line)
    BY <1>2, <2>1
  <2>6. q = Row(row.status, n, row.line + 1)
    BY <2>4, <2>5
  <2>7. order' = [f EXCEPT ![o] = q]
    BY <1>1, <1>6, <2>1, <2>2, <2>3, <2>4, Zenon
  <2> QED
    BY <1>3, <1>5, <2>2, <2>6, <2>7
<1> QED
  BY <1>1, <1>3, <1>4, <1>6

\* What the calls about an order write of it.
LEMMA OrderCalls ==
  ASSUME DocumentsInv, NEW s \in Slots
  PROVE  /\ WriteOrder(s) =>
              OrderNow(OrderOf(s), order[OrderOf(s)].status, slot[s].quantity,
                       order[OrderOf(s)].line + 1)
         /\ WriteOrderStatus(s) =>
              OrderNow(OrderOf(s), slot[s].status, order[OrderOf(s)].quantity,
                       order[OrderOf(s)].line)
         /\ DeleteOrder(s) =>
              OrderNow(OrderOf(s), "deleted", order[OrderOf(s)].quantity, order[OrderOf(s)].line)
         /\ AdvanceOrder(s) =>
              OrderNow(OrderOf(s), "partially_shipped", order[OrderOf(s)].quantity,
                       order[OrderOf(s)].line)
         /\ slot[s].step \in OrderSteps => OrderOf(s) \in Orders
<1>1. slot[s].step \in OrderSteps => OrderOf(s) \in Orders
  BY DEF DocumentsInv, HandlersFit, LocalsFit, OrderOf
<1>2. WriteOrder(s) \/ WriteOrderStatus(s) \/ DeleteOrder(s) \/ AdvanceOrder(s) => OrderOf(s) \in Orders
  BY <1>1 DEF WriteOrder, WriteOrderStatus, DeleteOrder, AdvanceOrder, At, OrderSteps
<1>3. WriteOrder(s) =>
        order' = [order EXCEPT ![OrderOf(s)].quantity = slot[s].quantity, ![OrderOf(s)].line = @ + 1]
  BY Zenon DEF WriteOrder, OrderOf
<1>4. WriteOrderStatus(s) => order' = [order EXCEPT ![OrderOf(s)].status = slot[s].status]
  BY Zenon DEF WriteOrderStatus, OrderOf
<1>5. DeleteOrder(s) => order' = [order EXCEPT ![OrderOf(s)].status = "deleted"]
  BY Zenon DEF DeleteOrder, OrderOf
<1>6. AdvanceOrder(s) => order' = [order EXCEPT ![OrderOf(s)].status = "partially_shipped"]
  BY Zenon DEF AdvanceOrder, OrderOf
<1> QED
  BY <1>1, <1>2, <1>3, <1>4, <1>5, <1>6, OrderWritten, Zenon

\* The calls that write no invoice and move no goods of one.
InvoicesRest(s) ==
  \/ BeginOrderRequest(s) \/ BeginInvoiceRequest(s)
  \/ ReleaseBeforeUpdate(s) \/ HoldAfterUpdate(s) \/ WriteOrderStatus(s) \/ HoldConfirmed(s)
  \/ ReleaseCancelled(s) \/ DeleteOrder(s) \/ RefuseShipment(s) \/ ReadToAdvance(s)
  \/ AdvanceOrder(s) \/ ReleaseToRehold(s) \/ Rehold(s) \/ FailRequest(s) \/ Abandon(s)

\* The calls of a handler that write an invoice.
InvoiceWrites(s) ==
  \/ \E i \in Invoices : CreateInstalment(s, i)
  \/ WriteInvoice(s) \/ DeleteInvoice(s) \/ WriteSent(s) \/ WriteCancelled(s)

\* They leave what they are not about.
LEMMA CallsLeave ==
  ASSUME NEW s \in Slots
  PROVE  /\ InvoicesRest(s) => invoice' = invoice /\ shipped' = shipped /\ dispatch' = dispatch
         /\ InvoicesRest(s) /\ ~WriteOrderStatus(s) /\ ~DeleteOrder(s) /\ ~AdvanceOrder(s)
              => order' = order
         /\ InvoiceWrites(s) => order' = order /\ shipped' = shipped /\ dispatch' = dispatch
         /\ WriteOrder(s) => shipped' = shipped /\ dispatch' = dispatch
         /\ ShipInvoice(s) \/ ReturnGoods(s)
              => order' = order /\ invoice' = invoice /\ dispatch' = dispatch
<1>1. InvoicesRest(s) => invoice' = invoice /\ shipped' = shipped /\ dispatch' = dispatch
  BY Zenon DEF InvoicesRest, BeginOrderRequest, BeginInvoiceRequest, ReadOrderToUpdate,
     ReadOrderToBill, ReadOrderToSetStatus, ReadOrderToDelete, ReadInvoiceToUpdate,
     ReadInvoiceToDelete, ReadInvoiceToSend, ReadInvoiceToCancel, ReleaseBeforeUpdate,
     HoldAfterUpdate, WriteOrderStatus, HoldConfirmed, ReleaseCancelled, DeleteOrder,
     RefuseShipment, ReadToAdvance, AdvanceOrder, ReleaseToRehold, Rehold, FailRequest, Abandon
<1>2. InvoicesRest(s) /\ ~WriteOrderStatus(s) /\ ~DeleteOrder(s) /\ ~AdvanceOrder(s) => order' = order
  BY Zenon DEF InvoicesRest, BeginOrderRequest, BeginInvoiceRequest, ReadOrderToUpdate,
     ReadOrderToBill, ReadOrderToSetStatus, ReadOrderToDelete, ReadInvoiceToUpdate,
     ReadInvoiceToDelete, ReadInvoiceToSend, ReadInvoiceToCancel, ReleaseBeforeUpdate,
     HoldAfterUpdate, HoldConfirmed, ReleaseCancelled, RefuseShipment, ReadToAdvance,
     ReleaseToRehold, Rehold, FailRequest, Abandon
<1>3. InvoiceWrites(s) => order' = order /\ shipped' = shipped /\ dispatch' = dispatch
  BY Zenon DEF InvoiceWrites, CreateInstalment, WriteInvoice, DeleteInvoice, WriteSent, WriteCancelled
<1>4. WriteOrder(s) => shipped' = shipped /\ dispatch' = dispatch
  BY Zenon DEF WriteOrder
<1>5. ShipInvoice(s) \/ ReturnGoods(s) => order' = order /\ invoice' = invoice /\ dispatch' = dispatch
  BY Zenon DEF ShipInvoice, ReturnGoods
<1> QED
  BY <1>1, <1>2, <1>3, <1>4, <1>5

\* Every step is one of these.
LEMMA NextForms ==
  ASSUME [Next]_vars
  PROVE  \/ \E s \in Slots : \/ InvoicesRest(s) \/ InvoiceWrites(s) \/ WriteOrder(s)
                             \/ ShipInvoice(s) \/ ReturnGoods(s)
         \/ SingleCall
         \/ UNCHANGED vars
BY Zenon DEF Next, Step, OrderStep, InvoiceStep, InvoicesRest, InvoiceWrites

-----------------------------------------------------------------------------
(* Which invoices point at a line *)

\* Only invoices on file point at a line, at one their order has or has had.
LinksFit ==
  /\ \A o \in Orders : order[o].status = "none" => order[o].line = 0
  /\ \A i \in Invoices : invoice[i].line # NoLine =>
       /\ Exists(invoice[i])
       /\ invoice[i].line[1] = invoice[i].order
       /\ invoice[i].line[2] <= order[invoice[i].order].line

\* What may become of the link of an invoice.
LinkKept(i) ==
  \/ invoice'[i].line = NoLine
  \/ /\ invoice'[i].line = invoice[i].line /\ invoice'[i].order = invoice[i].order
     /\ Exists(invoice[i]) => Exists(invoice'[i])
  \/ \E o \in Orders : /\ invoice'[i].line = Line(o) /\ invoice'[i].order = o
                       /\ Exists(invoice'[i])

\* The lines an order had stay behind it, and so do the links to them.
LEMMA LinksStay ==
  ASSUME DocumentsInv, LinksFit,
         DocumentsInv',
         \A o \in Orders : /\ order'[o].line >= order[o].line
                           /\ order'[o].status = "none" => order'[o] = order[o],
         \A i \in Invoices : LinkKept(i)
  PROVE  LinksFit'
<1>1. \A o \in Orders : order'[o].status = "none" => order'[o].line = 0
  BY DEF LinksFit
<1>2. ASSUME NEW i \in Invoices, invoice'[i].line # NoLine
      PROVE  /\ Exists(invoice'[i])
             /\ invoice'[i].line[1] = invoice'[i].order
             /\ invoice'[i].line[2] <= order'[invoice'[i].order].line
  <2>1. CASE \E o \in Orders : /\ invoice'[i].line = Line(o) /\ invoice'[i].order = o
                               /\ Exists(invoice'[i])
    <3>1. PICK o \in Orders : /\ invoice'[i].line = Line(o) /\ invoice'[i].order = o
                              /\ Exists(invoice'[i])
      BY <2>1
    <3>2. order'[o].line >= order[o].line
      OBVIOUS
    <3> QED
      BY <3>1, <3>2 DEF Line
  <2>2. CASE /\ invoice'[i].line = invoice[i].line /\ invoice'[i].order = invoice[i].order
             /\ Exists(invoice[i]) => Exists(invoice'[i])
    <3>1. /\ Exists(invoice[i]) /\ invoice[i].line[1] = invoice[i].order
          /\ invoice[i].line[2] <= order[invoice[i].order].line
      BY <1>2, <2>2 DEF LinksFit
    <3>2. invoice[i].line \in Lines
      BY <1>2, <2>2 DEF DocumentsInv, InvoicesFit, InvoiceRow
    <3>3. invoice[i].order \in Orders /\ invoice[i].line[2] \in Int
      BY <3>1, <3>2, NamesAssumption DEF Lines
    <3>4. order[invoice[i].order].line \in Int
      BY <3>3, NamesAssumption DEF DocumentsInv, OrdersFit, OrderRow
    <3>5. order'[invoice[i].order].line >= order[invoice[i].order].line
      BY <3>3
    <3>6. order'[invoice[i].order].line \in Int
      BY <3>3, NamesAssumption DEF DocumentsInv, OrdersFit, OrderRow
    <3> QED
      BY <2>2, <3>1, <3>3, <3>4, <3>5, <3>6
  <2> QED
    BY <1>2, <2>1, <2>2 DEF LinkKept
<1> QED
  BY <1>1, <1>2 DEF LinksFit, Exists

\* What a step does to the line of an order, if anything, is to replace it.
LEMMA LinesGrow ==
  ASSUME DocumentsInv, LinksFit, [Next]_vars, NEW o \in Orders
  PROVE  /\ order'[o].line >= order[o].line
         /\ order'[o].status = "none" => order'[o] = order[o]
<1>1. order[o].line \in Int
  BY NamesAssumption DEF DocumentsInv, OrdersFit, OrderRow
<1>2. CASE order' = order
  BY <1>1, <1>2
<1>3. ASSUME NEW s \in Slots, WriteOrder(s) \/ WriteOrderStatus(s) \/ DeleteOrder(s) \/ AdvanceOrder(s)
      PROVE  /\ order'[o].line >= order[o].line
             /\ order'[o].status = "none" => order'[o] = order[o]
  <2>1. PICK p \in Orders : p = OrderOf(s)
    BY <1>3, OrderCalls DEF WriteOrder, WriteOrderStatus, DeleteOrder, AdvanceOrder, At, OrderSteps
  <2>2. WriteOrderStatus(s) => slot[s].status # "none"
    BY DEF WriteOrderStatus, At, DocumentsInv, HandlersFit, LocalsFit, OrderStatuses
  <2>3. WriteOrder(s) => order[p].status # "none"
    BY <2>1 DEF WriteOrder, OrderOf, Exists, Missing
  <2>4. PICK st, n, l : /\ OrderNow(p, st, n, l) /\ st # "none"
                        /\ l = order[p].line \/ l = order[p].line + 1
    BY <1>3, <2>1, <2>2, <2>3, OrderCalls
  <2>5. CASE o = p
    BY <1>1, <2>4, <2>5 DEF OrderNow
  <2>6. CASE o # p
    BY <1>1, <2>4, <2>6 DEF OrderNow
  <2> QED
    BY <2>5, <2>6
<1>4. ASSUME NEW p \in Orders, NEW n \in Quantities, CreateOrder(p, n)
      PROVE  /\ order'[o].line >= order[o].line
             /\ order'[o].status = "none" => order'[o] = order[o]
  <2>1. OrderNow(p, "draft", n, 1)
    BY <1>4, OrderWritten DEF CreateOrder
  <2>2. order[p].line = 0
    BY <1>4 DEF CreateOrder, LinksFit
  <2>3. CASE o = p
    BY <2>1, <2>2, <2>3 DEF OrderNow
  <2>4. CASE o # p
    BY <1>1, <2>1, <2>4 DEF OrderNow
  <2> QED
    BY <2>3, <2>4
<1>5. SingleCall => order' = order \/ \E p \in Orders, n \in Quantities : CreateOrder(p, n)
  BY Zenon DEF SingleCall, CreateInvoice, Pay, SetDispatch, StockIn, StockOut
<1>6. UNCHANGED vars => order' = order
  BY DEF vars
<1> QED
  BY <1>2, <1>3, <1>4, <1>5, <1>6, CallsLeave, NextForms

\* What a step does to the row of an invoice.
LEMMA LinkForms ==
  ASSUME DocumentsInv, [Next]_vars, NEW i \in Invoices
  PROVE  LinkKept(i)
<1>1. (invoice'[i] = invoice[i] => LinkKept(i)) /\ (invoice' = invoice => LinkKept(i))
  BY DEF LinkKept
<1>2. ASSUME NEW s \in Slots, NEW j \in Invoices, CreateInstalment(s, j) PROVE LinkKept(i)
  <2>1. /\ InvoiceNow(j, "draft", slot[s].order, slot[s].quantity, slot[s].line)
        /\ slot[s].line = Line(slot[s].order) /\ slot[s].step = "bill.create"
    BY <1>2, InvoiceCalls DEF CreateInstalment, At
  <2>2. slot[s].order \in Orders
    BY <2>1 DEF DocumentsInv, HandlersFit, LocalsFit, OrderSteps
  <2> QED
    BY <1>1, <2>1, <2>2 DEF InvoiceNow, LinkKept, Exists, Missing
<1>3. ASSUME NEW s \in Slots, WriteInvoice(s) \/ DeleteInvoice(s) PROVE LinkKept(i)
  <2>1. InvoiceOf(s) \in Invoices
    BY <1>3, InvoiceCalls DEF WriteInvoice, DeleteInvoice, At, InvoiceSteps
  <2>2. PICK st, o, n : InvoiceNow(InvoiceOf(s), st, o, n, NoLine)
    BY <1>3, InvoiceCalls, Zenon
  <2> QED
    BY <1>1, <2>1, <2>2 DEF InvoiceNow, LinkKept
<1>4. ASSUME NEW j \in Invoices, NEW st \in InvoiceStatuses,
             InvoiceNow(j, st, invoice[j].order, invoice[j].quantity, invoice[j].line)
      PROVE  LinkKept(i)
  BY <1>1, <1>4 DEF InvoiceNow, LinkKept, InvoiceStatuses, Exists, Missing
<1>5. ASSUME NEW s \in Slots, WriteSent(s) \/ WriteCancelled(s) PROVE LinkKept(i)
  <2>1. InvoiceOf(s) \in Invoices
    BY <1>5, InvoiceCalls DEF WriteSent, WriteCancelled, At, InvoiceSteps
  <2> QED
    BY <1>4, <1>5, <2>1, InvoiceCalls DEF InvoiceStatuses
<1>6. ASSUME NEW s \in Slots, WriteOrder(s) PROVE LinkKept(i)
  BY <1>6 DEF WriteOrder, LinkKept
<1>7. CASE SingleCall
  <2>1. ASSUME NEW j \in Invoices, Pay(j) PROVE LinkKept(i)
    <3>1. PICK st \in {"paid", "sent"} : invoice' = [invoice EXCEPT ![j].status = st]
      BY <2>1, Zenon DEF Pay
    <3>2. st \in InvoiceStatuses
      BY DEF InvoiceStatuses
    <3>3. InvoiceNow(j, st, invoice[j].order, invoice[j].quantity, invoice[j].line)
      BY <3>1, InvoiceWritten
    <3> QED
      BY <1>4, <3>2, <3>3
  <2>2. ASSUME NEW j \in Invoices, NEW o \in Orders \cup {NoOrder}, NEW n \in Quantities,
             CreateInvoice(j, o, n)
      PROVE  LinkKept(i)
    <3>1. InvoiceNow(j, "draft", o, n, NoLine)
      BY <2>2, InvoiceWritten DEF CreateInvoice
    <3> QED
      BY <1>1, <3>1 DEF InvoiceNow, LinkKept
  <2>3. invoice' = invoice \/ (\E j \in Invoices : Pay(j))
          \/ \E j \in Invoices, o \in Orders \cup {NoOrder}, n \in Quantities : CreateInvoice(j, o, n)
    BY <1>7, Zenon DEF SingleCall, CreateOrder, SetDispatch, StockIn, StockOut
  <2> QED
    BY <1>1, <2>1, <2>2, <2>3, Zenon
<1>8. UNCHANGED vars => invoice' = invoice
  BY DEF vars
<1>9. ASSUME NEW s \in Slots, InvoicesRest(s) \/ ShipInvoice(s) \/ ReturnGoods(s) PROVE LinkKept(i)
  BY <1>1, <1>9, CallsLeave
<1> QED
  BY <1>1, <1>2, <1>3, <1>5, <1>6, <1>7, <1>8, <1>9, NextForms, Zenon DEF InvoiceWrites

\* However requests overlap.
LEMMA LinksAlways == Spec => []LinksFit
<1>1. Init => LinksFit
  BY DEF Init, LinksFit, NoLine
<1>2. DocumentsInv /\ LinksFit /\ DocumentsInv' /\ [Next]_vars => LinksFit'
  BY LinesGrow, LinkForms, LinksStay
<1> QED
  BY <1>1, <1>2, DocumentsAlways, PTL DEF Spec

-----------------------------------------------------------------------------
(* What is billed of a line *)

\* What MapThenSumSet makes of a sum over one column of the rows S.
ColumnSum(rows, S) ==
  (CHOOSE g : g = [T \in SUBSET S |->
     IF T = {} THEN 0
               ELSE LET x == CHOOSE x \in T : TRUE IN rows[x].quantity + g[T \ {x}]])[S]

\* It is the sum of what they have there.
LEMMA ColumnSummed ==
  ASSUME NEW rows, NEW S
  PROVE  ColumnSum(rows, S) = SumOf([i \in S |-> rows[i].quantity], S)
<1> DEFINE w == [i \in S |-> rows[i].quantity]
           Counts(g) ==
             g = [T \in SUBSET S |->
                    IF T = {} THEN 0
                              ELSE LET x == CHOOSE x \in T : TRUE
                                   IN rows[x].quantity + g[T \ {x}]]
<1>1. ASSUME NEW T \in SUBSET S, T # {}
      PROVE  w[CHOOSE x \in T : TRUE] = rows[CHOOSE x \in T : TRUE].quantity
  BY <1>1
<1>2. ASSUME NEW g PROVE Counts(g) <=> Adds(g, w, S)
  BY <1>1 DEF Adds
<1>3. ColumnSum(rows, S) = (CHOOSE g : Counts(g))[S]
  BY DEF ColumnSum
<1> HIDE DEF Counts, w
<1>4. (CHOOSE g : Counts(g)) = (CHOOSE g : Adds(g, w, S))
  BY <1>2
<1> QED
  BY <1>3, <1>4, SumUnfolded DEF w

\* The invoices that count towards what is billed of the line of o.
Live(o) == {i \in Linked(o) : invoice[i].status # "cancelled"}

\* What invoices bill, one by one.
Billing(S) == [i \in S |-> invoice[i].quantity]

\* Invoiced is such a sum, before a step and after it.
LEMMA InvoicedIsSum ==
  ASSUME NEW o
  PROVE  /\ Invoiced(o) = SumOf(Billing(Live(o)), Live(o))
         /\ Invoiced(o)' = SumOf(Billing(Live(o))', Live(o)')
<1>1. Invoiced(o) = ColumnSum(invoice, Live(o))
  BY DEF Invoiced, Live, ColumnSum, MapThenSumSet, MapThenFoldSet
<1>2. Invoiced(o)' = ColumnSum(invoice', Live(o)')
  BY DEF Invoiced, Live, ColumnSum, MapThenSumSet, MapThenFoldSet
<1> QED
  BY <1>1, <1>2, ColumnSummed DEF Billing

-----------------------------------------------------------------------------
(* What was read of an invoice, one request at a time *)

\* What a handler of s has read, or written itself, of its invoice is still so;
\* payments may have come and gone.
InvoiceAsRead(s) ==
  LET i == slot[s].invoice IN
  /\ slot[s].step \in {"edit.write", "invoice.delete", "send.ship", "send.write"} =>
       invoice[i].status = "draft"
  /\ slot[s].step = "cancel.write" =>
       /\ invoice[i].status \in {"draft", "sent", "paid"}
       /\ IsIssued(slot[s].status) <=> IsIssued(invoice[i].status)
  /\ slot[s].step = "cancel.return" => invoice[i].status = "cancelled"

\* The calls after which what was read of an invoice matters.
InvoiceWatched ==
  {"edit.write", "invoice.delete", "send.ship", "send.write", "cancel.write", "cancel.return"}

\* What a call of a handler under way leaves it at.
Leads(s) ==
  /\ slot'[s].step \notin {"bill.create", "status.write"}
  /\ slot'[s].step \in InvoiceWatched =>
       /\ slot'[s].invoice = slot[s].invoice
       /\ \/ slot'[s].step = "send.write" /\ ShipInvoice(s)
          \/ slot'[s].step = "cancel.return" /\ WriteCancelled(s) /\ IsIssued(slot[s].status)

\* No call leads to one that relies on more than it has written itself.
LEMMA CallLeads ==
  ASSUME HandlersFit, NEW s \in Slots, Step(s) \/ Abandon(s)
  PROVE  Leads(s)
<1>1. CASE Finish(s)
  BY <1>1, Ends DEF Leads, InvoiceWatched
<1>2. ASSUME NEW step \in {"update.write", "update.hold", "status.hold", "status.release",
                           "send.advance", "cancel.release"},
             Continue(s, step)
      PROVE  Leads(s)
  BY <1>2, GoesOn DEF Leads, InvoiceWatched
<1>3. ASSUME NEW step \in {"send.advanceWrite", "cancel.hold"}, NEW o,
             slot' = [slot EXCEPT ![s] = OrderLocals(step, o)]
      PROVE  Leads(s)
  <2>1. slot' = [slot EXCEPT ![s] = Carrying(step, o, NoInvoice, 0, NoLine, "none")]
    BY <1>3, LocalsAre, Zenon
  <2> QED
    BY <2>1 DEF HandlersFit, Carrying, Leads, InvoiceWatched
<1>4. CASE ShipInvoice(s)
  <2>1. Continue(s, "send.write")
    BY <1>4 DEF ShipInvoice
  <2> QED
    BY <1>4, <2>1, GoesOn DEF Leads, InvoiceWatched
<1>5. CASE WriteCancelled(s)
  <2>1. IF IsIssued(slot[s].status) THEN Continue(s, "cancel.return") ELSE Finish(s)
    BY <1>5 DEF WriteCancelled
  <2>2. CASE IsIssued(slot[s].status)
    BY <1>5, <2>1, <2>2, GoesOn DEF Leads, InvoiceWatched
  <2> QED
    BY <1>1, <2>1, <2>2
<1>6. CASE \/ ReleaseBeforeUpdate(s) \/ WriteOrder(s) \/ WriteOrderStatus(s) \/ WriteSent(s)
           \/ ReturnGoods(s)
  <2>1. \/ Finish(s)
        \/ \E step \in {"update.write", "update.hold", "status.hold", "status.release",
                        "send.advance", "cancel.release"} : Continue(s, step)
    BY <1>6 DEF ReleaseBeforeUpdate, WriteOrder, WriteOrderStatus, WriteSent, ReturnGoods
  <2> QED
    BY <1>1, <1>2, <2>1
<1>7. CASE ReadToAdvance(s) \/ ReleaseToRehold(s)
  <2>1. \/ Finish(s)
        \/ \E step \in {"send.advanceWrite", "cancel.hold"} :
             \E o \in {invoice[slot[s].invoice].order} :
               slot' = [slot EXCEPT ![s] = OrderLocals(step, o)]
    BY <1>7 DEF ReadToAdvance, ReleaseToRehold
  <2> QED
    BY <1>1, <1>3, <2>1
<1>8. CASE ~ShipInvoice(s) /\ ~WriteCancelled(s) /\ ~ReadToAdvance(s) /\ ~ReleaseToRehold(s)
  <2>1. CASE \/ ReleaseBeforeUpdate(s) \/ WriteOrder(s) \/ WriteOrderStatus(s) \/ WriteSent(s)
             \/ ReturnGoods(s)
    BY <1>6, <2>1
  <2>2. CASE ~(\/ ReleaseBeforeUpdate(s) \/ WriteOrder(s) \/ WriteOrderStatus(s) \/ WriteSent(s)
               \/ ReturnGoods(s))
    <3>1. Finish(s)
      BY <1>8, <2>2, Zenon DEF Step, OrderStep, InvoiceStep, Abandon, HoldAfterUpdate, HoldConfirmed,
         ReleaseCancelled, DeleteOrder, CreateInstalment, WriteInvoice, DeleteInvoice,
         RefuseShipment, AdvanceOrder, Rehold, FailRequest
    <3> QED
      BY <1>1, <3>1
  <2> QED
    BY <2>1, <2>2
<1> QED
  BY <1>4, <1>5, <1>7, <1>8

\* Nothing comes between reading an invoice and writing it.
LEMMA InvoiceReadNext ==
  ASSUME OneAtATime, DocumentsInv, \A s \in Slots : InvoiceAsRead(s), [Next]_vars
  PROVE  \A s \in Slots : InvoiceAsRead(s)'
<1> SUFFICES ASSUME NEW s \in Slots PROVE InvoiceAsRead(s)'
  OBVIOUS
<1>1. HandlersFit
  BY DEF DocumentsInv
<1>2. CASE slot'[s].step \notin InvoiceWatched
  BY <1>2 DEF InvoiceAsRead, InvoiceWatched
<1>3. CASE BeginInvoiceRequest(s)
  <2>1. PICK i \in Invoices :
          /\ slot'[s].invoice = i /\ slot'[s].status = invoice[i].status
          /\ ReadOf(slot'[s].step, i)
    BY <1>1, <1>3, InvoiceRequestLocals
  <2>2. invoice' = invoice
    BY <1>3, CallsLeave DEF InvoicesRest
  <2> QED
    BY <2>1, <2>2 DEF InvoiceAsRead, ReadOf, CanCancel
<1>4. CASE BeginOrderRequest(s)
  <2>1. slot'[s].step \notin InvoiceWatched
    BY <1>1, <1>4, OrderRequestLocals, Zenon DEF BeginOrderRequest, InvoiceWatched
  <2> QED
    BY <1>2, <2>1
<1>5. CASE Step(s) \/ Abandon(s)
  <2>1. CASE ShipInvoice(s) /\ slot'[s].step = "send.write"
    <3>1. slot'[s].invoice = slot[s].invoice /\ invoice' = invoice
      BY <1>1, <1>5, <2>1, CallLeads, CallsLeave DEF Leads, InvoiceWatched
    <3>2. invoice[slot[s].invoice].status = "draft"
      BY <2>1 DEF InvoiceAsRead, ShipInvoice, At
    <3> QED
      BY <2>1, <3>1, <3>2 DEF InvoiceAsRead
  <2>2. CASE WriteCancelled(s) /\ slot'[s].step = "cancel.return"
    <3>1. slot'[s].invoice = slot[s].invoice
      BY <1>1, <1>5, <2>2, CallLeads DEF Leads, InvoiceWatched
    <3>2. invoice'[slot[s].invoice].status = "cancelled"
      BY <2>2, InvoiceCalls DEF InvoiceNow, InvoiceOf
    <3> QED
      BY <2>2, <3>1, <3>2 DEF InvoiceAsRead
  <2> QED
    BY <1>1, <1>2, <1>5, <2>1, <2>2, CallLeads DEF Leads
<1>6. CASE SingleCall
  <2>1. slot' = slot
    BY <1>6, Zenon DEF SingleCall, CreateOrder, CreateInvoice, Pay, SetDispatch, StockIn, StockOut,
                       Stock!Receive, Stock!Remove
  <2>2. PICK i : i = slot[s].invoice
    OBVIOUS
  <2>3. slot[s].step \in InvoiceWatched => i \in Invoices
    BY <1>1, <2>2 DEF HandlersFit, LocalsFit, InvoiceWatched, InvoiceSteps
  <2>4. invoice'[i] = invoice[i] => InvoiceAsRead(s)'
    BY <2>1, <2>2 DEF InvoiceAsRead
  <2>5. ASSUME NEW j \in Invoices, Pay(j), i \in Invoices PROVE InvoiceAsRead(s)'
    <3>1. PICK st \in {"paid", "sent"} :
            /\ invoice' = [invoice EXCEPT ![j].status = st]
            /\ invoice[j].status \in {"paid", "sent"}
      BY <2>5, Zenon DEF Pay
    <3>2. InvoiceNow(j, st, invoice[j].order, invoice[j].quantity, invoice[j].line)
      BY <3>1, InvoiceWritten
    <3>3. CASE i = j
      BY <2>1, <2>2, <3>1, <3>2, <3>3 DEF InvoiceNow, InvoiceAsRead, IsIssued
    <3> QED
      BY <2>4, <2>5, <3>2, <3>3 DEF InvoiceNow
  <2>6. ASSUME NEW j \in Invoices, NEW o \in Orders \cup {NoOrder}, NEW n \in Quantities,
               CreateInvoice(j, o, n), slot[s].step \in InvoiceWatched
        PROVE  InvoiceAsRead(s)'
    <3>1. InvoiceNow(j, "draft", o, n, NoLine) /\ invoice[j].status = "none"
      BY <2>6, InvoiceWritten DEF CreateInvoice
    <3>2. i # j
      BY <2>2, <2>6, <3>1 DEF InvoiceAsRead, InvoiceWatched
    <3> QED
      BY <2>3, <2>4, <2>6, <3>1, <3>2 DEF InvoiceNow
  <2>7. invoice' = invoice \/ (\E j \in Invoices : Pay(j))
          \/ \E j \in Invoices, o \in Orders \cup {NoOrder}, n \in Quantities : CreateInvoice(j, o, n)
    BY <1>6, Zenon DEF SingleCall, CreateOrder, SetDispatch, StockIn, StockOut
  <2>8. CASE slot[s].step \in InvoiceWatched
    BY <2>3, <2>4, <2>5, <2>6, <2>7, <2>8, Zenon
  <2> QED
    BY <1>2, <2>1, <2>8
<1>7. CASE UNCHANGED vars
  BY <1>7 DEF vars, InvoiceAsRead
<1> QED
  BY <1>3, <1>4, <1>5, <1>6, <1>7, Zenon DEF Next, OneAtATime

\* With one request at a time.
LEMMA InvoicesAsRead == OneAtATime => (Spec => [](\A s \in Slots : InvoiceAsRead(s)))
<1> SUFFICES ASSUME OneAtATime PROVE Spec => [](\A s \in Slots : InvoiceAsRead(s))
  OBVIOUS
<1>1. Init => \A s \in Slots : InvoiceAsRead(s)
  <2> SUFFICES ASSUME Init, NEW s \in Slots PROVE InvoiceAsRead(s)
    OBVIOUS
  <2>1. slot[s].step = "idle"
    BY IdleFits DEF Init
  <2> QED
    BY <2>1 DEF InvoiceAsRead
<1>2. DocumentsInv /\ (\A s \in Slots : InvoiceAsRead(s)) /\ [Next]_vars
        => (\A s \in Slots : InvoiceAsRead(s))'
  BY InvoiceReadNext
<1> QED
  BY <1>1, <1>2, DocumentsAlways, PTL DEF Spec

-----------------------------------------------------------------------------
(* Billing in instalments, one request at a time *)

\* What is billed of a line is not more than it promises, nor is it once the
\* instalment under way is on file.
BilledInv ==
  /\ \A o \in Orders : Invoiced(o) <= order[o].quantity
  /\ \A s \in Slots : slot[s].step = "bill.create" =>
       /\ order[slot[s].order].status # "none"
       /\ Invoiced(slot[s].order) + slot[s].quantity <= order[slot[s].order].quantity

\* Live instalments are finitely many rows, each of some quantity.
LEMMA LiveFinite ==
  ASSUME DocumentsInv, NEW o
  PROVE  /\ IsFiniteSet(Live(o)) /\ Live(o) \subseteq Invoices
         /\ \A i \in Live(o) : invoice[i].quantity \in Nat
<1>1. Live(o) \subseteq Invoices
  BY DEF Live, Linked
<1>2. \A i \in Invoices : invoice[i].quantity \in Nat
  BY NamesAssumption DEF DocumentsInv, InvoicesFit, InvoiceRow
<1> QED
  BY <1>1, <1>2, FiniteAssumption, FS_Subset

\* Nothing is billed that was not before.
LEMMA BilledNoMore ==
  ASSUME DocumentsInv, DocumentsInv', NEW o,
         \A i \in Live(o)' : i \in Live(o) /\ invoice'[i].quantity = invoice[i].quantity
  PROVE  Invoiced(o) \in Nat /\ Invoiced(o)' \in Nat /\ Invoiced(o)' <= Invoiced(o)
<1>1. /\ IsFiniteSet(Live(o)) /\ \A i \in Live(o) : invoice[i].quantity \in Nat
      /\ IsFiniteSet(Live(o)') /\ \A i \in Live(o)' : invoice'[i].quantity \in Nat
  <2>1. IsFiniteSet(Live(o)) /\ \A i \in Live(o) : invoice[i].quantity \in Nat
    BY LiveFinite
  <2>2. Live(o)' \subseteq Live(o)
    OBVIOUS
  <2> QED
    BY <2>1, <2>2, FS_Subset
<1> DEFINE before == Billing(Live(o))
           after == Billing(Live(o))'
<1>2. /\ Live(o) \subseteq DOMAIN before /\ \A i \in Live(o) : before[i] \in Nat
      /\ Live(o)' \subseteq DOMAIN after /\ \A i \in Live(o)' : after[i] \in Nat
      /\ \A i \in Live(o)' : i \in Live(o) /\ after[i] <= before[i]
  BY <1>1 DEF Billing
<1> HIDE DEF before, after
<1>3. /\ SumOf(before, Live(o)) \in Nat /\ SumOf(after, Live(o)') \in Nat
      /\ SumOf(after, Live(o)') <= SumOf(before, Live(o))
  BY <1>1, <1>2, SumGrows
<1> QED
  BY <1>3, InvoicedIsSum DEF before, after

\* An instalment more bills its quantity.
LEMMA BilledOneMore ==
  ASSUME DocumentsInv, DocumentsInv', NEW o, NEW i \in Invoices, i \notin Live(o),
         Live(o)' = Live(o) \cup {i},
         \A j \in Live(o) : invoice'[j].quantity = invoice[j].quantity
  PROVE  Invoiced(o)' = Invoiced(o) + invoice'[i].quantity
<1>1. /\ IsFiniteSet(Live(o)) /\ \A j \in Live(o) : invoice[j].quantity \in Nat
      /\ invoice'[i].quantity \in Nat
  <2>1. invoice'[i].quantity \in Nat
    BY NamesAssumption DEF DocumentsInv, InvoicesFit, InvoiceRow
  <2> QED
    BY <2>1, LiveFinite
<1> DEFINE before == Billing(Live(o))
           after == Billing(Live(o))'
<1>2. /\ Live(o) \subseteq DOMAIN before /\ Live(o) \cup {i} \subseteq DOMAIN after
      /\ \A j \in Live(o) : before[j] \in Int /\ after[j] = before[j]
      /\ after[i] = invoice'[i].quantity /\ after[i] \in Int
  BY <1>1 DEF Billing
<1> HIDE DEF before, after
<1>3. SumOf(after, Live(o) \cup {i}) = SumOf(before, Live(o)) + after[i]
  BY <1>1, <1>2, SumExtended
<1>4. Invoiced(o)' = SumOf(after, Live(o) \cup {i}) /\ Invoiced(o) = SumOf(before, Live(o))
  BY InvoicedIsSum DEF before, after
<1> QED
  BY <1>2, <1>3, <1>4

\* No invoice points at a line that its order does not have yet.
LEMMA NewLineUnbilled ==
  ASSUME DocumentsInv, DocumentsInv', LinksFit, NEW o \in Orders,
         order'[o].line > order[o].line,
         \A i \in Invoices : invoice'[i].line \in {NoLine, invoice[i].line}
  PROVE  Linked(o)' = {} /\ Invoiced(o)' = 0
<1>1. order[o].line \in Int /\ order'[o].line \in Int
  BY NamesAssumption DEF DocumentsInv, OrdersFit, OrderRow
<1>2. ASSUME NEW i \in Invoices, invoice'[i].line = <<o, order'[o].line>> PROVE FALSE
  <2>1. <<o, order'[o].line>> # NoLine
    BY NamesAssumption DEF NoLine
  <2>2. invoice[i].line = <<o, order'[o].line>>
    BY <1>2, <2>1
  <2>3. invoice[i].order = o /\ order'[o].line <= order[o].line
    <3>1. invoice[i].line # NoLine
      BY <2>1, <2>2
    <3>2. /\ invoice[i].line[1] = invoice[i].order
          /\ invoice[i].line[2] <= order[invoice[i].order].line
      BY <3>1 DEF LinksFit
    <3>3. invoice[i].line[1] = o /\ invoice[i].line[2] = order'[o].line
      BY <2>2
    <3> QED
      BY <3>2, <3>3
  <2> QED
    BY <1>1, <2>3
<1>3. Linked(o)' = {}
  BY <1>2 DEF Linked, Line
<1>4. Live(o)' = {}
  BY <1>3 DEF Live
<1> DEFINE w == Billing(Live(o))'
<1>5. SumOf(w, {}) = 0
  <2> HIDE DEF w
  <2> QED
    BY FS_EmptySet, SumSplit
<1> QED
  BY <1>3, <1>4, <1>5, InvoicedIsSum

\* What a step makes of what is billed of the line of o.
Bills(o) ==
  \/ /\ Invoiced(o)' \in Nat /\ Invoiced(o)' <= Invoiced(o)
     /\ order'[o].quantity = order[o].quantity
  \/ Invoiced(o)' = 0 /\ (order[o].status = "none" \/ \E s \in Slots : WriteOrder(s))
  \/ \E s \in Slots, i \in Invoices : CreateInstalment(s, i) /\ slot[s].order = o
       /\ Invoiced(o)' = Invoiced(o) + slot[s].quantity /\ order'[o].quantity = order[o].quantity

\* What is billed is an amount.
LEMMA InvoicedNatural ==
  ASSUME DocumentsInv, NEW o
  PROVE  Invoiced(o) \in Nat
<1>1. IsFiniteSet(Live(o)) /\ \A i \in Live(o) : invoice[i].quantity \in Nat
  BY LiveFinite
<1> DEFINE w == Billing(Live(o))
<1>2. Live(o) \subseteq DOMAIN w /\ \A i \in Live(o) : w[i] \in Nat
  BY <1>1 DEF Billing
<1> HIDE DEF w
<1>3. SumOf(w, Live(o)) \in Nat
  BY <1>1, <1>2, SumNatural
<1> QED
  BY <1>3, InvoicedIsSum DEF w

\* Without an instalment nothing is billed.
LEMMA NothingBilled ==
  ASSUME NEW o, Live(o) = {}
  PROVE  Invoiced(o) = 0
<1> DEFINE w == Billing(Live(o))
<1>1. SumOf(w, {}) = 0
  <2> HIDE DEF w
  <2> QED
    BY FS_EmptySet, SumSplit
<1> QED
  BY <1>1, InvoicedIsSum

\* The same invoices or fewer, and the same line.
LEMMA BillsNoMore ==
  ASSUME DocumentsInv, DocumentsInv', NEW o \in Orders,
         order'[o].line = order[o].line, order'[o].quantity = order[o].quantity,
         \A i \in Invoices :
           \/ invoice'[i].line = NoLine \/ invoice'[i].line # Line(o)
           \/ invoice'[i].status = "cancelled"
           \/ /\ invoice'[i].line = invoice[i].line /\ invoice'[i].quantity = invoice[i].quantity
              /\ invoice[i].status # "cancelled"
  PROVE  Bills(o)
<1>1. Line(o) # NoLine
  BY NamesAssumption DEF Line, NoLine
<1>2. Line(o)' = Line(o)
  BY DEF Line
<1>3. \A i \in Live(o)' : i \in Live(o) /\ invoice'[i].quantity = invoice[i].quantity
  BY <1>1, <1>2 DEF Live, Linked
<1> QED
  BY <1>3, BilledNoMore DEF Bills

\* Each step bills at most one instalment, of one line.
LEMMA BillsNext ==
  ASSUME DocumentsInv, DocumentsInv', LinksFit, \A s \in Slots : InvoiceAsRead(s), [Next]_vars,
         NEW o \in Orders
  PROVE  Bills(o)
<1>1. ASSUME invoice' = invoice, order'[o].line = order[o].line,
             order'[o].quantity = order[o].quantity
      PROVE  Bills(o)
  <2>1. Live(o)' = Live(o)
    BY <1>1 DEF Live, Linked, Line
  <2> QED
    BY <1>1, <2>1, BilledNoMore DEF Bills
<1>2. ASSUME NEW s \in Slots, InvoicesRest(s) PROVE Bills(o)
  <2>1. invoice' = invoice
    BY <1>2, CallsLeave
  <2>2. order'[o].line = order[o].line /\ order'[o].quantity = order[o].quantity
    <3>1. CASE WriteOrderStatus(s) \/ DeleteOrder(s) \/ AdvanceOrder(s)
      <4>1. OrderOf(s) \in Orders
        BY <3>1, OrderCalls DEF WriteOrderStatus, DeleteOrder, AdvanceOrder, At, OrderSteps
      <4> QED
        BY <3>1, <4>1, OrderCalls DEF OrderNow
    <3>2. CASE ~(WriteOrderStatus(s) \/ DeleteOrder(s) \/ AdvanceOrder(s))
      BY <1>2, <3>2, CallsLeave
    <3> QED
      BY <3>1, <3>2
  <2> QED
    BY <1>1, <2>1, <2>2
<1>3. ASSUME NEW s \in Slots, ShipInvoice(s) \/ ReturnGoods(s) PROVE Bills(o)
  BY <1>1, <1>3, CallsLeave
<1>4. ASSUME NEW s \in Slots, WriteOrder(s) PROVE Bills(o)
  <2>1. OrderNow(OrderOf(s), order[OrderOf(s)].status, slot[s].quantity, order[OrderOf(s)].line + 1)
        /\ OrderOf(s) \in Orders
    BY <1>4, OrderCalls DEF WriteOrder, At, OrderSteps
  <2>2. \A i \in Invoices :
          \/ invoice'[i] = invoice[i] /\ i \notin Linked(OrderOf(s))
          \/ invoice'[i].line = NoLine /\ i \in Linked(OrderOf(s))
    <3>1. invoice' = [i \in Invoices |-> IF i \in Linked(OrderOf(s))
                                           THEN [invoice[i] EXCEPT !.line = NoLine]
                                           ELSE invoice[i]]
      BY <1>4, Zenon DEF WriteOrder, OrderOf
    <3>2. \A i \in Invoices : [invoice[i] EXCEPT !.line = NoLine].line = NoLine
      BY DEF DocumentsInv, InvoicesFit, InvoiceRow
    <3> QED
      BY <3>1, <3>2
  <2>3. CASE o = OrderOf(s)
    <3>1. order'[o].line > order[o].line
      BY <2>1, <2>3, NamesAssumption DEF OrderNow, DocumentsInv, OrdersFit, OrderRow
    <3>2. \A i \in Invoices : invoice'[i].line \in {NoLine, invoice[i].line}
      BY <2>2
    <3>3. Invoiced(o)' = 0
      BY <3>1, <3>2, NewLineUnbilled
    <3> QED
      BY <1>4, <3>3 DEF Bills
  <2>4. CASE o # OrderOf(s)
    <3>1. order'[o] = order[o]
      BY <2>1, <2>4 DEF OrderNow
    <3>2. Line(o)' = Line(o) /\ Line(o) # NoLine
      BY <3>1, NamesAssumption DEF Line, NoLine
    <3>3. \A i \in Live(o)' : i \in Live(o) /\ invoice'[i].quantity = invoice[i].quantity
      BY <2>2, <3>2 DEF Live, Linked
    <3> QED
      BY <3>1, <3>3, BilledNoMore DEF Bills
  <2> QED
    BY <2>3, <2>4

<1>5. ASSUME NEW s \in Slots, NEW i \in Invoices, CreateInstalment(s, i) PROVE Bills(o)
  <2>1. /\ InvoiceNow(i, "draft", slot[s].order, slot[s].quantity, slot[s].line)
        /\ slot[s].line = Line(slot[s].order) /\ invoice[i].status = "none"
    BY <1>5, InvoiceCalls DEF CreateInstalment
  <2>2. order' = order
    BY <1>5, CallsLeave DEF InvoiceWrites
  <2>3. \A j \in Invoices \ {i} : invoice'[j] = invoice[j]
    BY <2>1 DEF InvoiceNow
  <2>4. CASE slot[s].order = o
    <3>1. invoice[i].line # Line(o)
      <4>1. invoice[i].line = NoLine
        BY <2>1 DEF LinksFit, Exists, Missing
      <4> QED
        BY <4>1, NamesAssumption DEF Line, NoLine
    <3>2. i \notin Live(o)
      BY <3>1 DEF Live, Linked
    <3>3. Line(o)' = Line(o)
      BY <2>2 DEF Line
    <3>4. invoice'[i].line = Line(o) /\ invoice'[i].status = "draft"
          /\ invoice'[i].quantity = slot[s].quantity
      BY <2>1, <2>4 DEF InvoiceNow
    <3>5. Live(o)' = Live(o) \cup {i}
      <4>1. i \in Live(o)'
        BY <3>3, <3>4 DEF Live, Linked
      <4>2. \A j \in Invoices \ {i} : j \in Live(o)' <=> j \in Live(o)
        BY <2>3, <3>3 DEF Live, Linked
      <4>3. Live(o) \subseteq Invoices /\ Live(o)' \subseteq Invoices
        BY DEF Live, Linked
      <4> QED
        BY <4>1, <4>2, <4>3
    <3>6. \A j \in Live(o) : invoice'[j].quantity = invoice[j].quantity
      BY <2>3, <3>2 DEF Live, Linked
    <3>7. Invoiced(o)' = Invoiced(o) + slot[s].quantity
      BY <3>2, <3>4, <3>5, <3>6, BilledOneMore
    <3> QED
      BY <1>5, <2>2, <2>4, <3>7 DEF Bills
  <2>5. CASE slot[s].order # o
    <3>1. invoice'[i].line # Line(o)
      BY <2>1, <2>5 DEF InvoiceNow, Line
    <3>2. \A j \in Invoices :
            \/ invoice'[j].line # Line(o)
            \/ invoice[j].status = "cancelled" /\ invoice'[j].status = "cancelled"
            \/ /\ invoice'[j].line = invoice[j].line /\ invoice'[j].quantity = invoice[j].quantity
               /\ invoice[j].status # "cancelled"
      BY <2>3, <3>1
    <3> QED
      BY <2>2, <3>2, BillsNoMore
  <2> QED
    BY <2>4, <2>5
<1>6. ASSUME NEW j \in Invoices, NEW st, NEW n, NEW l, NEW q,
             InvoiceNow(j, st, q, n, l), order' = order,
             \/ l = NoLine \/ st = "cancelled"
             \/ l = invoice[j].line /\ n = invoice[j].quantity /\ invoice[j].status # "cancelled"
      PROVE  Bills(o)
  <2>1. \A i \in Invoices :
          \/ invoice'[i].line = NoLine
          \/ invoice'[i].status = "cancelled"
          \/ /\ invoice'[i].line = invoice[i].line /\ invoice'[i].quantity = invoice[i].quantity
             /\ invoice[i].status # "cancelled"
    BY <1>6 DEF InvoiceNow
  <2> QED
    BY <1>6, <2>1, BillsNoMore
<1>7. ASSUME NEW s \in Slots, WriteInvoice(s) \/ DeleteInvoice(s) \/ WriteSent(s) \/ WriteCancelled(s)
      PROVE  Bills(o)
  <2>1. PICK j \in Invoices : j = InvoiceOf(s)
    BY <1>7, InvoiceCalls DEF WriteInvoice, DeleteInvoice, WriteSent, WriteCancelled, At, InvoiceSteps
  <2>2. order' = order
    BY <1>7, CallsLeave DEF InvoiceWrites
  <2>3. WriteSent(s) => invoice[j].status # "cancelled"
    BY <2>1 DEF WriteSent, At, InvoiceAsRead, InvoiceOf
  <2>4. PICK st, q, n, l :
          /\ InvoiceNow(j, st, q, n, l)
          /\ \/ l = NoLine \/ st = "cancelled"
             \/ l = invoice[j].line /\ n = invoice[j].quantity /\ invoice[j].status # "cancelled"
    BY <1>7, <2>1, <2>3, InvoiceCalls
  <2> QED
    BY <1>6, <2>2, <2>4
<1>8. CASE SingleCall
  <2>1. ASSUME NEW p \in Orders, NEW n \in Quantities, CreateOrder(p, n) PROVE Bills(o)
    <3>1. OrderNow(p, "draft", n, 1) /\ order[p].status = "none" /\ invoice' = invoice
      BY <2>1, OrderWritten DEF CreateOrder
    <3>2. CASE o = p
      <4>1. order'[o].line > order[o].line
        BY <3>1, <3>2 DEF OrderNow, LinksFit
      <4>2. Invoiced(o)' = 0
        BY <3>1, <4>1, NewLineUnbilled
      <4> QED
        BY <3>1, <3>2, <4>2 DEF Bills
    <3>3. CASE o # p
      BY <1>1, <3>1, <3>3 DEF OrderNow
    <3> QED
      BY <3>2, <3>3
  <2>2. ASSUME NEW j \in Invoices, Pay(j) PROVE Bills(o)
    <3>1. PICK st \in {"paid", "sent"} :
            invoice' = [invoice EXCEPT ![j].status = st] /\ invoice[j].status # "cancelled"
      BY <2>2, Zenon DEF Pay
    <3>2. InvoiceNow(j, st, invoice[j].order, invoice[j].quantity, invoice[j].line)
      BY <3>1, InvoiceWritten
    <3>3. order' = order
      BY <2>2 DEF Pay
    <3> QED
      BY <1>6, <3>1, <3>2, <3>3
  <2>3. ASSUME NEW j \in Invoices, NEW q \in Orders \cup {NoOrder}, NEW n \in Quantities,
               CreateInvoice(j, q, n)
        PROVE  Bills(o)
    <3>1. InvoiceNow(j, "draft", q, n, NoLine) /\ order' = order
      BY <2>3, InvoiceWritten DEF CreateInvoice
    <3> QED
      BY <1>6, <3>1
  <2>4. \/ invoice' = invoice /\ order' = order
        \/ \E j \in Invoices : Pay(j)
        \/ \E p \in Orders, n \in Quantities : CreateOrder(p, n)
        \/ \E j \in Invoices, q \in Orders \cup {NoOrder}, n \in Quantities : CreateInvoice(j, q, n)
    BY <1>8, Zenon DEF SingleCall, SetDispatch, StockIn, StockOut
  <2> QED
    BY <1>1, <2>1, <2>2, <2>3, <2>4, Zenon
<1>9. UNCHANGED vars => invoice' = invoice /\ order' = order
  BY DEF vars
<1> QED
  BY <1>1, <1>2, <1>3, <1>4, <1>5, <1>7, <1>8, <1>9, NextForms, Zenon DEF InvoiceWrites

\* A request reads what there is to bill and is alone until it has billed it.
LEMMA BilledNext ==
  ASSUME OneAtATime, DocumentsInv, DocumentsInv', LinksFit, \A s \in Slots : InvoiceAsRead(s),
         BilledInv, [Next]_vars
  PROVE  BilledInv'
<1>1. HandlersFit
  BY DEF DocumentsInv
<1>2. \A o \in Orders : order[o].quantity \in Nat /\ order'[o].quantity \in Nat
  BY NamesAssumption DEF DocumentsInv, OrdersFit, OrderRow
<1>3. ASSUME NEW o \in Orders PROVE Invoiced(o)' <= order'[o].quantity
  <2>1. Bills(o)
    BY BillsNext
  <2>2. Invoiced(o) <= order[o].quantity /\ Invoiced(o) \in Nat
    <3>1. Invoiced(o) \in Nat
      BY LiveFinite, InvoicedNatural
    <3> QED
      BY <3>1 DEF BilledInv
  <2>3. ASSUME NEW s \in Slots, NEW i \in Invoices, CreateInstalment(s, i), slot[s].order = o
        PROVE  Invoiced(o) + slot[s].quantity <= order[o].quantity
    BY <2>3 DEF CreateInstalment, At, BilledInv
  <2> QED
    BY <1>2, <2>1, <2>2, <2>3 DEF Bills
<1>4. ASSUME NEW s \in Slots, slot'[s].step = "bill.create"
      PROVE  \E o \in Orders :
               /\ o = slot'[s].order /\ order'[o].status # "none"
               /\ Invoiced(o)' + slot'[s].quantity <= order'[o].quantity
  <2>1. CASE BeginOrderRequest(s)
    <3>1. PICK o \in Orders, n \in Quantities : ReadOrderToBill(s, o, n)
      BY <1>1, <1>4, <2>1, OrderRequestLocals, Zenon DEF BeginOrderRequest
    <3>2. slot'[s].order = o /\ slot'[s].quantity = n
      BY <1>1, <3>1, OrderRequestLocals
    <3>3. /\ order' = order /\ invoice' = invoice /\ Invoiceable(order[o].status)
          /\ n <= Outstanding(o, Invoiced(o))
      BY <3>1, Zenon DEF ReadOrderToBill
    <3>4. Invoiced(o)' = Invoiced(o)
      BY <3>3 DEF Invoiced, Linked, Line, MapThenSumSet, MapThenFoldSet
    <3>5. Invoiced(o) \in Nat /\ order[o].quantity \in Nat /\ n \in Nat \ {0}
      BY <1>2, InvoicedNatural, NamesAssumption DEF Quantities
    <3>6. n <= order[o].quantity - Invoiced(o)
      BY <3>3, <3>5 DEF Outstanding, Stock!AtLeastZero
    <3>7. Invoiced(o)' + n <= order'[o].quantity
      BY <3>3, <3>4, <3>5, <3>6
    <3> QED
      BY <3>2, <3>3, <3>7 DEF Invoiceable
  <2>2. CASE BeginInvoiceRequest(s)
    BY <1>1, <1>4, <2>2, InvoiceRequestLocals DEF ReadOf
  <2>3. CASE Step(s) \/ Abandon(s)
    BY <1>1, <1>4, <2>3, CallLeads DEF Leads
  <2>4. CASE slot' = slot
    <3>1. PICK o \in Orders : o = slot[s].order
      BY <1>1, <1>4, <2>4 DEF HandlersFit, LocalsFit, OrderSteps
    <3>2. order[o].status # "none" /\ Invoiced(o) + slot[s].quantity <= order[o].quantity
      BY <1>4, <2>4, <3>1 DEF BilledInv
    <3>3. order'[o].status # "none"
      BY <3>2, LinesGrow
    <3>4. \A r \in Slots : ~WriteOrder(r)
      BY <1>4, <2>4 DEF OneAtATime, WriteOrder, At
    <3>5. \A r \in Slots, i \in Invoices : ~CreateInstalment(r, i)
      <4>1. SUFFICES ASSUME NEW r \in Slots, Finish(r) PROVE FALSE
        BY DEF CreateInstalment
      <4>2. Finish(s)
        BY <4>1 DEF OneAtATime
      <4> QED
        BY <1>1, <1>4, <4>2, Ends
    <3>6. Invoiced(o)' <= Invoiced(o) /\ order'[o].quantity = order[o].quantity
          /\ Invoiced(o)' \in Nat
      BY <3>2, <3>4, <3>5, BillsNext DEF Bills
    <3>7. slot[s].quantity \in Int /\ order[o].quantity \in Int /\ Invoiced(o) \in Int
      BY <1>1, <1>2, InvoicedNatural, NamesAssumption DEF HandlersFit, LocalsType
    <3>8. Invoiced(o)' + slot'[s].quantity <= order'[o].quantity
      BY <2>4, <3>2, <3>6, <3>7
    <3> QED
      BY <2>4, <3>1, <3>3, <3>8
  <2>5. SingleCall \/ UNCHANGED vars => slot' = slot
    BY Zenon DEF SingleCall, CreateOrder, CreateInvoice, Pay, SetDispatch, StockIn, StockOut,
                 Stock!Receive, Stock!Remove, vars
  <2> QED
    BY <2>1, <2>2, <2>3, <2>4, <2>5, Zenon DEF Next, OneAtATime
<1>5. (\A s \in Slots : slot[s].step = "bill.create" =>
         \E o \in Orders : /\ o = slot[s].order /\ order[o].status # "none"
                           /\ Invoiced(o) + slot[s].quantity <= order[o].quantity)'
  BY <1>4
<1> QED
  BY <1>3, <1>5 DEF BilledInv

\* An order may not bill the same units twice.  The handlers read what is left
\* to bill and insert the instalment in two calls, so this takes requests that
\* do not overlap.
THEOREM NothingIsBilledTwice == OneAtATime => (Spec => []BilledWithinLine)
<1> SUFFICES ASSUME OneAtATime PROVE Spec => []BilledWithinLine
  OBVIOUS
<1>1. Init => BilledInv
  <2> SUFFICES ASSUME Init PROVE BilledInv
    OBVIOUS
  <2>1. \A s \in Slots : slot[s].step = "idle"
    BY IdleFits DEF Init
  <2>2. \A o \in Orders : Live(o) = {}
    BY NamesAssumption DEF Init, Live, Linked, Line, NoLine
  <2>3. \A o \in Orders : Invoiced(o) = 0
    BY <2>2, NothingBilled
  <2>4. \A o \in Orders : order[o].quantity = 0
    BY DEF Init
  <2> QED
    BY <2>1, <2>3, <2>4 DEF BilledInv
<1>2. ASSUME DocumentsInv, DocumentsInv', LinksFit, \A s \in Slots : InvoiceAsRead(s),
             BilledInv, [Next]_vars
      PROVE  BilledInv'
  BY <1>2, BilledNext
<1>3. LinksFit /\ DocumentsInv /\ BilledInv => BilledWithinLine
  <2> SUFFICES ASSUME LinksFit, DocumentsInv, BilledInv, NEW o \in Orders
               PROVE  MapThenSumSet(LAMBDA i : invoice[i].quantity,
                        {i \in Linked(o) : invoice[i].status \in InvoiceStatuses \ {"cancelled"}})
                        <= order[o].quantity
    BY DEF BilledWithinLine
  <2>1. Line(o) # NoLine
    BY NamesAssumption DEF Line, NoLine
  <2>2. \A i \in Linked(o) : invoice[i].status \in InvoiceStatuses
    BY <2>1 DEF Linked, LinksFit, Exists, DocumentsInv, InvoicesFit, InvoiceRow
  <2>3. {i \in Linked(o) : invoice[i].status \in InvoiceStatuses \ {"cancelled"}}
          = {i \in Linked(o) : invoice[i].status # "cancelled"}
    BY <2>2
  <2>4. Invoiced(o) <= order[o].quantity
    BY DEF BilledInv
  <2> QED
    BY <2>3, <2>4 DEF Invoiced
<1> QED
  BY <1>1, <1>2, <1>3, DocumentsAlways, LinksAlways, InvoicesAsRead, PTL DEF Spec

-----------------------------------------------------------------------------
(* Goods and documents, one request at a time and run to its end *)

\* The calls before which the goods of an invoice are already out, or still.
InTransit(s, i) == slot[s].invoice = i /\ slot[s].step \in {"send.write", "cancel.return"}

\* The goods of i are out.
OutFor(i) == IsIssued(invoice[i].status) \/ \E s \in Slots : InTransit(s, i)

\* What has left for an invoice.
GoodsOut ==
  \A i \in Invoices : shipped[i] = IF OutFor(i) THEN invoice[i].quantity ELSE 0

\* Where each call of a handler starts from.
LEMMA CallsFrom ==
  ASSUME NEW s \in Slots
  PROVE  /\ ReleaseBeforeUpdate(s) => slot[s].step = "update.release"
         /\ WriteOrder(s) => slot[s].step = "update.write"
         /\ HoldAfterUpdate(s) => slot[s].step = "update.hold"
         /\ WriteOrderStatus(s) => slot[s].step = "status.write"
         /\ HoldConfirmed(s) => slot[s].step = "status.hold"
         /\ ReleaseCancelled(s) => slot[s].step = "status.release"
         /\ DeleteOrder(s) => slot[s].step = "order.delete"
         /\ (\E i \in Invoices : CreateInstalment(s, i)) => slot[s].step = "bill.create"
         /\ WriteInvoice(s) => slot[s].step = "edit.write"
         /\ DeleteInvoice(s) => slot[s].step = "invoice.delete"
         /\ ShipInvoice(s) => slot[s].step = "send.ship"
         /\ RefuseShipment(s) => slot[s].step = "send.ship"
         /\ WriteSent(s) => slot[s].step = "send.write"
         /\ ReadToAdvance(s) => slot[s].step = "send.advance"
         /\ AdvanceOrder(s) => slot[s].step = "send.advanceWrite"
         /\ WriteCancelled(s) => slot[s].step = "cancel.write"
         /\ ReturnGoods(s) => slot[s].step = "cancel.return"
         /\ ReleaseToRehold(s) => slot[s].step = "cancel.release"
         /\ Rehold(s) => slot[s].step = "cancel.hold"
         /\ BeginOrderRequest(s) => slot[s].step = "idle"
         /\ BeginInvoiceRequest(s) => slot[s].step = "idle"
<1>1. BeginOrderRequest(s) => slot[s].step = "idle"
  BY Zenon DEF BeginOrderRequest, ReadOrderToUpdate, ReadOrderToBill, ReadOrderToSetStatus,
               ReadOrderToDelete, Begin, At
<1>2. BeginInvoiceRequest(s) => slot[s].step = "idle"
  BY Zenon DEF BeginInvoiceRequest, ReadInvoiceToUpdate, ReadInvoiceToDelete, ReadInvoiceToSend,
               ReadInvoiceToCancel, Begin, At
<1>3. (\E i \in Invoices : CreateInstalment(s, i)) => slot[s].step = "bill.create"
  BY Zenon DEF CreateInstalment, At
<1> QED
  BY <1>1, <1>2, <1>3, Zenon DEF ReleaseBeforeUpdate, WriteOrder, HoldAfterUpdate,
     WriteOrderStatus, HoldConfirmed, ReleaseCancelled, DeleteOrder, WriteInvoice, DeleteInvoice,
     ShipInvoice, RefuseShipment, WriteSent, ReadToAdvance, AdvanceOrder, WriteCancelled,
     ReturnGoods, ReleaseToRehold, Rehold, At

\* What is under way is not given up: the document is written after the goods.
LEMMA TransitCalls ==
  ASSUME ~MayAbandon, NEW s \in Slots, InvoiceAsRead(s),
         slot[s].step \in {"send.write", "cancel.return"},
         BeginOrderRequest(s) \/ BeginInvoiceRequest(s) \/ Step(s) \/ Abandon(s)
  PROVE  WriteSent(s) \/ ReturnGoods(s)
<1>1. ~Abandon(s)
  BY DEF Abandon
<1>2. ~FailRequest(s)
  <2>1. slot[s].step = "send.write" => Exists(invoice[slot[s].invoice])
    BY DEF InvoiceAsRead, Exists, Missing
  <2>2. FailRequest(s) =>
          \/ slot[s].step \in {"update.write", "status.write", "order.delete",
                               "send.advanceWrite", "bill.create"}
          \/ /\ slot[s].step \in {"edit.write", "send.write", "cancel.write"}
             /\ ~Exists(invoice[slot[s].invoice])
    BY DEF FailRequest, At
  <2> QED
    BY <2>1, <2>2
<1>3. Step(s) => \/ ReleaseBeforeUpdate(s) \/ WriteOrder(s) \/ HoldAfterUpdate(s)
                 \/ WriteOrderStatus(s) \/ HoldConfirmed(s) \/ ReleaseCancelled(s)
                 \/ DeleteOrder(s)
                 \/ (\E i \in Invoices : CreateInstalment(s, i))
                 \/ WriteInvoice(s) \/ DeleteInvoice(s)
                 \/ ShipInvoice(s) \/ RefuseShipment(s) \/ WriteSent(s)
                 \/ ReadToAdvance(s) \/ AdvanceOrder(s)
                 \/ WriteCancelled(s) \/ ReturnGoods(s) \/ ReleaseToRehold(s) \/ Rehold(s)
  BY <1>2, Zenon DEF Step, OrderStep, InvoiceStep
<1> QED
  BY <1>1, <1>3, CallsFrom

\* A handler alone decides whose goods are out although nothing says so.
LEMMA OutForAlone ==
  ASSUME OneAtATime, NEW s \in Slots, NEW i
  PROVE  /\ OutFor(i) <=> IsIssued(invoice[i].status) \/ InTransit(s, i)
         /\ OutFor(i)' <=> IsIssued(invoice'[i].status) \/ InTransit(s, i)'
BY DEF OneAtATime, OutFor

\* Of a row not inserted yet nothing is out.
LEMMA NoneNotOut ==
  ASSUME \A s \in Slots : InvoiceAsRead(s), NEW i \in Invoices, invoice[i].status = "none"
  PROVE  ~OutFor(i)
BY DEF InvoiceAsRead, OutFor, InTransit, IsIssued

\* The goods of an invoice move exactly when it becomes issued or stops being so.
LEMMA GoodsOutNext ==
  ASSUME OneAtATime, ~MayAbandon, DocumentsInv, \A s \in Slots : InvoiceAsRead(s),
         ShippedFits, ShipsAutomatically, GoodsOut, [Next]_vars
  PROVE  GoodsOut'
<1> SUFFICES ASSUME NEW i \in Invoices
             PROVE  shipped'[i] = IF OutFor(i)' THEN invoice'[i].quantity ELSE 0
  BY DEF GoodsOut
<1>1. HandlersFit
  BY DEF DocumentsInv
<1>2. shipped[i] = IF OutFor(i) THEN invoice[i].quantity ELSE 0
  BY DEF GoodsOut
<1>3. invoice[i].quantity \in Int /\ shipped[i] \in Int
  BY NamesAssumption DEF DocumentsInv, InvoicesFit, InvoiceRow, ShippedFits
<1>4. ASSUME NEW s \in Slots, ShipInvoice(s)
      PROVE  shipped'[i] = IF OutFor(i)' THEN invoice'[i].quantity ELSE 0
  <2>1. PICK j \in Invoices : j = slot[s].invoice
    BY <1>1, <1>4, CallsFrom DEF HandlersFit, LocalsFit, InvoiceSteps
  <2>2. invoice[j].status = "draft" /\ invoice' = invoice
    BY <1>4, <2>1, CallsFrom, CallsLeave DEF InvoiceAsRead
  <2>3. slot'[s].step = "send.write" /\ slot'[s].invoice = j
    <3>1. Continue(s, "send.write")
      BY <1>4 DEF ShipInvoice
    <3> QED
      BY <1>1, <2>1, <3>1, GoesOn
  <2>4. Moves(j)
    BY <2>2 DEF Moves, Exists, Missing
  <2>5. shipped' = [shipped EXCEPT ![j] = @ + invoice[j].quantity]
    BY <1>4, <2>1, <2>4, Zenon DEF ShipInvoice
  <2>6. shipped'[j] = shipped[j] + invoice[j].quantity /\ (i # j => shipped'[i] = shipped[i])
    BY <2>5 DEF ShippedFits
  <2>7. ~InTransit(s, i)
    BY <1>4, CallsFrom DEF InTransit
  <2>8. InTransit(s, i)' <=> i = j
    BY <2>3 DEF InTransit
  <2> QED
    BY <1>2, <1>3, <2>2, <2>6, <2>7, <2>8, OutForAlone DEF IsIssued
<1>5. ASSUME NEW s \in Slots, ReturnGoods(s)
      PROVE  shipped'[i] = IF OutFor(i)' THEN invoice'[i].quantity ELSE 0
  <2>1. PICK j \in Invoices : j = slot[s].invoice
    BY <1>1, <1>5, CallsFrom DEF HandlersFit, LocalsFit, InvoiceSteps
  <2>2. invoice[j].status = "cancelled" /\ invoice' = invoice
    BY <1>5, <2>1, CallsFrom, CallsLeave DEF InvoiceAsRead
  <2>3. slot'[s].step = "cancel.release"
    <3>1. Continue(s, "cancel.release")
      BY <1>5 DEF ReturnGoods
    <3> QED
      BY <1>1, <3>1, GoesOn
  <2>4. Moves(j)
    BY <2>2 DEF Moves, Exists, Missing
  <2>5. shipped' = [shipped EXCEPT ![j] = @ - invoice[j].quantity]
    BY <1>5, <2>1, <2>4, Zenon DEF ReturnGoods
  <2>6. shipped'[j] = shipped[j] - invoice[j].quantity /\ (i # j => shipped'[i] = shipped[i])
    BY <2>5 DEF ShippedFits
  <2>7. InTransit(s, i) <=> i = j
    BY <1>5, <2>1, CallsFrom DEF InTransit
  <2>8. ~InTransit(s, i)'
    BY <2>3 DEF InTransit
  <2> QED
    BY <1>2, <1>3, <2>2, <2>6, <2>7, <2>8, OutForAlone DEF IsIssued
<1>6. ASSUME NEW s \in Slots, WriteSent(s)
      PROVE  shipped'[i] = IF OutFor(i)' THEN invoice'[i].quantity ELSE 0
  <2>1. PICK j \in Invoices : j = slot[s].invoice
    BY <1>1, <1>6, CallsFrom DEF HandlersFit, LocalsFit, InvoiceSteps
  <2>2. InvoiceNow(j, "sent", invoice[j].order, invoice[j].quantity, invoice[j].line)
    BY <1>6, <2>1, InvoiceCalls DEF InvoiceOf
  <2>3. shipped' = shipped
    BY <1>6, CallsLeave DEF InvoiceWrites
  <2>4. slot'[s].step = "send.advance"
    <3>1. Continue(s, "send.advance")
      BY <1>6 DEF WriteSent
    <3> QED
      BY <1>1, <3>1, GoesOn
  <2>5. (InTransit(s, i) <=> i = j) /\ ~InTransit(s, i)'
    BY <1>6, <2>1, <2>4, CallsFrom DEF InTransit
  <2> QED
    BY <1>2, <2>2, <2>3, <2>5, OutForAlone DEF IsIssued, InvoiceNow
<1>7. ASSUME NEW s \in Slots, WriteCancelled(s)
      PROVE  shipped'[i] = IF OutFor(i)' THEN invoice'[i].quantity ELSE 0
  <2>1. PICK j \in Invoices : j = slot[s].invoice
    BY <1>1, <1>7, CallsFrom DEF HandlersFit, LocalsFit, InvoiceSteps
  <2>2. InvoiceNow(j, "cancelled", invoice[j].order, invoice[j].quantity, invoice[j].line)
    BY <1>7, <2>1, InvoiceCalls DEF InvoiceOf
  <2>3. shipped' = shipped
    BY <1>7, CallsLeave DEF InvoiceWrites
  <2>4. IsIssued(slot[s].status) <=> IsIssued(invoice[j].status)
    BY <1>7, <2>1, CallsFrom DEF InvoiceAsRead
  <2>5. InTransit(s, i)' <=> i = j /\ IsIssued(slot[s].status)
    <3>1. IF IsIssued(slot[s].status) THEN Continue(s, "cancel.return") ELSE Finish(s)
      BY <1>7 DEF WriteCancelled
    <3> QED
      BY <1>1, <2>1, <3>1, GoesOn, Ends DEF InTransit
  <2>6. ~InTransit(s, i)
    BY <1>7, CallsFrom DEF InTransit
  <2>7. ~IsIssued("cancelled")
    BY DEF IsIssued
  <2> QED
    BY <1>2, <2>2, <2>3, <2>4, <2>5, <2>6, <2>7, OutForAlone DEF InvoiceNow
<1>8. ASSUME NEW s \in Slots, BeginOrderRequest(s) \/ BeginInvoiceRequest(s) \/ Step(s) \/ Abandon(s),
             ~ShipInvoice(s), ~ReturnGoods(s), ~WriteSent(s), ~WriteCancelled(s)
      PROVE  shipped'[i] = IF OutFor(i)' THEN invoice'[i].quantity ELSE 0
  <2>1. ~InTransit(s, i)
    BY <1>8, TransitCalls DEF InTransit
  <2>2. ~InTransit(s, i)'
    <3>1. slot'[s].step \notin {"send.write", "cancel.return"}
      <4>1. CASE BeginOrderRequest(s)
        BY <1>1, <4>1, OrderRequestLocals, Zenon DEF BeginOrderRequest
      <4>2. CASE BeginInvoiceRequest(s)
        BY <1>1, <4>2, InvoiceRequestLocals DEF ReadOf
      <4>3. CASE Step(s) \/ Abandon(s)
        BY <1>1, <1>8, <4>3, CallLeads DEF Leads, InvoiceWatched
      <4> QED
        BY <1>8, <4>1, <4>2, <4>3
    <3> QED
      BY <3>1 DEF InTransit
  <2>3. shipped' = shipped
    <3>1. BeginOrderRequest(s) \/ BeginInvoiceRequest(s) \/ Step(s) \/ Abandon(s)
            => InvoicesRest(s) \/ InvoiceWrites(s) \/ WriteOrder(s) \/ ShipInvoice(s) \/ ReturnGoods(s)
      BY Zenon DEF Step, OrderStep, InvoiceStep, InvoicesRest, InvoiceWrites
    <3> QED
      BY <1>8, <3>1, CallsLeave
  <2>4. \/ invoice'[i].status = invoice[i].status /\ invoice'[i].quantity = invoice[i].quantity
        \/ ~IsIssued(invoice[i].status) /\ ~IsIssued(invoice'[i].status)
    <3>1. \/ InvoicesRest(s) \/ WriteOrder(s)
          \/ (\E j \in Invoices : CreateInstalment(s, j)) \/ WriteInvoice(s) \/ DeleteInvoice(s)
      BY <1>8, Zenon DEF Step, OrderStep, InvoiceStep, InvoicesRest
    <3>2. CASE InvoicesRest(s)
      BY <3>2, CallsLeave
    <3>3. CASE WriteOrder(s)
      BY <3>3 DEF WriteOrder, DocumentsInv, InvoicesFit, InvoiceRow
    <3>4. ASSUME NEW j \in Invoices, CreateInstalment(s, j)
          PROVE  \/ invoice'[i].status = invoice[i].status /\ invoice'[i].quantity = invoice[i].quantity
                 \/ ~IsIssued(invoice[i].status) /\ ~IsIssued(invoice'[i].status)
      <4>1. invoice[j].status = "none"
        BY <3>4 DEF CreateInstalment
      <4>2. InvoiceNow(j, "draft", slot[s].order, slot[s].quantity, slot[s].line)
        BY <3>4, InvoiceCalls
      <4> QED
        BY <4>1, <4>2 DEF InvoiceNow, IsIssued
    <3>5. CASE WriteInvoice(s) \/ DeleteInvoice(s)
      <4>1. PICK j \in Invoices : j = slot[s].invoice
        BY <1>1, <3>5, CallsFrom DEF HandlersFit, LocalsFit, InvoiceSteps
      <4>2. invoice[j].status = "draft"
        BY <3>5, <4>1, CallsFrom DEF InvoiceAsRead
      <4>3. PICK st, o, n : st \in {"draft", "deleted"} /\ InvoiceNow(j, st, o, n, NoLine)
        BY <3>5, <4>1, <4>2, InvoiceCalls DEF InvoiceOf
      <4> QED
        BY <4>2, <4>3 DEF InvoiceNow, IsIssued
    <3> QED
      BY <3>1, <3>2, <3>3, <3>4, <3>5
  <2> QED
    BY <1>2, <2>1, <2>2, <2>3, <2>4, OutForAlone
<1>9. CASE SingleCall \/ UNCHANGED vars
  <2>1. slot' = slot /\ shipped' = shipped
    BY <1>9, Zenon DEF SingleCall, CreateOrder, CreateInvoice, Pay, SetDispatch, StockIn, StockOut,
                       Stock!Receive, Stock!Remove, vars
  <2>2. (\E s \in Slots : InTransit(s, i)) <=> \E s \in Slots : InTransit(s, i)'
    BY <2>1 DEF InTransit
  <2>3. CASE invoice'[i] = invoice[i]
    BY <1>2, <2>1, <2>2, <2>3 DEF OutFor
  <2>4. ASSUME NEW j \in Invoices, Pay(j)
        PROVE  shipped'[i] = IF OutFor(i)' THEN invoice'[i].quantity ELSE 0
    <3>1. PICK st \in {"paid", "sent"} :
            invoice' = [invoice EXCEPT ![j].status = st] /\ invoice[j].status \in {"paid", "sent"}
      BY <2>4, Zenon DEF Pay
    <3>2. InvoiceNow(j, st, invoice[j].order, invoice[j].quantity, invoice[j].line)
      BY <3>1, InvoiceWritten
    <3>3. invoice'[i].quantity = invoice[i].quantity
          /\ (IsIssued(invoice'[i].status) <=> IsIssued(invoice[i].status))
      BY <3>1, <3>2 DEF InvoiceNow, IsIssued
    <3> QED
      BY <1>2, <2>1, <2>2, <3>3 DEF OutFor
  <2>5. ASSUME NEW j \in Invoices, NEW o \in Orders \cup {NoOrder}, NEW n \in Quantities,
               CreateInvoice(j, o, n)
        PROVE  shipped'[i] = IF OutFor(i)' THEN invoice'[i].quantity ELSE 0
    <3>1. InvoiceNow(j, "draft", o, n, NoLine) /\ invoice[j].status = "none"
      BY <2>5, InvoiceWritten DEF CreateInvoice
    <3>2. CASE i = j
      <4>1. ~OutFor(i)
        BY <3>1, <3>2, NoneNotOut
      <4>2. ~OutFor(i)'
        BY <2>2, <3>1, <3>2, <4>1 DEF OutFor, InvoiceNow, IsIssued
      <4> QED
        BY <1>2, <2>1, <4>1, <4>2
    <3> QED
      BY <2>3, <3>1, <3>2 DEF InvoiceNow
  <2>6. invoice' = invoice \/ (\E j \in Invoices : Pay(j))
          \/ \E j \in Invoices, o \in Orders \cup {NoOrder}, n \in Quantities : CreateInvoice(j, o, n)
    BY <1>9, Zenon DEF SingleCall, CreateOrder, SetDispatch, StockIn, StockOut, vars
  <2> QED
    BY <2>3, <2>4, <2>5, <2>6, Zenon
<1> QED
  BY <1>4, <1>5, <1>6, <1>7, <1>8, <1>9, Zenon DEF Next

\* What has left for an order is a sum, before a step and after it.
LEMMA ShippedIsSum ==
  ASSUME NEW o
  PROVE  /\ ShippedFor(o) = SumOf(shipped, Linked(o))
         /\ ShippedFor(o)' = SumOf(shipped', Linked(o)')
BY DEF ShippedFor, SumOf, MapThenSumSet, MapThenFoldSet

\* What has left for an invoice is a quantity of goods.
LEMMA ShippedNatural ==
  ASSUME DocumentsInv, ShippedFits, GoodsOut
  PROVE  /\ DOMAIN shipped = Invoices
         /\ \A i \in Invoices : shipped[i] \in Nat
<1>1. \A i \in Invoices : invoice[i].quantity \in Nat
  BY NamesAssumption DEF DocumentsInv, InvoicesFit, InvoiceRow
<1> QED
  BY <1>1 DEF GoodsOut, ShippedFits

\* Goods that stay with an order.
LEMMA ShippedKept ==
  ASSUME DocumentsInv, DocumentsInv', ShippedFits, ShippedFits', GoodsOut, GoodsOut', NEW o,
         \A i \in Linked(o) : shipped[i] = 0 \/ (i \in Linked(o)' /\ shipped[i] <= shipped'[i])
  PROVE  ShippedFor(o) \in Nat /\ ShippedFor(o)' \in Nat /\ ShippedFor(o) <= ShippedFor(o)'
<1>1. /\ DOMAIN shipped = Invoices /\ \A i \in Invoices : shipped[i] \in Nat
      /\ DOMAIN shipped' = Invoices /\ \A i \in Invoices : shipped'[i] \in Nat
  <2>1. \A i \in Invoices : invoice'[i].quantity \in Nat
    BY NamesAssumption DEF DocumentsInv, InvoicesFit, InvoiceRow
  <2>2. \A i \in Invoices : shipped'[i] = IF OutFor(i)' THEN invoice'[i].quantity ELSE 0
    BY DEF GoodsOut
  <2>3. DOMAIN shipped' = Invoices
    BY DEF ShippedFits
  <2> QED
    BY <2>1, <2>2, <2>3, ShippedNatural
<1>2. /\ Linked(o) \subseteq Invoices /\ Linked(o)' \subseteq Invoices
      /\ IsFiniteSet(Linked(o)) /\ IsFiniteSet(Linked(o)')
  <2>1. Linked(o) \subseteq Invoices /\ Linked(o)' \subseteq Invoices
    BY DEF Linked
  <2> QED
    BY <2>1, FiniteAssumption, FS_Subset
<1> DEFINE before == Linked(o)
           after == Linked(o)'
<1>3. /\ \A i \in before : shipped[i] = 0 \/ (i \in after /\ shipped[i] <= shipped'[i])
      /\ IsFiniteSet(before) /\ IsFiniteSet(after)
      /\ before \subseteq DOMAIN shipped /\ after \subseteq DOMAIN shipped'
      /\ \A i \in before : shipped[i] \in Nat
      /\ \A i \in after : shipped'[i] \in Nat
  BY <1>1, <1>2
<1> HIDE DEF before, after
<1>4. SumOf(shipped, before) \in Nat /\ SumOf(shipped', after) \in Nat
      /\ SumOf(shipped, before) <= SumOf(shipped', after)
  BY <1>3, SumGrows
<1> QED
  BY <1>4, ShippedIsSum DEF before, after

\* A document that says goods have gone, or is about to say so, is right; and
\* no goods come back from under an order that says so.
GoneFor(o) == ShippedFor(o) >= order[o].quantity

ClaimsHold ==
  /\ \A o \in Orders : AssertsGoodsHaveLeft(order[o].status) => GoneFor(o)
  /\ \A s \in Slots : slot[s].step = "status.write" /\ AssertsGoodsHaveLeft(slot[s].status)
                        => GoneFor(slot[s].order)
  /\ \A s \in Slots : slot[s].step \in {"cancel.write", "cancel.return"} =>
       LET o == invoice[slot[s].invoice].order IN
       o # NoOrder => ~AssertsGoodsHaveLeft(order[o].status)

\* What a request at a time makes of documents, and of the goods they are about.
DocumentsAgree ==
  /\ Reached /\ LinksFit /\ (\A s \in Slots : InvoiceAsRead(s)) /\ ShippedFits /\ GoodsOut

\* Only the request that replaces the line of an order, and the one that takes
\* goods back, leave an order with less shipped for its line.
LEMMA GoodsStayGone ==
  ASSUME OneAtATime, DocumentsAgree, DocumentsAgree', ShipsAutomatically, [Next]_vars,
         NEW o \in Orders, Line(o)' = Line(o),
         \A s \in Slots : ReturnGoods(s) => invoice[slot[s].invoice].line # Line(o)
  PROVE  ShippedFor(o) \in Nat /\ ShippedFor(o)' \in Nat /\ ShippedFor(o) <= ShippedFor(o)'
<1>1. DocumentsInv /\ HandlersFit
  BY DEF DocumentsAgree, Reached, DocumentsInv
<1>2. \A i \in Invoices : shipped[i] \in Nat /\ invoice[i].quantity \in Nat
  <2>1. \A i \in Invoices : invoice[i].quantity \in Nat
    BY <1>1, NamesAssumption DEF DocumentsInv, InvoicesFit, InvoiceRow
  <2> QED
    BY <1>1, <2>1, ShippedNatural DEF DocumentsAgree
<1>3. SUFFICES ASSUME NEW i \in Linked(o)
               PROVE  \/ shipped[i] = 0
                      \/ invoice'[i].line = Line(o) /\ shipped[i] <= shipped'[i]
  <2>1. \A i \in Linked(o) : invoice'[i].line = Line(o) => i \in Linked(o)'
    BY DEF Linked
  <2>2. DocumentsInv /\ DocumentsInv' /\ ShippedFits /\ ShippedFits' /\ GoodsOut /\ GoodsOut'
    BY DEF DocumentsAgree, Reached
  <2> QED
    BY <1>3, <2>1, <2>2, ShippedKept
<1>4. i \in Invoices /\ invoice[i].line = Line(o) /\ Line(o) # NoLine
  BY NamesAssumption DEF Linked, Line, NoLine
<1>5. invoice'[i].line = invoice[i].line /\ shipped'[i] = shipped[i]
        => invoice'[i].line = Line(o) /\ shipped[i] <= shipped'[i]
  BY <1>2, <1>4
<1>6. ~OutFor(i) => shipped[i] = 0
  BY <1>4 DEF DocumentsAgree, GoodsOut
<1>7. invoice[i].status # "none"
  BY <1>4 DEF DocumentsAgree, LinksFit, Exists, Missing
<1>8. ASSUME NEW s \in Slots, InvoicesRest(s)
      PROVE  invoice'[i].line = invoice[i].line /\ shipped'[i] = shipped[i]
  BY <1>8, CallsLeave
<1>9. ASSUME NEW s \in Slots, NEW j \in Invoices, CreateInstalment(s, j)
      PROVE  invoice'[i].line = invoice[i].line /\ shipped'[i] = shipped[i]
  <2>1. InvoiceNow(j, "draft", slot[s].order, slot[s].quantity, slot[s].line)
        /\ invoice[j].status = "none"
    BY <1>1, <1>9, InvoiceCalls DEF CreateInstalment
  <2>2. shipped' = shipped
    BY <1>9, CallsLeave DEF InvoiceWrites
  <2> QED
    BY <1>4, <1>7, <2>1, <2>2 DEF InvoiceNow
<1>10. ASSUME NEW s \in Slots, WriteSent(s) \/ WriteCancelled(s)
       PROVE  invoice'[i].line = invoice[i].line /\ shipped'[i] = shipped[i]
  <2>1. PICK j \in Invoices : j = InvoiceOf(s)
    BY <1>1, <1>10, CallsFrom DEF HandlersFit, LocalsFit, InvoiceSteps, InvoiceOf
  <2>2. PICK st : InvoiceNow(j, st, invoice[j].order, invoice[j].quantity, invoice[j].line)
    BY <1>1, <1>10, <2>1, InvoiceCalls
  <2>3. shipped' = shipped
    BY <1>10, CallsLeave DEF InvoiceWrites
  <2> QED
    BY <1>4, <2>2, <2>3 DEF InvoiceNow
<1>11. ASSUME NEW s \in Slots, WriteInvoice(s) \/ DeleteInvoice(s)
       PROVE  \/ shipped[i] = 0
              \/ invoice'[i].line = invoice[i].line /\ shipped'[i] = shipped[i]
  <2>1. PICK j \in Invoices : j = InvoiceOf(s)
    BY <1>1, <1>11, CallsFrom DEF HandlersFit, LocalsFit, InvoiceSteps, InvoiceOf
  <2>2. PICK st, q, n : InvoiceNow(j, st, q, n, NoLine)
    BY <1>1, <1>11, <2>1, InvoiceCalls
  <2>3. shipped' = shipped
    BY <1>11, CallsLeave DEF InvoiceWrites
  <2>4. CASE i = j
    <3>1. invoice[i].status = "draft"
      BY <1>11, <2>1, <2>4, CallsFrom DEF DocumentsAgree, InvoiceAsRead, InvoiceOf
    <3>2. ~InTransit(s, i)
      BY <1>11, CallsFrom DEF InTransit
    <3> QED
      BY <1>6, <3>1, <3>2, OutForAlone DEF IsIssued
  <2> QED
    BY <1>4, <2>2, <2>3, <2>4 DEF InvoiceNow
<1>12. ASSUME NEW s \in Slots, WriteOrder(s)
       PROVE  invoice'[i].line = invoice[i].line /\ shipped'[i] = shipped[i]
  <2>1. PICK p \in Orders : p = OrderOf(s)
    BY <1>1, <1>12, CallsFrom DEF HandlersFit, LocalsFit, OrderSteps, OrderOf
  <2>2. order'[p].line = order[p].line + 1 /\ order[p].line \in Int
    <3>1. order[p].line \in Int
      BY <1>1, NamesAssumption DEF DocumentsInv, OrdersFit, OrderRow
    <3>2. OrderNow(p, order[p].status, slot[s].quantity, order[p].line + 1)
      BY <1>1, <1>12, <2>1, OrderCalls
    <3> QED
      BY <3>1, <3>2 DEF OrderNow
  <2>3. p # o
    BY <2>2 DEF Line
  <2>4. i \notin Linked(p)
    BY <1>4, <2>3 DEF Linked, Line
  <2>5. invoice'[i] = invoice[i]
    BY <1>4, <1>12, <2>1, <2>4 DEF WriteOrder, OrderOf
  <2>6. shipped' = shipped
    BY <1>12, CallsLeave
  <2> QED
    BY <2>5, <2>6
<1>13. ASSUME NEW s \in Slots, ShipInvoice(s)
       PROVE  invoice'[i].line = invoice[i].line /\ shipped[i] <= shipped'[i]
  <2>1. PICK j \in Invoices : j = slot[s].invoice
    BY <1>1, <1>13, CallsFrom DEF HandlersFit, LocalsFit, InvoiceSteps
  <2>2. invoice' = invoice
    BY <1>13, CallsLeave
  <2>3. \/ shipped' = shipped
        \/ shipped' = [shipped EXCEPT ![j] = @ + invoice[j].quantity]
    BY <1>13, <2>1, Zenon DEF ShipInvoice
  <2>4. shipped'[i] = shipped[i] \/ shipped'[i] = shipped[i] + invoice[i].quantity
    BY <1>4, <2>3 DEF DocumentsAgree, ShippedFits
  <2> QED
    BY <1>2, <1>4, <2>2, <2>4
<1>14. ASSUME NEW s \in Slots, ReturnGoods(s)
       PROVE  invoice'[i].line = invoice[i].line /\ shipped'[i] = shipped[i]
  <2>1. PICK j \in Invoices : j = slot[s].invoice
    BY <1>1, <1>14, CallsFrom DEF HandlersFit, LocalsFit, InvoiceSteps
  <2>2. invoice' = invoice
    BY <1>14, CallsLeave
  <2>3. \/ shipped' = shipped
        \/ shipped' = [shipped EXCEPT ![j] = @ - invoice[j].quantity]
    BY <1>14, <2>1, Zenon DEF ReturnGoods
  <2>4. i # j
    BY <1>4, <1>14, <2>1
  <2> QED
    BY <1>4, <2>2, <2>3, <2>4 DEF DocumentsAgree, ShippedFits
<1>15. CASE SingleCall \/ UNCHANGED vars
  <2>1. shipped' = shipped
    BY <1>15, Zenon DEF SingleCall, CreateOrder, CreateInvoice, Pay, SetDispatch, StockIn, StockOut, vars
  <2>2. ASSUME NEW j \in Invoices, Pay(j) PROVE invoice'[i].line = invoice[i].line
    <3>1. PICK st : invoice' = [invoice EXCEPT ![j].status = st]
      BY <2>2, Zenon DEF Pay
    <3>2. InvoiceNow(j, st, invoice[j].order, invoice[j].quantity, invoice[j].line)
      BY <1>1, <3>1, InvoiceWritten
    <3> QED
      BY <1>4, <3>2 DEF InvoiceNow
  <2>3. ASSUME NEW j \in Invoices, NEW q \in Orders \cup {NoOrder}, NEW n \in Quantities,
               CreateInvoice(j, q, n)
        PROVE  invoice'[i].line = invoice[i].line
    <3>1. InvoiceNow(j, "draft", q, n, NoLine) /\ invoice[j].status = "none"
      BY <1>1, <2>3, InvoiceWritten DEF CreateInvoice
    <3> QED
      BY <1>4, <1>7, <3>1 DEF InvoiceNow
  <2>4. invoice' = invoice \/ (\E j \in Invoices : Pay(j))
          \/ \E j \in Invoices, q \in Orders \cup {NoOrder}, n \in Quantities : CreateInvoice(j, q, n)
    BY <1>15, Zenon DEF SingleCall, CreateOrder, SetDispatch, StockIn, StockOut, vars
  <2>5. invoice'[i].line = invoice[i].line
    BY <2>2, <2>3, <2>4, Zenon
  <2> QED
    BY <1>5, <2>1, <2>5
<1>16. (\E s \in Slots : InvoiceWrites(s)) =>
         \/ \E s \in Slots, j \in Invoices : CreateInstalment(s, j)
         \/ \E s \in Slots : WriteSent(s) \/ WriteCancelled(s)
         \/ \E s \in Slots : WriteInvoice(s) \/ DeleteInvoice(s)
  BY Zenon DEF InvoiceWrites
<1> QED
  BY <1>4, <1>5, <1>8, <1>9, <1>10, <1>11, <1>12, <1>13, <1>14, <1>15, <1>16, NextForms

\* What a step makes of an order that says its goods have gone, if not of others.
OrderMoves(o) ==
  \/ order'[o] = order[o]
  \/ ~AssertsGoodsHaveLeft(order'[o].status)
  \/ \E s \in Slots : /\ WriteOrderStatus(s) /\ OrderOf(s) = o
                      /\ order'[o].status = slot[s].status
                      /\ order'[o].quantity = order[o].quantity /\ order'[o].line = order[o].line

\* Only setting the status has an order say so.
LEMMA OrderMovesSo ==
  ASSUME DocumentsInv, \A s \in Slots : StillAsRead(s), [Next]_vars, NEW o \in Orders
  PROVE  OrderMoves(o)
<1>1. HandlersFit
  BY DEF DocumentsInv
<1>2. ASSUME NEW s \in Slots, NEW p \in Orders, NEW st, NEW n, NEW l,
             p = OrderOf(s), OrderNow(p, st, n, l), ~AssertsGoodsHaveLeft(st), order[p].status # "none"
      PROVE  OrderMoves(o)
  BY <1>2 DEF OrderNow, OrderMoves
<1>3. ASSUME NEW s \in Slots, WriteOrder(s) \/ WriteOrderStatus(s) \/ DeleteOrder(s) \/ AdvanceOrder(s)
      PROVE  OrderMoves(o)
  <2>1. PICK p \in Orders : p = OrderOf(s)
    BY <1>1, <1>3, CallsFrom DEF HandlersFit, LocalsFit, OrderSteps, OrderOf
  <2>2. order[p].status # "none"
    BY <1>3, <2>1 DEF WriteOrder, WriteOrderStatus, DeleteOrder, AdvanceOrder, OrderOf, Exists, Missing
  <2>3. CASE WriteOrder(s)
    <3>1. order[p].status \in {"draft", "confirmed"}
      BY <2>1, <2>3, CallsFrom DEF StillAsRead, OrderOf
    <3>2. ~AssertsGoodsHaveLeft(order[p].status)
      BY <3>1 DEF AssertsGoodsHaveLeft
    <3> QED
      BY <1>2, <2>1, <2>2, <2>3, <3>2, OrderCalls
  <2>4. CASE DeleteOrder(s) \/ AdvanceOrder(s)
    <3>1. ~AssertsGoodsHaveLeft("deleted") /\ ~AssertsGoodsHaveLeft("partially_shipped")
      BY DEF AssertsGoodsHaveLeft
    <3> QED
      BY <1>2, <2>1, <2>2, <2>4, <3>1, OrderCalls
  <2>5. CASE WriteOrderStatus(s)
    <3>1. OrderNow(p, slot[s].status, order[p].quantity, order[p].line)
      BY <2>1, <2>5, OrderCalls
    <3> QED
      BY <2>1, <2>2, <2>5, <3>1 DEF OrderNow, OrderMoves
  <2> QED
    BY <1>3, <2>3, <2>4, <2>5
<1>4. ASSUME NEW p \in Orders, NEW n \in Quantities, CreateOrder(p, n)
      PROVE  OrderMoves(o)
  <2>1. OrderNow(p, "draft", n, 1)
    BY <1>4, OrderWritten DEF CreateOrder
  <2> QED
    BY <2>1 DEF OrderNow, OrderMoves, AssertsGoodsHaveLeft
<1>5. order' = order => OrderMoves(o)
  BY DEF OrderMoves
<1>6. SingleCall => order' = order \/ \E p \in Orders, n \in Quantities : CreateOrder(p, n)
  BY Zenon DEF SingleCall, CreateInvoice, Pay, SetDispatch, StockIn, StockOut
<1>7. UNCHANGED vars => order' = order
  BY DEF vars
<1> QED
  BY <1>3, <1>4, <1>5, <1>6, <1>7, CallsLeave, NextForms

\* Single calls insert rows, and leave those on file as they were but for payments.
LEMMA SingleCallsLeave ==
  ASSUME DocumentsInv, SingleCall \/ UNCHANGED vars
  PROVE  /\ \A o \in Orders :
              \/ order'[o] = order[o]
              \/ order[o].status = "none" /\ order'[o].status = "draft"
         /\ \A i \in Invoices : invoice[i].status # "none" => invoice'[i].order = invoice[i].order
<1>1. order' = order \/ \E p \in Orders, n \in Quantities : CreateOrder(p, n)
  BY Zenon DEF SingleCall, CreateInvoice, Pay, SetDispatch, StockIn, StockOut, vars
<1>2. ASSUME NEW o \in Orders, NEW p \in Orders, NEW n \in Quantities, CreateOrder(p, n)
      PROVE  \/ order'[o] = order[o]
             \/ order[o].status = "none" /\ order'[o].status = "draft"
  <2>1. OrderNow(p, "draft", n, 1) /\ order[p].status = "none"
    BY <1>2, OrderWritten DEF CreateOrder
  <2> QED
    BY <2>1 DEF OrderNow
<1>3. invoice' = invoice \/ (\E j \in Invoices : Pay(j))
        \/ \E j \in Invoices, q \in Orders \cup {NoOrder}, n \in Quantities : CreateInvoice(j, q, n)
  BY Zenon DEF SingleCall, CreateOrder, SetDispatch, StockIn, StockOut, vars
<1>4. ASSUME NEW i \in Invoices, invoice[i].status # "none", NEW j \in Invoices, Pay(j)
      PROVE  invoice'[i].order = invoice[i].order
  <2>1. PICK st : invoice' = [invoice EXCEPT ![j].status = st]
    BY <1>4, Zenon DEF Pay
  <2>2. InvoiceNow(j, st, invoice[j].order, invoice[j].quantity, invoice[j].line)
    BY <2>1, InvoiceWritten
  <2> QED
    BY <2>2 DEF InvoiceNow
<1>5. ASSUME NEW i \in Invoices, invoice[i].status # "none", NEW j \in Invoices,
             NEW q \in Orders \cup {NoOrder}, NEW n \in Quantities, CreateInvoice(j, q, n)
      PROVE  invoice'[i].order = invoice[i].order
  <2>1. InvoiceNow(j, "draft", q, n, NoLine) /\ invoice[j].status = "none"
    BY <1>5, InvoiceWritten DEF CreateInvoice
  <2> QED
    BY <1>5, <2>1 DEF InvoiceNow
<1> QED
  BY <1>1, <1>2, <1>3, <1>4, <1>5

\* An order stays as right as it was about its goods, unless they come back.
LEMMA GoneStays ==
  ASSUME OneAtATime, DocumentsAgree, DocumentsAgree', ShipsAutomatically, [Next]_vars,
         NEW o \in Orders, GoneFor(o),
         order'[o].line = order[o].line, order'[o].quantity = order[o].quantity,
         \A s \in Slots : ReturnGoods(s) => invoice[slot[s].invoice].line # Line(o)
  PROVE  GoneFor(o)'
<1>1. Line(o)' = Line(o)
  BY DEF Line
<1>2. ShippedFor(o) \in Nat /\ ShippedFor(o)' \in Nat /\ ShippedFor(o) <= ShippedFor(o)'
  BY <1>1, GoodsStayGone
<1>3. order[o].quantity \in Int
  BY NamesAssumption DEF DocumentsAgree, Reached, DocumentsInv, OrdersFit, OrderRow
<1> QED
  BY <1>2, <1>3 DEF GoneFor

\* What the issued invoices of a line bill has left for it.
LEMMA IssuedHasLeft ==
  ASSUME DocumentsInv, ShippedFits, GoodsOut, NEW o \in Orders, Outstanding(o, InvoicedIssued(o)) = 0
  PROVE  GoneFor(o)
<1> DEFINE Issued == {i \in Linked(o) : IsIssued(invoice[i].status)}
           All == Linked(o)
           w == Billing(Issued)
<1>1. /\ Issued \subseteq Invoices /\ IsFiniteSet(Issued)
      /\ Linked(o) \subseteq Invoices /\ IsFiniteSet(Linked(o))
  <2>1. Linked(o) \subseteq Invoices /\ Issued \subseteq Invoices
    BY DEF Linked
  <2> QED
    BY <2>1, FiniteAssumption, FS_Subset
<1>2. \A i \in Invoices : invoice[i].quantity \in Nat
  BY NamesAssumption DEF DocumentsInv, InvoicesFit, InvoiceRow
<1>3. \A i \in Issued : shipped[i] = invoice[i].quantity
  BY DEF GoodsOut, OutFor, Linked
<1>4. DOMAIN shipped = Invoices /\ \A i \in Invoices : shipped[i] \in Nat
  BY ShippedNatural
<1>5. InvoicedIssued(o) = SumOf(w, Issued)
  <2>1. InvoicedIssued(o) = ColumnSum(invoice, Issued)
    BY DEF InvoicedIssued, ColumnSum, MapThenSumSet, MapThenFoldSet
  <2> QED
    BY <2>1, ColumnSummed DEF Billing
<1>6. /\ Issued \subseteq DOMAIN w /\ All \subseteq DOMAIN shipped
      /\ IsFiniteSet(Issued) /\ IsFiniteSet(All)
      /\ \A i \in Issued : w[i] \in Nat /\ i \in All /\ w[i] <= shipped[i]
      /\ \A i \in All : shipped[i] \in Nat
  BY <1>1, <1>2, <1>3, <1>4 DEF Billing
<1>7. ShippedFor(o) = SumOf(shipped, All)
  BY ShippedIsSum
<1> HIDE DEF Issued, All, w
<1>8. SumOf(w, Issued) \in Nat /\ SumOf(shipped, All) \in Nat /\ SumOf(w, Issued) <= SumOf(shipped, All)
  BY <1>6, SumGrows
<1>9. order[o].quantity \in Nat
  BY NamesAssumption DEF DocumentsInv, OrdersFit, OrderRow
<1>10. order[o].quantity <= InvoicedIssued(o)
  BY <1>5, <1>8, <1>9 DEF Outstanding, Stock!AtLeastZero
<1> QED
  BY <1>5, <1>7, <1>8, <1>9, <1>10 DEF GoneFor

\* Orders and requests say that goods have gone only when they have.
LEMMA ClaimsNext ==
  ASSUME OneAtATime, DocumentsAgree, DocumentsAgree', ShipsAutomatically, ClaimsHold, [Next]_vars
  PROVE  ClaimsHold'
<1>1. DocumentsInv /\ HandlersFit /\ \A s \in Slots : StillAsRead(s)
  BY DEF DocumentsAgree, Reached, DocumentsInv, SequentialInv
<1>2. ASSUME NEW o \in Orders, AssertsGoodsHaveLeft(order'[o].status)
      PROVE  GoneFor(o)'
  <2>1. CASE order'[o] = order[o]
    <3>1. GoneFor(o) /\ AssertsGoodsHaveLeft(order[o].status)
      BY <1>2, <2>1 DEF ClaimsHold
    <3>2. ASSUME NEW s \in Slots, ReturnGoods(s) PROVE invoice[slot[s].invoice].line # Line(o)
      <4>1. PICK i \in Invoices : i = slot[s].invoice
        BY <1>1, <3>2, CallsFrom DEF HandlersFit, LocalsFit, InvoiceSteps
      <4>2. invoice[i].order # NoOrder => ~AssertsGoodsHaveLeft(order[invoice[i].order].status)
        BY <3>2, <4>1, CallsFrom DEF ClaimsHold
      <4>3. invoice[i].line = Line(o) => invoice[i].order = o
        <5>1. Line(o)[1] = o /\ Line(o) # NoLine
          BY NamesAssumption DEF Line, NoLine
        <5> QED
          BY <5>1 DEF DocumentsAgree, LinksFit
      <4> QED
        BY <3>1, <4>1, <4>2, <4>3, NamesAssumption
    <3> QED
      BY <2>1, <3>1, <3>2, GoneStays
  <2>2. ASSUME NEW s \in Slots, WriteOrderStatus(s), OrderOf(s) = o,
               order'[o].status = slot[s].status,
               order'[o].quantity = order[o].quantity, order'[o].line = order[o].line
        PROVE  GoneFor(o)'
    <3>1. GoneFor(o)
      BY <1>2, <2>2, CallsFrom DEF ClaimsHold, OrderOf
    <3>2. \A r \in Slots : ~ReturnGoods(r)
      BY <2>2, CallsFrom DEF OneAtATime
    <3> QED
      BY <2>2, <3>1, <3>2, GoneStays
  <2> QED
    BY <1>1, <1>2, <2>1, <2>2, OrderMovesSo DEF OrderMoves
<1>3. ASSUME NEW s \in Slots, slot'[s].step = "status.write", AssertsGoodsHaveLeft(slot'[s].status)
      PROVE  \E o \in Orders : o = slot'[s].order /\ GoneFor(o)'
  <2>1. CASE BeginOrderRequest(s)
    <3>1. PICK o \in Orders, status \in OrderStatuses : ReadOrderToSetStatus(s, o, status)
      BY <1>1, <1>3, <2>1, OrderRequestLocals, Zenon DEF BeginOrderRequest
    <3>2. slot'[s].order = o /\ slot'[s].status = status
      BY <1>1, <3>1, OrderRequestLocals
    <3>3. /\ order' = order /\ invoice' = invoice
          /\ Outstanding(o, InvoicedIssued(o)) = 0
      BY <1>3, <3>1, <3>2, Zenon DEF ReadOrderToSetStatus
    <3>4. GoneFor(o)
      BY <1>1, <3>3, IssuedHasLeft DEF DocumentsAgree
    <3>5. \A r \in Slots : ~ReturnGoods(r)
      BY <2>1, CallsFrom DEF OneAtATime
    <3> QED
      BY <3>2, <3>3, <3>4, <3>5, GoneStays
  <2>2. CASE BeginInvoiceRequest(s)
    BY <1>1, <1>3, <2>2, InvoiceRequestLocals DEF ReadOf
  <2>3. CASE Step(s) \/ Abandon(s)
    BY <1>1, <1>3, <2>3, CallLeads DEF Leads
  <2>4. CASE SingleCall \/ UNCHANGED vars
    <3> SUFFICES ASSUME slot' = slot
                 PROVE  \E o \in Orders : o = slot'[s].order /\ GoneFor(o)'
      BY <2>4, Zenon DEF SingleCall, CreateOrder, CreateInvoice, Pay, SetDispatch, StockIn, StockOut,
                         Stock!Receive, Stock!Remove, vars
    <3>1. PICK o \in Orders : o = slot[s].order
      BY <1>1, <1>3 DEF HandlersFit, LocalsFit, OrderSteps
    <3>2. GoneFor(o)
      BY <1>3, <3>1 DEF ClaimsHold
    <3>3. \A r \in Slots : slot[r].step = "status.write" /\ slot'[r].step = "status.write"
      BY <1>3 DEF OneAtATime
    <3>4. order[o].status # "none"
      BY <1>1, <3>1, <3>3 DEF StillAsRead, OrderTransitions
    <3>5. order'[o] = order[o]
      BY <1>1, <2>4, <3>4, SingleCallsLeave
    <3>6. \A r \in Slots : ~ReturnGoods(r)
      BY <3>3, CallsFrom
    <3> QED
      BY <3>1, <3>2, <3>5, <3>6, GoneStays
  <2> QED
    BY <2>1, <2>2, <2>3, <2>4, Zenon DEF Next, OneAtATime
<1>4. ASSUME NEW s \in Slots, slot'[s].step \in {"cancel.write", "cancel.return"}
      PROVE  \E i \in Invoices :
               /\ i = slot'[s].invoice
               /\ invoice'[i].order # NoOrder
                    => ~AssertsGoodsHaveLeft(order'[invoice'[i].order].status)
  <2>1. CASE BeginOrderRequest(s)
    BY <1>1, <1>4, <2>1, OrderRequestLocals, Zenon DEF BeginOrderRequest
  <2>2. CASE BeginInvoiceRequest(s)
    <3>1. PICK i \in Invoices : slot'[s].invoice = i /\ ReadOf(slot'[s].step, i)
      BY <1>1, <2>2, InvoiceRequestLocals
    <3>2. order' = order /\ invoice' = invoice
      BY <2>2, CallsFrom, CallsLeave DEF InvoicesRest
    <3> QED
      BY <1>4, <3>1, <3>2 DEF ReadOf
  <2>3. CASE Step(s) \/ Abandon(s)
    <3>1. WriteCancelled(s) /\ slot'[s].invoice = slot[s].invoice
      BY <1>1, <1>4, <2>3, CallLeads DEF Leads, InvoiceWatched
    <3>2. PICK i \in Invoices : i = slot[s].invoice
      BY <1>1, <3>1, CallsFrom DEF HandlersFit, LocalsFit, InvoiceSteps
    <3>3. InvoiceNow(i, "cancelled", invoice[i].order, invoice[i].quantity, invoice[i].line)
      BY <1>1, <3>1, <3>2, InvoiceCalls DEF InvoiceOf
    <3>4. order' = order
      BY <3>1, CallsLeave DEF InvoiceWrites
    <3>5. invoice[i].order # NoOrder => ~AssertsGoodsHaveLeft(order[invoice[i].order].status)
      BY <3>1, <3>2, CallsFrom DEF ClaimsHold
    <3> QED
      BY <3>1, <3>2, <3>3, <3>4, <3>5 DEF InvoiceNow
  <2>4. CASE SingleCall \/ UNCHANGED vars
    <3>1. slot' = slot
      BY <2>4, Zenon DEF SingleCall, CreateOrder, CreateInvoice, Pay, SetDispatch, StockIn, StockOut,
                         Stock!Receive, Stock!Remove, vars
    <3>2. PICK i \in Invoices : i = slot[s].invoice
      BY <1>1, <1>4, <3>1 DEF HandlersFit, LocalsFit, InvoiceSteps
    <3>3. invoice[i].status # "none"
      BY <1>4, <3>1, <3>2 DEF DocumentsAgree, InvoiceAsRead
    <3>4. invoice'[i].order = invoice[i].order
      BY <1>1, <2>4, <3>3, SingleCallsLeave
    <3>5. PICK o : o = invoice[i].order
      OBVIOUS
    <3>6. o # NoOrder => ~AssertsGoodsHaveLeft(order[o].status)
      BY <1>4, <3>1, <3>2, <3>5 DEF ClaimsHold
    <3>7. o \in Orders \cup {NoOrder}
      BY <1>1, <3>5 DEF DocumentsInv, InvoicesFit, InvoiceRow
    <3>8. ASSUME o \in Orders PROVE ~AssertsGoodsHaveLeft(order[o].status) => ~AssertsGoodsHaveLeft(order'[o].status)
      <4>1. order'[o] = order[o] \/ order'[o].status = "draft"
        BY <1>1, <2>4, <3>8, SingleCallsLeave
      <4> QED
        BY <4>1 DEF AssertsGoodsHaveLeft
    <3> QED
      BY <3>1, <3>2, <3>4, <3>5, <3>6, <3>7, <3>8
  <2> QED
    BY <2>1, <2>2, <2>3, <2>4, Zenon DEF Next, OneAtATime
<1>5. ClaimsHold' <=>
        /\ \A o \in Orders : AssertsGoodsHaveLeft(order'[o].status) => GoneFor(o)'
        /\ \A s \in Slots : slot'[s].step = "status.write" /\ AssertsGoodsHaveLeft(slot'[s].status)
                              => GoneFor(slot[s].order)'
        /\ \A s \in Slots : slot'[s].step \in {"cancel.write", "cancel.return"} =>
             LET o == invoice'[slot'[s].invoice].order IN
             o # NoOrder => ~AssertsGoodsHaveLeft(order'[o].status)
  BY DEF ClaimsHold
<1> QED
  BY <1>2, <1>3, <1>4, <1>5

\* With dispatch on, which only an admin turns off.
GoodsInv == ShipsAutomatically => GoodsOut /\ ClaimsHold

\* An invoice's goods are out exactly while it is issued, and an order that
\* reads shipped or delivered has shipped all it promised: with requests that
\* run one at a time, each to its end, and a dispatch warehouse that stays.
THEOREM GoodsFollowDocuments ==
  OneAtATime /\ ~MayAbandon /\ "dispatch.set" \notin Requests
    => (Spec => []GoodsMatchDocuments)
<1> SUFFICES ASSUME OneAtATime, ~MayAbandon, "dispatch.set" \notin Requests
             PROVE  Spec => []GoodsMatchDocuments
  OBVIOUS
<1> DEFINE Now == Reached /\ LinksFit /\ (\A s \in Slots : InvoiceAsRead(s)) /\ ShippedFits
<1>1. Init => GoodsInv
  <2> SUFFICES ASSUME Init PROVE GoodsInv
    OBVIOUS
  <2>1. \A s \in Slots : slot[s].step = "idle"
    BY IdleFits DEF Init
  <2>2. /\ \A o \in Orders : order[o].status = "none"
        /\ \A i \in Invoices : invoice[i].status = "none" /\ shipped[i] = 0
    BY DEF Init
  <2> QED
    BY <2>1, <2>2 DEF GoodsInv, GoodsOut, ClaimsHold, OutFor, InTransit, IsIssued,
                      AssertsGoodsHaveLeft
<1>2. ASSUME Now, Now', GoodsInv, [Next]_vars PROVE GoodsInv'
  <2>1. dispatch' = dispatch
    <3>1. SingleCall \/ UNCHANGED vars => dispatch' = dispatch
      BY Zenon DEF SingleCall, CreateOrder, CreateInvoice, Pay, SetDispatch, StockIn, StockOut, vars
    <3> QED
      BY <1>2, <3>1, CallsLeave, NextForms
  <2> SUFFICES ASSUME ShipsAutomatically PROVE GoodsOut' /\ ClaimsHold'
    BY <2>1 DEF GoodsInv, ShipsAutomatically
  <2>2. GoodsOut /\ ClaimsHold
    BY <1>2 DEF GoodsInv
  <2>3. GoodsOut'
    BY <1>2, <2>2, GoodsOutNext DEF Reached
  <2>4. DocumentsAgree /\ DocumentsAgree'
    BY <1>2, <2>2, <2>3 DEF DocumentsAgree
  <2> QED
    BY <1>2, <2>2, <2>3, <2>4, ClaimsNext
<1>3. ASSUME GoodsInv PROVE GoodsMatchDocuments
  <2>1. ASSUME Quiet, ShipsAutomatically, NEW i \in Invoices
        PROVE  shipped[i] = IF IsIssued(invoice[i].status) THEN invoice[i].quantity ELSE 0
    <3>1. OutFor(i) <=> IsIssued(invoice[i].status)
      BY <2>1 DEF OutFor, InTransit, Quiet, At
    <3> QED
      BY <1>3, <2>1, <3>1 DEF GoodsInv, GoodsOut
  <2>2. ASSUME ShipsAutomatically, NEW o \in Orders, AssertsGoodsHaveLeft(order[o].status)
        PROVE  ShippedFor(o) >= order[o].quantity
    BY <1>3, <2>2 DEF GoodsInv, ClaimsHold, GoneFor
  <2> QED
    BY <2>1, <2>2 DEF GoodsMatchDocuments, IssuedMeansShipped, GoneMeansGone
<1>4. TypeOK => ShippedFits
  BY DEF TypeOK, ShippedFits
<1>5. Spec => []Now
  <2>1. OneInFlight
    BY DEF OneAtATime, OneInFlight
  <2> QED
    BY <1>4, <2>1, SequentialAlways, LinksAlways, InvoicesAsRead, TypeCorrect, PTL
<1> QED
  BY <1>1, <1>2, <1>3, <1>5, PTL DEF Spec
=============================================================================
