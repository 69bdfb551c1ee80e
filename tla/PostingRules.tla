---------------------------- MODULE PostingRules ----------------------------
(***************************************************************************)
(* Which journal entries a document is worth: the pure functions of        *)
(* accounting/domain/posting.rs.  A leg names the two roles it debits and  *)
(* credits; the mapping an administrator chose says which accounts play    *)
(* them.  Amounts are in the base currency, and what a document is worth   *)
(* is given: how it is restated and rounded is not modelled.               *)
(***************************************************************************)
EXTENDS Integers

CONSTANTS
  Documents,   \* the documents that may come to be
  Kind,        \* Documents -> Kinds
  Worth,       \* Documents -> [net, tax, goods : Nat, fx : Int]
  NoAccount    \* a role nobody has filled

Kinds ==
  {"invoice", "payment", "creditNote", "receipt", "purchaseReturn",
   "vendorPayment", "expense", "movement"}

\* Amounts stay positive: the ledger has no notion of a negative posting.  What
\* the rate did goes either way.
ASSUME WorthAssumption ==
  Worth \in [Documents -> [net : Nat, tax : Nat, goods : Nat, fx : Int]]

-----------------------------------------------------------------------------
OptionalRoles == {"inventory", "inventoryAdjustment"}
RequiredRoles ==
  {"ar", "bank", "salesRevenue", "taxPayable", "fxGainLoss", "accountsPayable",
   "costOfSales", "purchaseTax", "employeePayable", "employeeExpense"}
Roles == RequiredRoles \cup OptionalRoles

\* The roles for an asset or an expense; the others are for an account of one of
\* the remaining types.
DebitRoles ==
  {"ar", "bank", "costOfSales", "purchaseTax", "employeeExpense", "inventory",
   "inventoryAdjustment"}

\* AccountMapping::complete: posting is on when every required role is filled.
Complete(m) == \A r \in RequiredRoles : m[r] # NoAccount

\* InventoryMapping::complete: the optional pair switches perpetual costing on.
Perpetual(m) == \A r \in OptionalRoles : m[r] # NoAccount

-----------------------------------------------------------------------------
Leg(name, debit, credit, amount) ==
  [name |-> name, debit |-> debit, credit |-> credit, amount |-> amount]

Swapped(l) == Leg(l.name, l.credit, l.debit, l.amount)

InvoiceLegs(d) ==
  {Leg("revenue", "ar", "salesRevenue", Worth[d].net),
   Leg("tax", "ar", "taxPayable", Worth[d].tax)}

\* Variant: a note takes back the revenue and leaves the tax.
CreditNoteLegsNoTax(d, returned, perpetual) ==
  {Swapped(l) : l \in {k \in InvoiceLegs(d) : k.name # "tax"}}
    \cup IF perpetual THEN {Leg("stock", "inventory", "costOfSales", returned)} ELSE {}

\* The mirror of an invoice, and the goods that came back with it if any did.
CreditNoteLegs(d, returned, perpetual) ==
  {Swapped(l) : l \in InvoiceLegs(d)}
    \cup IF perpetual THEN {Leg("stock", "inventory", "costOfSales", returned)} ELSE {}

\* What the rate did since the document: a gain debits the control account.
FxLegs(d, control) ==
  LET fx == Worth[d].fx IN
  IF fx > 0 THEN {Leg("fx", control, "fxGainLoss", fx)}
            ELSE {Leg("fx", "fxGainLoss", control, -fx)}

PaymentLegs(d) ==
  {Leg("settlement", "bank", "ar", Worth[d].net)} \cup FxLegs(d, "ar")

VendorPaymentLegs(d) ==
  {Leg("settlement", "accountsPayable", "bank", Worth[d].net)}
    \cup FxLegs(d, "accountsPayable")

\* Under periodic costing all of a delivery is a cost on arrival.
ReceiptLegs(d, perpetual) ==
  LET stocked == IF perpetual THEN Worth[d].goods ELSE 0
      expensed == Worth[d].net + Worth[d].goods - stocked IN
  {Leg("stock", "inventory", "accountsPayable", stocked),
   Leg("cost", "costOfSales", "accountsPayable", expensed),
   Leg("tax", "purchaseTax", "accountsPayable", Worth[d].tax)}

ReturnLegs(d, perpetual) == {Swapped(l) : l \in ReceiptLegs(d, perpetual)}

ApprovalLegs(d) ==
  {Leg("expense", "employeeExpense", "employeePayable", Worth[d].net)}

ReimbursementLegs(d) ==
  {Leg("reimbursement", "employeePayable", "bank", Worth[d].net)}

\* Variant: a transfer between warehouses is booked as if the goods had left.
MovementLegsOfTransfers(d, way, perpetual) ==
  LET other == IF way = "out" \/ (way = "in" /\ Kind[d] = "invoice")
                 THEN "costOfSales" ELSE "inventoryAdjustment"
      inward == Leg(way, "inventory", other, Worth[d].goods) IN
  IF ~perpetual THEN {}
  ELSE IF way \in {"in", "gain"} THEN {inward} ELSE {Swapped(inward)}

\* Stock that moved for an invoice or by hand: an outward movement is a cost of
\* sale, an adjustment is not, and what comes back from a cancelled sale gives
\* its cost back.  Other documents post their own stock legs.
MovementLegs(d, way, perpetual) ==
  LET other == IF way = "out" \/ (way = "in" /\ Kind[d] = "invoice")
                 THEN "costOfSales" ELSE "inventoryAdjustment"
      inward == Leg(way, "inventory", other, Worth[d].goods) IN
  IF ~perpetual \/ way = "transfer" THEN {}
  ELSE IF way \in {"in", "gain"} THEN {inward} ELSE {Swapped(inward)}

\* What a document posts when it comes to be.
DocumentLegs(d, perpetual) ==
  [invoice        |-> InvoiceLegs(d),
   payment        |-> PaymentLegs(d),
   creditNote     |-> CreditNoteLegs(d, Worth[d].goods, perpetual),
   receipt        |-> ReceiptLegs(d, perpetual),
   purchaseReturn |-> ReturnLegs(d, perpetual),
   vendorPayment  |-> VendorPaymentLegs(d),
   expense        |-> ApprovalLegs(d),
   movement       |-> {}][Kind[d]]

-----------------------------------------------------------------------------
(* From legs to rows of the ledger *)

\* nth tells apart the movements of one document: each has an id of its own.
Key(d, leg, nth, reversal) ==
  [doc |-> d, leg |-> leg, nth |-> nth, reversal |-> reversal]

\* Variant: a leg of nothing is written as well.
RowsOfAllLegs(d, legs, nth, m) ==
  {[key |-> Key(d, l.name, nth, FALSE), debit |-> m[l.debit],
    credit |-> m[l.credit], amount |-> l.amount] : l \in legs}

\* A zero leg is not written at all.
Rows(d, legs, nth, m) ==
  {[key |-> Key(d, l.name, nth, FALSE), debit |-> m[l.debit],
    credit |-> m[l.credit], amount |-> l.amount] :
      l \in {k \in legs : k.amount # 0}}

\* PlannedEntry::reversed: the sides swapped, under a key of its own.
Reversed(rows) ==
  {[key |-> [r.key EXCEPT !.reversal = TRUE], debit |-> r.credit,
    credit |-> r.debit, amount |-> r.amount] : r \in rows}
=============================================================================
