--------------------------- MODULE ValuationProofs --------------------------
(***************************************************************************)
(* That what the stock is worth is what the Inventory account carries, for *)
(* any documents, mappings and handlers.  The invariant of PostingProofs   *)
(* says what each handler has left to do; this one adds up what all of the *)
(* goods put on one account: what is booked, what is on its way into the   *)
(* books, and what documents are ahead of them or behind.                  *)
(***************************************************************************)
EXTENDS PostingProofs

-----------------------------------------------------------------------------
(* What the Inventory account carries *)

\* The Inventory account is one account with no other role: so the administrator
\* keeps it.
GoodsOn(a) ==
  \A m \in Mappings :
    /\ Perpetual(m) => m["inventory"] = a
    /\ Complete(m) => \A q \in Roles : m[q] = a => q = "inventory"

StockAccountKept == \E a \in Accounts : GoodsOn(a)

\* What a movement changes the worth of the stock by.
Gain(d, way) ==
  IF way = "transfer" THEN 0
  ELSE IF Leaves(way) THEN -Worth[d].goods ELSE Worth[d].goods

\* The documents that book their goods themselves, and what these are worth.
Stocks(d) == Kind[d] \in {"creditNote", "receipt", "purchaseReturn"}
Way(d) == IF Kind[d] = "purchaseReturn" THEN "out" ELSE "in"
Brings(d) == IF Stocks(d) THEN Gain(d, Way(d)) ELSE 0

\* The legs that name stock, and the others.
Inward(d, other) == Leg("stock", "inventory", other, Worth[d].goods)
StockLeg(d) ==
  IF Kind[d] = "creditNote" THEN Inward(d, "costOfSales")
  ELSE IF Kind[d] = "receipt" THEN Inward(d, "accountsPayable")
  ELSE Swapped(Inward(d, "accountsPayable"))
OffStock(l) == l.name # "stock" /\ l.debit # "inventory" /\ l.credit # "inventory"

\* Every leg but one keeps off the Inventory account, under perpetual costing or
\* not; that one is of the goods, and there only under perpetual costing.
LEMMA StockLegs ==
  ASSUME NEW d \in Documents, NEW p \in BOOLEAN
  PROVE  /\ \A l \in DocumentLegs(d, p) :
              OffStock(l) \/ l.amount = 0 \/ (p /\ Stocks(d) /\ l = StockLeg(d))
         /\ \A l \in CreditNoteLegs(d, 0, p) : OffStock(l) \/ l.amount = 0
         /\ \A l \in ReimbursementLegs(d) : OffStock(l)
         /\ p /\ Stocks(d) => StockLeg(d) \in DocumentLegs(d, p)
<1>1. Kind[d] \in Kinds
  BY DocumentsAssumption
<1>2. \A l \in InvoiceLegs(d) : OffStock(l) /\ OffStock(Swapped(l))
  BY DEF InvoiceLegs, OffStock, Swapped, Leg
<1>3. \A n : \A l \in CreditNoteLegs(d, n, p) :
        OffStock(l) \/ (p /\ l = Leg("stock", "inventory", "costOfSales", n))
  BY <1>2 DEF CreditNoteLegs
<1>4. \A l \in PaymentLegs(d) \cup VendorPaymentLegs(d) : OffStock(l)
  BY DEF PaymentLegs, VendorPaymentLegs, FxLegs, OffStock, Leg
<1>5. \A l \in ApprovalLegs(d) \cup ReimbursementLegs(d) : OffStock(l)
  BY DEF ApprovalLegs, ReimbursementLegs, OffStock, Leg
<1>6. \A l \in ReceiptLegs(d, p) :
        /\ OffStock(l) \/ l.amount = 0 \/ (p /\ l = Inward(d, "accountsPayable"))
        /\ OffStock(Swapped(l)) \/ Swapped(l).amount = 0
             \/ (p /\ Swapped(l) = Swapped(Inward(d, "accountsPayable")))
  BY DEF ReceiptLegs, OffStock, Leg, Swapped, Inward
<1>7. /\ p => Inward(d, "accountsPayable") \in ReceiptLegs(d, p)
      /\ p => Inward(d, "costOfSales") \in CreditNoteLegs(d, Worth[d].goods, p)
  BY DEF ReceiptLegs, CreditNoteLegs, Inward
<1>8. CASE Kind[d] = "creditNote"
  <2>1. /\ DocumentLegs(d, p) = CreditNoteLegs(d, Worth[d].goods, p)
        /\ Stocks(d) /\ StockLeg(d) = Inward(d, "costOfSales")
    BY <1>8 DEF DocumentLegs, Stocks, StockLeg
  <2> QED
    BY <1>3, <1>5, <1>7, <2>1 DEF Inward, Leg
<1>9. CASE Kind[d] = "receipt"
  <2>1. /\ DocumentLegs(d, p) = ReceiptLegs(d, p)
        /\ Stocks(d) /\ StockLeg(d) = Inward(d, "accountsPayable")
    BY <1>9 DEF DocumentLegs, Stocks, StockLeg
  <2> QED
    BY <1>3, <1>5, <1>6, <1>7, <2>1 DEF Leg
<1>10. CASE Kind[d] = "purchaseReturn"
  <2>1. /\ DocumentLegs(d, p) = {Swapped(l) : l \in ReceiptLegs(d, p)}
        /\ Stocks(d) /\ StockLeg(d) = Swapped(Inward(d, "accountsPayable"))
    BY <1>10 DEF DocumentLegs, Stocks, StockLeg, ReturnLegs
  <2> QED
    BY <1>3, <1>5, <1>6, <1>7, <2>1 DEF Leg
<1>11. CASE Kind[d] \notin {"creditNote", "receipt", "purchaseReturn"}
  <2>1. /\ \/ DocumentLegs(d, p) = InvoiceLegs(d) \/ DocumentLegs(d, p) = PaymentLegs(d)
           \/ DocumentLegs(d, p) = VendorPaymentLegs(d)
           \/ DocumentLegs(d, p) = ApprovalLegs(d) \/ DocumentLegs(d, p) = {}
        /\ ~Stocks(d)
    BY <1>1, <1>11 DEF DocumentLegs, Stocks, Kinds
  <2> QED
    BY <1>2, <1>3, <1>4, <1>5, <2>1 DEF Leg
<1> QED
  BY <1>8, <1>9, <1>10, <1>11

\* What an entry does to an account that is debited, and to one it does not name.
LEMMA EffectOn ==
  ASSUME NEW a \in Accounts, NEW e, e.amount \in Int
  PROVE  /\ e.debit # a /\ e.credit # a => Effect(e, a, Accounts) = 0
         /\ e.debit = a /\ e.credit # a => Effect(e, a, Accounts) = e.amount
         /\ e.debit # a /\ e.credit = a => Effect(e, a, Accounts) = -e.amount
BY DEF Effect

\* Entries that do nothing to an account do nothing to it together, however many.
LEMMA NothingTotals ==
  ASSUME NEW rows, Countable(rows), NEW a, \A e \in rows : Effect(e, a, Accounts) = 0
  PROVE  Total(rows, a, Accounts) = 0
<1> DEFINE w == Effects(rows, a, Accounts)
<1>1. Total(rows, a, Accounts) = SumOf(w, rows)
  BY TotalSummed
<1>2. IsFiniteSet(rows) /\ rows \subseteq DOMAIN w /\ \A e \in rows : w[e] \in Nat /\ w[e] = 0
  BY DEF Countable, Effects
<1> HIDE DEF w
<1> QED
  BY <1>1, <1>2, SumNatural

\* The Inventory account plays its own role under perpetual costing, and no other.
LEMMA StockRoles ==
  ASSUME NEW a \in Accounts, GoodsOn(a), NEW m \in Mappings, Complete(m)
  PROVE  /\ m \in PostingAccounts
         /\ Perpetual(m) => m["inventory"] = a
         /\ \A q \in Roles : q # "inventory" => m[q] # a
         /\ {"inventory", "costOfSales", "inventoryAdjustment", "accountsPayable"} \subseteq Roles
<1>1. m \in PostingAccounts
  BY MappingsAssumption
<1>2. /\ Perpetual(m) => m["inventory"] = a
      /\ \A q \in Roles : m[q] = a => q = "inventory"
  BY Zenon DEF GoodsOn
<1>3. {"inventory", "costOfSales", "inventoryAdjustment", "accountsPayable"} \subseteq Roles
  BY DEF Roles, RequiredRoles, OptionalRoles
<1> QED
  BY <1>1, <1>2, <1>3, Zenon

\* The row of a leg.
RowOf(d, l, nth, m) ==
  [key |-> Key(d, l.name, nth, FALSE), debit |-> m[l.debit],
   credit |-> m[l.credit], amount |-> l.amount]

\* A movement is booked at what it changed the worth of the stock by.
LEMMA MoveWeighs ==
  ASSUME NEW a \in Accounts, GoodsOn(a), NEW d \in Documents, NEW way \in MovementWays,
         NEW n, NEW m \in Mappings, Complete(m), Perpetual(m)
  PROVE  /\ Countable(Rows(d, MovementLegs(d, way, TRUE), n, m)) /\ Gain(d, way) \in Int
         /\ Total(Rows(d, MovementLegs(d, way, TRUE), n, m), a, Accounts) = Gain(d, way)
<1> DEFINE goods == Worth[d].goods
           other == IF way = "out" \/ (way = "in" /\ Kind[d] = "invoice")
                      THEN "costOfSales" ELSE "inventoryAdjustment"
           inward == Leg(way, "inventory", other, goods)
           leg == IF way \in {"in", "gain"} THEN inward ELSE Swapped(inward)
           row == RowOf(d, leg, n, m)
           rows == Rows(d, MovementLegs(d, way, TRUE), n, m)
<1> SUFFICES /\ Countable(rows) /\ Gain(d, way) \in Int
             /\ Total(rows, a, Accounts) = Gain(d, way)
  OBVIOUS
<1>1. goods \in Nat
  BY WorthTyped
<1>2. m["inventory"] = a /\ m[other] # a
  BY StockRoles
<1>3. Countable({}) /\ Total({}, a, Accounts) = 0
  BY TotalOfFew
<1>4. MovementLegs(d, way, TRUE) = IF way = "transfer" THEN {} ELSE {leg}
  BY DEF MovementLegs
<1>5. leg.amount = goods
  BY DEF Leg, Swapped
<1>6. CASE way = "transfer" \/ goods = 0
  <2>1. \A l \in MovementLegs(d, way, TRUE) : l.amount = 0
    <3> HIDE DEF leg
    <3> QED
      BY <1>4, <1>6, <1>5
  <2>2. rows = {}
    BY <2>1 DEF Rows
  <2>3. Gain(d, way) = 0
    BY <1>6 DEF Gain
  <2> HIDE DEF rows
  <2> QED
    BY <1>3, <2>2, <2>3
<1>7. CASE way # "transfer" /\ goods # 0
  <2>2. rows = {row}
    <3> HIDE DEF leg
    <3>1. rows = Rows(d, {leg}, n, m)
      BY <1>4, <1>7
    <3>2. {k \in {leg} : k.amount # 0} = {leg}
      BY <1>7, <1>5
    <3> QED
      BY <3>1, <3>2 DEF Rows, RowOf
  <2>3. row.amount = goods
    BY <1>5 DEF RowOf
  <2>4. Countable({row}) /\ Total({row}, a, Accounts) = Effect(row, a, Accounts)
    <3> HIDE DEF row
    <3> QED
      BY <1>1, <2>3, TotalOfFew
  <2>5. CASE way \in {"in", "gain"}
    <3>1. row.debit = a /\ row.credit # a
      BY <1>2, <2>5 DEF RowOf, Leg
    <3>2. Gain(d, way) = goods
      BY <2>5 DEF Gain, Leaves
    <3> HIDE DEF row
    <3>3. Effect(row, a, Accounts) = goods
      BY <1>1, <2>3, <3>1, EffectOn
    <3> HIDE DEF rows, goods
    <3> QED
      BY <1>1, <2>2, <2>4, <3>2, <3>3
  <2>6. CASE way \in {"out", "loss"}
    <3>1. row.credit = a /\ row.debit # a
      BY <1>2, <2>6 DEF RowOf, Leg, Swapped
    <3>2. Gain(d, way) = -goods
      BY <2>6 DEF Gain, Leaves
    <3> HIDE DEF row
    <3>3. Effect(row, a, Accounts) = -goods
      BY <1>1, <2>3, <3>1, EffectOn
    <3> HIDE DEF rows, goods
    <3> QED
      BY <1>1, <2>2, <2>4, <3>2, <3>3
  <2> QED
    BY <1>7, <2>5, <2>6 DEF MovementWays
<1> QED
  BY <1>6, <1>7

\* Rows that are planned, by the legs they come from.
LEMMA PlannedOf ==
  ASSUME NEW d \in Documents, NEW what, MayPost(d, what), NEW m \in Mappings, Complete(m)
  PROVE  LET legs == Legs(d, what, Perpetual(m)) IN
         /\ Countable(Planned(d, what, m)) /\ LegsFit(legs, Perpetual(m))
         /\ what # "undone" =>
              Planned(d, what, m) = {RowOf(d, l, 0, m) : l \in {k \in legs : k.amount # 0}}
         /\ \A r \in Planned(d, what, m) : \E l \in legs :
              /\ l.amount # 0 /\ r.amount = l.amount /\ r.key.leg = l.name
              /\ {r.debit, r.credit} = {m[l.debit], m[l.credit]}
<1> DEFINE legs == Legs(d, what, Perpetual(m))
           rows == Rows(d, legs, 0, m)
<1>1. Perpetual(m) \in BOOLEAN /\ m \in PostingAccounts
  BY MappingsAssumption DEF Perpetual
<1>2. LegsFit(legs, Perpetual(m))
  BY <1>1, AllLegsFit
<1>3. Planned(d, what, m) = IF what = "undone" THEN Reversed(rows) ELSE rows
  BY DEF Planned, PlannedRows
<1> HIDE DEF legs
<1>4. Bookable(rows) /\ \A r \in rows : ~r.key.reversal
  BY <1>1, <1>2, RowsBookable
<1>5. rows = {RowOf(d, l, 0, m) : l \in {k \in legs : k.amount # 0}}
  BY DEF Rows, RowOf
<1>6. \A r \in rows : \E l \in legs :
        /\ l.amount # 0 /\ r.amount = l.amount /\ r.key.leg = l.name
        /\ r.debit = m[l.debit] /\ r.credit = m[l.credit]
  BY <1>5 DEF RowOf, Key
<1> HIDE DEF rows
<1>7. Bookable(Reversed(rows))
  BY <1>4, ReversedBookable
<1>8. \A r \in Reversed(rows) : \E x \in rows :
        /\ r.amount = x.amount /\ r.key.leg = x.key.leg
        /\ r.debit = x.credit /\ r.credit = x.debit
  <2> DEFINE mirror(x) == [key |-> [x.key EXCEPT !.reversal = TRUE], debit |-> x.credit,
                           credit |-> x.debit, amount |-> x.amount]
  <2>1. ASSUME NEW x \in rows
        PROVE  /\ mirror(x).amount = x.amount /\ mirror(x).key.leg = x.key.leg
               /\ mirror(x).debit = x.credit /\ mirror(x).credit = x.debit
    <3>1. x.key \in Keys
      BY <1>4 DEF Bookable, Entries
    <3> QED
      BY <3>1 DEF Keys
  <2>2. Reversed(rows) = {mirror(x) : x \in rows}
    BY DEF Reversed
  <2> HIDE DEF mirror
  <2> QED
    BY <2>1, <2>2
<1>9. \A some : Bookable(some) => Countable(some)
  BY DEF Bookable, Countable, Entries
<1>10. Countable(Planned(d, what, m))
  BY <1>3, <1>4, <1>7, <1>9
<1>11. ASSUME NEW r \in Planned(d, what, m)
       PROVE  \E l \in legs :
              /\ l.amount # 0 /\ r.amount = l.amount /\ r.key.leg = l.name
              /\ {r.debit, r.credit} = {m[l.debit], m[l.credit]}
  <2>1. CASE r \in rows
    BY <1>6, <2>1
  <2>2. CASE r \in Reversed(rows)
    <3>1. PICK x \in rows : /\ r.amount = x.amount /\ r.key.leg = x.key.leg
                            /\ r.debit = x.credit /\ r.credit = x.debit
      BY <1>8, <2>2
    <3>2. PICK l \in legs : /\ l.amount # 0 /\ x.amount = l.amount /\ x.key.leg = l.name
                            /\ x.debit = m[l.debit] /\ x.credit = m[l.credit]
      BY <1>6
    <3> QED
      BY <3>1, <3>2
  <2> QED
    BY <1>3, <2>1, <2>2
<1> QED
  BY <1>2, <1>3, <1>5, <1>10, <1>11 DEF legs

\* A leg off stock leaves the Inventory account alone, whichever side is which.
LEMMA OffStockRow ==
  ASSUME NEW a \in Accounts, GoodsOn(a), NEW m \in Mappings, Complete(m),
         NEW l, l.debit \in Roles, l.credit \in Roles, OffStock(l),
         NEW r, r.amount \in Int, {r.debit, r.credit} = {m[l.debit], m[l.credit]}
  PROVE  Effect(r, a, Accounts) = 0
<1>1. m[l.debit] # a /\ m[l.credit] # a
  BY StockRoles DEF OffStock
<1>2. r.debit # a /\ r.credit # a
  BY <1>1
<1> QED
  BY <1>2, EffectOn

\* What is planned leaves the Inventory account alone unless it is of a document
\* that books its goods, and perpetual costing is on.
LEMMA PlannedOffStock ==
  ASSUME NEW a \in Accounts, GoodsOn(a), NEW d \in Documents, NEW what, MayPost(d, what),
         NEW m \in Mappings, Complete(m), what = "undone" => ~Stocks(d),
         ~(what = "issued" /\ Stocks(d) /\ Worth[d].goods # 0 /\ Perpetual(m))
  PROVE  \A r \in Planned(d, what, m) : Effect(r, a, Accounts) = 0
<1> DEFINE legs == Legs(d, what, Perpetual(m))
<1>1. Perpetual(m) \in BOOLEAN
  BY DEF Perpetual
<1>2. /\ Countable(Planned(d, what, m)) /\ LegsFit(legs, Perpetual(m))
      /\ \A r \in Planned(d, what, m) : \E l \in legs :
           /\ l.amount # 0 /\ r.amount = l.amount /\ r.key.leg = l.name
           /\ {r.debit, r.credit} = {m[l.debit], m[l.credit]}
  BY PlannedOf
<1>3. \A l \in legs : OffStock(l) \/ l.amount = 0
  <2>1. CASE what = "reimbursed"
    <3>1. legs = ReimbursementLegs(d)
      BY <2>1, PostingLegs
    <3> QED
      BY <1>1, <3>1, StockLegs
  <2>2. CASE what = "repaired"
    <3>1. legs = CreditNoteLegs(d, 0, Perpetual(m))
      BY <2>2, PostingLegs
    <3> QED
      BY <1>1, <3>1, StockLegs
  <2>3. CASE what \in {"issued", "undone"}
    <3>1. legs = DocumentLegs(d, Perpetual(m))
      BY <2>3, PostingLegs
    <3>2. StockLeg(d).amount = Worth[d].goods
      BY DEF StockLeg, Inward, Swapped, Leg
    <3>3. \A l \in legs :
            OffStock(l) \/ l.amount = 0 \/ (Perpetual(m) /\ Stocks(d) /\ l = StockLeg(d))
      BY <1>1, <3>1, StockLegs
    <3> HIDE DEF legs
    <3> QED
      BY <2>3, <3>2, <3>3
  <2> QED
    BY <2>1, <2>2, <2>3 DEF MayPost
<1> HIDE DEF legs
<1>4. ASSUME NEW r \in Planned(d, what, m) PROVE Effect(r, a, Accounts) = 0
  <2>1. PICK l \in legs : /\ l.amount # 0 /\ r.amount = l.amount
                          /\ {r.debit, r.credit} = {m[l.debit], m[l.credit]}
    BY <1>2
  <2>2. l.debit \in Roles /\ l.credit \in Roles /\ r.amount \in Int
    BY <1>2, <2>1 DEF LegsFit, LegFits
  <2>3. OffStock(l)
    BY <1>3, <2>1
  <2> QED
    BY <2>1, <2>2, <2>3, OffStockRow
<1> QED
  BY <1>4

\* All that a document books when perpetual costing is on.
BookedFull(rows, d) ==
  \E m \in Mappings : Complete(m) /\ Perpetual(m) /\ rows = Planned(d, "issued", m)

\* A document that books its goods then puts them on the Inventory account, at what
\* they are worth.
LEMMA PlannedStock ==
  ASSUME NEW a \in Accounts, GoodsOn(a), NEW d \in Documents, Stocks(d), Worth[d].goods # 0,
         NEW rows, BookedFull(rows, d)
  PROVE  /\ Countable(rows) /\ rows # {} /\ Brings(d) \in Int
         /\ Total(rows, a, Accounts) = Brings(d)
<1> DEFINE goods == Worth[d].goods
           leg == StockLeg(d)
<1>1. PICK m \in Mappings : Complete(m) /\ Perpetual(m) /\ rows = Planned(d, "issued", m)
  BY DEF BookedFull
<1> DEFINE legs == Legs(d, "issued", TRUE)
           row == RowOf(d, leg, 0, m)
           rest == rows \ {row}
<1>2. MayPost(d, "issued") /\ Perpetual(m) = TRUE /\ "issued" # "undone"
  BY <1>1 DEF MayPost, Perpetual
<1>3. goods \in Nat \ {0} /\ leg.amount = goods
  BY WorthTyped DEF StockLeg, Inward, Swapped, Leg
<1>4. legs = DocumentLegs(d, TRUE)
  BY <1>2, PostingLegs
<1>5. leg \in legs /\ \A l \in legs : OffStock(l) \/ l.amount = 0 \/ l = leg
  BY <1>4, StockLegs
<1>6. /\ Countable(rows) /\ LegsFit(legs, TRUE)
      /\ rows = {RowOf(d, l, 0, m) : l \in {k \in legs : k.amount # 0}}
  BY <1>1, <1>2, PlannedOf
<1>7. /\ m["inventory"] = a
      /\ \A q \in Roles : q # "inventory" => m[q] # a
      /\ {"costOfSales", "accountsPayable"} \subseteq Roles
  BY <1>1, StockRoles
<1>8. row.amount = goods /\ row \in rows
  BY <1>3, <1>5, <1>6 DEF RowOf
<1>9. Brings(d) \in Int /\ Effect(row, a, Accounts) = Brings(d)
  <2>1. CASE Kind[d] \in {"creditNote", "receipt"}
    <3>1. row.debit = a /\ row.credit # a
      BY <1>7, <2>1 DEF RowOf, StockLeg, Inward, Leg
    <3>2. Brings(d) = goods
      BY <2>1 DEF Brings, Gain, Way, Stocks, Leaves
    <3> HIDE DEF row, goods
    <3> QED
      BY <1>3, <1>8, <3>1, <3>2, EffectOn
  <2>2. CASE Kind[d] = "purchaseReturn"
    <3>1. row.credit = a /\ row.debit # a
      BY <1>7, <2>2 DEF RowOf, StockLeg, Inward, Leg, Swapped
    <3>2. Brings(d) = -goods
      BY <2>2 DEF Brings, Gain, Way, Stocks, Leaves
    <3> HIDE DEF row, goods
    <3> QED
      BY <1>3, <1>8, <3>1, <3>2, EffectOn
  <2> QED
    BY <2>1, <2>2 DEF Stocks
<1> HIDE DEF leg, legs
<1>10. \A r \in rest : Effect(r, a, Accounts) = 0
  <2>1. ASSUME NEW r \in rest PROVE Effect(r, a, Accounts) = 0
    <3>1. PICK l \in legs : l.amount # 0 /\ r = RowOf(d, l, 0, m)
      BY <1>6
    <3>2. OffStock(l)
      BY <1>5, <3>1
    <3>3. l.debit \in Roles /\ l.credit \in Roles /\ l.amount \in Int
      BY <1>6 DEF LegsFit, LegFits
    <3>4. r.amount = l.amount /\ {r.debit, r.credit} = {m[l.debit], m[l.credit]}
      BY <3>1 DEF RowOf
    <3> QED
      BY <1>1, <3>2, <3>3, <3>4, OffStockRow
  <2> QED
    BY <2>1
<1> HIDE DEF row, goods
<1>11. Countable(rest) /\ Countable({row}) /\ Total({row}, a, Accounts) = Effect(row, a, Accounts)
  <2>1. Countable(rest)
    BY <1>6, FS_Subset DEF Countable
  <2> QED
    BY <1>3, <1>8, <2>1, TotalOfFew
<1>12. Total(rest, a, Accounts) = 0
  BY <1>10, <1>11, NothingTotals
<1>13. rows = {row} \cup rest /\ {row} \cap rest = {}
  BY <1>8
<1> HIDE DEF rest
<1>14. Total({row} \cup rest, a, Accounts) = Total({row}, a, Accounts) + Total(rest, a, Accounts)
  BY <1>11, <1>13, TotalJoined
<1>15. Total(rows, a, Accounts) = Total({row} \cup rest, a, Accounts)
  BY <1>13, Zenon
<1>16. Total(rows, a, Accounts) = Brings(d)
  BY <1>9, <1>11, <1>12, <1>14, <1>15
<1> QED
  BY <1>6, <1>8, <1>9, <1>16, Zenon

-----------------------------------------------------------------------------
(* Goods on their way into the books *)

\* The calls of a list, in any order.
CallsOf(q) == {q[i] : i \in DOMAIN q}

\* A movement that has been made and is still to be booked.
IsMoved(c) == c.do \in {"plan", "commit"} /\ c.what \in MovementWays
Carries(q) == IF q # <<>> /\ IsMoved(Head(q)) THEN Gain(Head(q).doc, Head(q).what) ELSE 0

\* Handlers with something to do are finitely many, whatever Slots is.
Active(calls) == {s \in Slots : calls[s] # <<>>}
Along(calls, T) == SumOf([t \in T |-> Carries(calls[t])], T)
InTransit(calls) == Along(calls, Active(calls))

\* Goods of a document that were moved and not booked yet, or booked and not moved.
OnFile(rows, d) == Section(rows, d, "issued")
Gap(moved, rows, d) ==
  (IF moved[d] # 0 THEN Brings(d) ELSE 0) - (IF OnFile(rows, d) # {} THEN Brings(d) ELSE 0)
Gaps(moved, rows) == SumOf([d \in Documents |-> Gap(moved, rows, d)], Documents)

\* Nothing that is worth anything has been left out of the books.
GoodsKept(lacking) == \A d \in Documents : Worth[d].goods # 0 => <<d, "goods">> \notin lacking

\* Which movements are still to be booked: each has a number of its own.
Numbers(c) ==
  IF c.do = "plan" THEN {<<c.doc, c.nth>>} ELSE {<<r.key.doc, r.key.nth>> : r \in c.rows}
Pending(q) == IF q # <<>> /\ IsMoved(Head(q)) THEN Numbers(Head(q)) ELSE {}

Numbered(rows, moved, calls) ==
  /\ \A r \in rows : r.key.nth <= moved[r.key.doc]
  /\ \A s \in Slots : \A p \in Pending(calls[s]) :
       /\ p[1] \in Documents /\ p[2] \in 1..moved[p[1]]
       /\ \A r \in rows : <<r.key.doc, r.key.nth>> # p
  /\ \A s, t \in Slots : s # t => Pending(calls[s]) \cap Pending(calls[t]) = {}

\* A movement is booked in full.
MoveRows(rows, d, way) ==
  \E m \in Mappings, n \in Nat :
    Complete(m) /\ Perpetual(m) /\ rows = Rows(d, MovementLegs(d, way, TRUE), n, m)
MoveBooked(c) == MoveRows(c.rows, c.doc, c.what)

\* Goods come in or go out by themselves, or with the document that books them and
\* that is never undone.
GoodsCall(c) ==
  /\ c.do \in {"plan", "commit"} /\ c.what \in MovementWays \cup {"undone"} => ~Stocks(c.doc)
  /\ c.do = "record" => ~Stocks(c.doc)
  /\ c.do = "apply" => Stocks(c.doc) /\ c.way = Way(c.doc)
  /\ c.do = "commit" /\ c.what \in MovementWays => MoveBooked(c)

Arrival(d) == <<Write(d, "issued"), ApplyMove(d, Way(d)), Plan(d, "issued")>>
Arrives(c) == c.do = "write" /\ Stocks(c.doc)

GoodsFits(q) ==
  /\ \A c \in CallsOf(q) : GoodsCall(c)
  /\ q # <<>> =>
       /\ Arrives(Head(q)) => q = Arrival(Head(q).doc)
       /\ \A c \in CallsOf(Tail(q)) : ~IsMoved(c) /\ ~Arrives(c)

\* The calls of a list are its first and those that follow.
LEMMA CallsShifted ==
  ASSUME NEW q, Fits(q), q # <<>>, NEW c
  PROVE  /\ CallsOf(q) = {Head(q)} \cup CallsOf(Tail(q))
         /\ CallsOf(<<c>> \o Tail(q)) = {c} \cup CallsOf(Tail(q))
         /\ Head(<<c>> \o Tail(q)) = c /\ Tail(<<c>> \o Tail(q)) = Tail(q)
         /\ <<c>> \o Tail(q) # <<>>
         /\ Tail(q) # <<>> =>
              Head(Tail(q)) \in CallsOf(Tail(q)) /\ CallsOf(Tail(Tail(q))) \subseteq CallsOf(Tail(q))
<1> DEFINE n == Len(q)
           p == <<c>> \o Tail(q)
<1>1. /\ n \in Nat \ {0} /\ DOMAIN q = 1..n /\ Head(q) = q[1]
      /\ DOMAIN Tail(q) = 1..(n - 1)
      /\ \A i \in 1..(n - 1) : Tail(q)[i] = q[i + 1]
      /\ DOMAIN p = 1..n /\ p[1] = c
      /\ \A i \in 2..n : p[i] = q[i]
  BY ListShifted
<1>2. PICK S : q \in Seq(S)
  BY FitsIsList
<1>3. Tail(q) \in Seq(S) /\ Len(Tail(q)) = n - 1
  BY <1>2
<1>4. Head(p) = c /\ Tail(p) = Tail(q) /\ p # <<>>
  <2>1. c \in S \cup {c} /\ Tail(q) \in Seq(S \cup {c})
    BY <1>3
  <2> QED
    BY <2>1
<1> HIDE DEF n, p
<1>5. CallsOf(q) = {Head(q)} \cup CallsOf(Tail(q))
  <2>1. \A i \in DOMAIN q : i = 1 \/ (i - 1 \in DOMAIN Tail(q) /\ Tail(q)[i - 1] = q[i])
    BY <1>1
  <2>2. \A i \in DOMAIN Tail(q) : i + 1 \in DOMAIN q /\ Tail(q)[i] = q[i + 1]
    BY <1>1
  <2>3. 1 \in DOMAIN q
    BY <1>1
  <2> QED
    BY <1>1, <2>1, <2>2, <2>3 DEF CallsOf
<1>6. CallsOf(p) = {c} \cup CallsOf(Tail(q))
  <2>1. \A i \in DOMAIN p : i = 1 \/ (i - 1 \in DOMAIN Tail(q) /\ Tail(q)[i - 1] = p[i])
    BY <1>1
  <2>2. \A i \in DOMAIN Tail(q) : i + 1 \in DOMAIN p /\ Tail(q)[i] = p[i + 1]
    BY <1>1
  <2>3. 1 \in DOMAIN p
    BY <1>1
  <2> QED
    BY <1>1, <2>1, <2>2, <2>3 DEF CallsOf
<1>7. ASSUME Tail(q) # <<>>
      PROVE  Head(Tail(q)) \in CallsOf(Tail(q)) /\ CallsOf(Tail(Tail(q))) \subseteq CallsOf(Tail(q))
  <2> DEFINE r == Tail(q)
  <2>0. r \in Seq(S) /\ r # <<>>
    BY <1>3, <1>7
  <2>1. r \in Seq(S) /\ Len(r) \in Nat \ {0} /\ DOMAIN r = 1..Len(r) /\ Head(r) = r[1]
    <3> HIDE DEF r
    <3> QED
      BY <2>0
  <2>2. DOMAIN Tail(r) = 1..(Len(r) - 1) /\ \A i \in 1..(Len(r) - 1) : Tail(r)[i] = r[i + 1]
    BY <2>1
  <2> HIDE DEF r
  <2>3. 1 \in DOMAIN r /\ \A i \in DOMAIN Tail(r) : i + 1 \in DOMAIN r /\ Tail(r)[i] = r[i + 1]
    BY <2>1, <2>2
  <2>4. Head(r) \in CallsOf(r) /\ CallsOf(Tail(r)) \subseteq CallsOf(r)
    BY <2>1, <2>3 DEF CallsOf
  <2> QED
    BY <2>4 DEF r
<1> QED
  <2>1. /\ CallsOf(<<c>> \o Tail(q)) = {c} \cup CallsOf(Tail(q))
        /\ Head(<<c>> \o Tail(q)) = c /\ Tail(<<c>> \o Tail(q)) = Tail(q)
        /\ <<c>> \o Tail(q) # <<>>
    BY <1>4, <1>6 DEF p
  <2> QED
    BY <1>5, <1>7, <2>1

\* A list that is empty has no calls, and nothing is on the way in it.
LEMMA NothingCarried ==
  /\ CallsOf(<<>>) = {} /\ GoodsFits(<<>>) /\ Carries(<<>>) = 0 /\ Pending(<<>>) = {}
BY DEF CallsOf, GoodsFits, Carries, Pending

\* Goods that fit a list fit what is left of it, and a call in the place of its first.
LEMMA GoodsRest ==
  ASSUME NEW q, Fits(q), q # <<>>, GoodsFits(q)
  PROVE  /\ GoodsCall(Head(q)) /\ GoodsFits(Tail(q))
         /\ Carries(Tail(q)) = 0 /\ Pending(Tail(q)) = {}
         /\ \A c : GoodsCall(c) /\ c.do # "write" =>
              /\ GoodsFits(<<c>> \o Tail(q))
              /\ Carries(<<c>> \o Tail(q)) = IF IsMoved(c) THEN Gain(c.doc, c.what) ELSE 0
              /\ Pending(<<c>> \o Tail(q)) = IF IsMoved(c) THEN Numbers(c) ELSE {}
<1> DEFINE r == Tail(q)
<1>1. /\ CallsOf(q) = {Head(q)} \cup CallsOf(r)
      /\ r # <<>> => Head(r) \in CallsOf(r) /\ CallsOf(Tail(r)) \subseteq CallsOf(r)
  BY CallsShifted
<1>2. \A c : /\ CallsOf(<<c>> \o r) = {c} \cup CallsOf(r)
             /\ Head(<<c>> \o r) = c /\ Tail(<<c>> \o r) = r /\ <<c>> \o r # <<>>
  BY CallsShifted
<1> HIDE DEF r
<1>3. /\ \A c \in CallsOf(q) : GoodsCall(c)
      /\ \A c \in CallsOf(r) : ~IsMoved(c) /\ ~Arrives(c)
  BY DEF GoodsFits, r
<1>4. GoodsFits(r)
  BY <1>1, <1>3, Zenon DEF GoodsFits
<1>5. Carries(r) = 0 /\ Pending(r) = {}
  BY <1>1, <1>3, Zenon DEF Carries, Pending
<1>6. ASSUME NEW c, GoodsCall(c), c.do # "write" PROVE GoodsFits(<<c>> \o r)
  <2> DEFINE p == <<c>> \o r
  <2>1. CallsOf(p) = {c} \cup CallsOf(r) /\ Head(p) = c /\ Tail(p) = r
    BY <1>2
  <2>2. ~Arrives(c)
    BY <1>6 DEF Arrives
  <2>3. \A k \in CallsOf(p) : GoodsCall(k)
    BY <1>1, <1>3, <1>6, <2>1
  <2> HIDE DEF p
  <2>4. GoodsFits(p)
    BY <1>3, <2>1, <2>2, <2>3, Zenon DEF GoodsFits
  <2> QED
    BY <2>4 DEF p
<1>7. \A c : /\ Carries(<<c>> \o r) = IF IsMoved(c) THEN Gain(c.doc, c.what) ELSE 0
             /\ Pending(<<c>> \o r) = IF IsMoved(c) THEN Numbers(c) ELSE {}
  <2>1. ASSUME NEW c
        PROVE  /\ Carries(<<c>> \o r) = IF IsMoved(c) THEN Gain(c.doc, c.what) ELSE 0
               /\ Pending(<<c>> \o r) = IF IsMoved(c) THEN Numbers(c) ELSE {}
    <3> DEFINE p == <<c>> \o r
    <3>1. Head(p) = c /\ p # <<>>
      BY <1>2
    <3> HIDE DEF p
    <3>2. /\ Carries(p) = IF IsMoved(c) THEN Gain(c.doc, c.what) ELSE 0
          /\ Pending(p) = IF IsMoved(c) THEN Numbers(c) ELSE {}
      BY <3>1, Zenon DEF Carries, Pending
    <3> QED
      BY <3>2 DEF p
  <2> QED
    BY <2>1
<1> QED
  BY <1>1, <1>3, <1>4, <1>5, <1>6, <1>7 DEF r

\* What goods are worth is a number.
LEMMA GainTyped ==
  ASSUME NEW d \in Documents
  PROVE  Brings(d) \in Int /\ \A way : Gain(d, way) \in Int
<1>1. Worth[d].goods \in Int /\ -Worth[d].goods \in Int
  BY WorthTyped
<1>2. \A way : Gain(d, way) \in Int
  BY <1>1 DEF Gain
<1> QED
  BY <1>2 DEF Brings

\* So is what a handler has on the way.
LEMMA CarriesTyped ==
  ASSUME NEW q, Fits(q)
  PROVE  Carries(q) \in Int
<1>1. CASE q = <<>> \/ ~IsMoved(Head(q))
  BY <1>1 DEF Carries
<1>2. CASE q # <<>> /\ IsMoved(Head(q))
  <2>1. CallFits(Head(q))
    BY <1>2, RestFits
  <2>2. Head(q).doc \in Documents
    BY <1>2, <2>1 DEF CallFits, IsMoved, DocumentCalls
  <2> QED
    BY <1>2, <2>2, GainTyped DEF Carries
<1> QED
  BY <1>1, <1>2

\* What is on the way may be added up with a handler that has nothing to do.
LEMMA TransitWith ==
  ASSUME NEW calls, IsFiniteSet(Active(calls)), NEW s \in Slots,
         \A t \in Slots : Carries(calls[t]) \in Int
  PROVE  /\ IsFiniteSet(Active(calls) \cup {s})
         /\ InTransit(calls) = Along(calls, Active(calls) \cup {s})
         /\ InTransit(calls) \in Int
<1> DEFINE A == Active(calls)
           T == A \cup {s}
           w == [t \in A |-> Carries(calls[t])]
           v == [t \in T |-> Carries(calls[t])]
<1> SUFFICES IsFiniteSet(T) /\ InTransit(calls) = SumOf(v, T) /\ InTransit(calls) \in Int
  BY DEF Along
<1>1. IsFiniteSet(T)
  BY FS_AddElement
<1>2. A \subseteq Slots
  BY DEF Active
<1>3. /\ DOMAIN w = A /\ DOMAIN v = T
      /\ \A t \in A : w[t] \in Int /\ v[t] = w[t]
      /\ v[s] = Carries(calls[s]) /\ v[s] \in Int
  BY <1>2
<1>4. InTransit(calls) = SumOf(w, A)
  BY DEF InTransit, Along
<1>5. s \notin A => v[s] = 0
  BY <1>3, NothingCarried DEF Active
<1> HIDE DEF w, v, A
<1>6. SumOf(w, A) \in Int
  BY <1>3, SumSplit DEF A
<1>7. CASE s \in A
  <2>1. T = A
    BY <1>7
  <2>2. SumOf(v, A) = SumOf(w, A)
    BY <1>3, <2>1, SumSame DEF A
  <2> QED
    BY <1>1, <1>4, <1>6, <2>1, <2>2
<1>8. CASE s \notin A
  <2>1. SumOf(v, A \cup {s}) = SumOf(w, A) + v[s]
    BY <1>3, <1>8, SumExtended DEF A
  <2> QED
    BY <1>1, <1>4, <1>5, <1>6, <1>8, <2>1
<1> QED
  BY <1>7, <1>8

\* A handler goes on: what is on the way changes by what it has.
Passes(calls, next, s, q) ==
  /\ IsFiniteSet(Active(next)) /\ InTransit(calls) \in Int
  /\ InTransit(next) = InTransit(calls) - Carries(calls[s]) + Carries(q)

\* What is on the way changes so when no other handler goes on.
LEMMA TransitGoesOn ==
  ASSUME NEW calls, DOMAIN calls = Slots, IsFiniteSet(Active(calls)), NEW s \in Slots, NEW q,
         \A t \in Slots : Carries(calls[t]) \in Int, Carries(q) \in Int,
         NEW next, next = [calls EXCEPT ![s] = q]
  PROVE  Passes(calls, next, s, q)
<1> DEFINE T == Active(calls) \cup {s}
           w == [t \in T |-> Carries(calls[t])]
           v == [t \in T |-> Carries(next[t])]
<1>1. /\ DOMAIN next = Slots /\ next[s] = q
      /\ \A t \in Slots \ {s} : next[t] = calls[t]
  OBVIOUS
<1>2. IsFiniteSet(T) /\ InTransit(calls) = SumOf(w, T) /\ InTransit(calls) \in Int
  BY TransitWith DEF Along
<1>3. Active(next) \cup {s} = T /\ T \subseteq Slots
  BY <1>1 DEF Active
<1>4. IsFiniteSet(Active(next))
  BY <1>2, <1>3, FS_Subset
<1>5. \A t \in Slots : Carries(next[t]) \in Int
  BY <1>1
<1>6. InTransit(next) = Along(next, Active(next) \cup {s})
  BY <1>4, <1>5, TransitWith, Zenon
<1>7. InTransit(next) = SumOf(v, T)
  BY <1>3, <1>6 DEF Along
<1>8. /\ DOMAIN w = T /\ DOMAIN v = T /\ s \in T
      /\ w[s] = Carries(calls[s]) /\ v[s] = Carries(q) /\ w[s] \in Int /\ v[s] \in Int
      /\ \A t \in T \ {s} : w[t] \in Int /\ v[t] = w[t]
  BY <1>1, <1>3
<1> HIDE DEF w, v, T
<1>9. SumOf(v, T) = SumOf(w, T) - w[s] + v[s]
  BY <1>2, <1>8, SumChanged
<1> QED
  BY <1>2, <1>4, <1>7, <1>8, <1>9 DEF Passes

\* What is between the books and the stock changes by what one document does.
GapShifts(moved, more, rows, posts, d) ==
  /\ Gaps(moved, rows) \in Int /\ Gap(moved, rows, d) \in Int /\ Gap(more, posts, d) \in Int
  /\ Gaps(more, posts) = Gaps(moved, rows) - Gap(moved, rows, d) + Gap(more, posts, d)

\* It changes so when only that document is moved or booked.
LEMMA GapsGoOn ==
  ASSUME NEW moved, NEW more, NEW rows, NEW posts, NEW d \in Documents,
         \A e \in Documents \ {d} : more[e] = moved[e] /\ OnFile(posts, e) = OnFile(rows, e)
  PROVE  GapShifts(moved, more, rows, posts, d)
<1> DEFINE w == [e \in Documents |-> Gap(moved, rows, e)]
           v == [e \in Documents |-> Gap(more, posts, e)]
<1>1. ASSUME NEW e \in Documents PROVE Gap(moved, rows, e) \in Int /\ Gap(more, posts, e) \in Int
  <2>1. Brings(e) \in Int
    BY GainTyped
  <2> QED
    BY <2>1 DEF Gap
<1>2. \A e \in Documents \ {d} : Gap(more, posts, e) = Gap(moved, rows, e)
  BY DEF Gap
<1>3. /\ DOMAIN w = Documents /\ DOMAIN v = Documents
      /\ w[d] = Gap(moved, rows, d) /\ v[d] = Gap(more, posts, d) /\ w[d] \in Int /\ v[d] \in Int
      /\ \A e \in Documents \ {d} : w[e] \in Int /\ v[e] = w[e]
      /\ \A e \in Documents : w[e] \in Int
  BY <1>1, <1>2
<1>4. Gaps(moved, rows) = SumOf(w, Documents) /\ Gaps(more, posts) = SumOf(v, Documents)
  BY DEF Gaps
<1>5. IsFiniteSet(Documents)
  BY StartAssumption
<1> HIDE DEF w, v
<1>6. SumOf(v, Documents) = SumOf(w, Documents) - w[d] + v[d]
  BY <1>3, <1>5, SumChanged
<1>7. SumOf(w, Documents) \in Int
  BY <1>3, <1>5, SumSplit
<1> QED
  BY <1>3, <1>4, <1>6, <1>7 DEF GapShifts

\* Where no document changes, neither does that.
LEMMA GapsStay ==
  ASSUME NEW moved, NEW more, NEW rows, NEW posts,
         \A e \in Documents : Gap(more, posts, e) = Gap(moved, rows, e)
  PROVE  /\ Gaps(moved, rows) \in Int
         /\ Gaps(more, posts) = Gaps(moved, rows)
<1> DEFINE w == [e \in Documents |-> Gap(moved, rows, e)]
           v == [e \in Documents |-> Gap(more, posts, e)]
<1>1. ASSUME NEW e \in Documents PROVE Gap(moved, rows, e) \in Int
  <2>1. Brings(e) \in Int
    BY GainTyped
  <2> QED
    BY <2>1 DEF Gap
<1>3. /\ DOMAIN w = Documents /\ DOMAIN v = Documents
      /\ \A e \in Documents : w[e] \in Int /\ v[e] = w[e]
  BY <1>1
<1>4. Gaps(moved, rows) = SumOf(w, Documents) /\ Gaps(more, posts) = SumOf(v, Documents)
  BY DEF Gaps
<1>5. IsFiniteSet(Documents)
  BY StartAssumption
<1> HIDE DEF w, v
<1>6. SumOf(v, Documents) = SumOf(w, Documents) /\ SumOf(w, Documents) \in Int
  BY <1>3, <1>5, SumSame, SumSplit
<1> QED
  BY <1>4, <1>6

\* Movements that wait to be booked keep numbers of their own.
LEMMA NumbersGoOn ==
  ASSUME NEW rows, NEW more, NEW moved, NEW next, NEW calls, NEW then, NEW s \in Slots, NEW q,
         moved \in [Documents -> Nat], next \in [Documents -> Nat],
         \A e \in Documents : moved[e] <= next[e],
         DOMAIN calls = Slots, then = [calls EXCEPT ![s] = q],
         \A r \in rows \cup more : r.key.nth \in Nat /\ r.key.doc \in Documents,
         Numbered(rows, moved, calls), Pending(q) \subseteq Pending(calls[s]),
         \A r \in more : r.key.nth <= moved[r.key.doc],
         \A t \in Slots : \A p \in Pending(then[t]) :
           \A r \in more : <<r.key.doc, r.key.nth>> # p
  PROVE  Numbered(rows \cup more, next, then)
<1>1. /\ then[s] = q /\ \A t \in Slots \ {s} : then[t] = calls[t]
  OBVIOUS
<1>2. \A t \in Slots : Pending(then[t]) \subseteq Pending(calls[t])
  BY <1>1
<1>3. ASSUME NEW r \in rows \cup more PROVE r.key.nth <= next[r.key.doc]
  <2>1. r.key.nth <= moved[r.key.doc]
    BY DEF Numbered
  <2>2. moved[r.key.doc] \in Nat /\ next[r.key.doc] \in Nat /\ moved[r.key.doc] <= next[r.key.doc]
        /\ r.key.nth \in Nat
    OBVIOUS
  <2> HIDE DEF Numbered
  <2> QED
    BY <2>1, <2>2
<1>4. ASSUME NEW t \in Slots, NEW p \in Pending(then[t])
      PROVE  /\ p[1] \in Documents /\ p[2] \in 1..next[p[1]]
             /\ \A r \in rows \cup more : <<r.key.doc, r.key.nth>> # p
  <2>1. /\ p[1] \in Documents /\ p[2] \in 1..moved[p[1]]
        /\ \A r \in rows : <<r.key.doc, r.key.nth>> # p
    BY <1>2, <1>4 DEF Numbered
  <2>2. moved[p[1]] \in Nat /\ next[p[1]] \in Nat /\ moved[p[1]] <= next[p[1]]
    BY <2>1
  <2>3. p[2] \in 1..next[p[1]]
    BY <2>1, <2>2
  <2> QED
    BY <1>4, <2>1, <2>3
<1>5. \A t, u \in Slots : t # u => Pending(then[t]) \cap Pending(then[u]) = {}
  BY <1>2 DEF Numbered
<1> QED
  BY <1>3, <1>4, <1>5 DEF Numbered

-----------------------------------------------------------------------------
(* What the stock is worth *)

\* Who is to move the goods of d, and whether what is to be posted of d is all of it.
Awaits(q, d) == \E c \in CallsOf(q) : c.do = "apply" /\ c.doc = d
Awaited(calls, d) == \E s \in Slots : Awaits(calls[s], d)
FullCall(c, d) == c.do = "commit" /\ c.doc = d /\ c.what = "issued" => BookedFull(c.rows, d)
FullCalls(q, d) == \A c \in CallsOf(q) : FullCall(c, d)

\* The documents whose goods count.
Weighty == {d \in Documents : Stocks(d) /\ Worth[d].goods # 0}

\* The goods of a document move once, after it is written; it is booked in full or
\* not at all, and is booked unless that is still to come.
Delivered(d, moved, st, rows, calls, lacking) ==
  /\ Awaited(calls, d) => moved[d] = 0
  /\ st[d] # "none" => moved[d] # 0 \/ Awaited(calls, d)
  /\ moved[d] # 0 => st[d] # "none"
  /\ OnFile(rows, d) = {} \/ BookedFull(OnFile(rows, d), d)
  /\ \A s \in Slots : FullCalls(calls[s], d)
  /\ st[d] # "none" /\ <<d, "posting">> \notin lacking =>
       OnFile(rows, d) # {} \/ "issued" \in Owed(calls, d)

\* What the stock is worth is on the books, on its way there, or ahead of the books
\* or behind them by what a document brings.
Stocked(a) ==
  shelf - OpeningStock
    = Total(posted, a, Accounts) + InTransit(slot) + Gaps(movements, posted)

ValuationInv(a) ==
  /\ IsFiniteSet(Active(slot)) /\ \A s \in Slots : GoodsFits(slot[s])
  /\ Numbered(posted, movements, slot)
  /\ GoodsKept(lost) =>
       /\ \A d \in Weighty :
            d \notin contended /\ Delivered(d, movements, status, posted, slot, lost)
       /\ Stocked(a)

\* What a list says is said by its first call or by the rest of it.
LEMMA LeftToDo ==
  ASSUME NEW q, Fits(q), q # <<>>, NEW c, NEW d
  PROVE  /\ Awaits(q, d) <=> (Head(q).do = "apply" /\ Head(q).doc = d) \/ Awaits(Tail(q), d)
         /\ Awaits(<<c>> \o Tail(q), d) <=> (c.do = "apply" /\ c.doc = d) \/ Awaits(Tail(q), d)
         /\ FullCalls(q, d) <=> FullCall(Head(q), d) /\ FullCalls(Tail(q), d)
         /\ FullCalls(<<c>> \o Tail(q), d) <=> FullCall(c, d) /\ FullCalls(Tail(q), d)
         /\ Reports(q) <=> Head(q).do = "report" \/ Reports(Tail(q))
         /\ Reports(<<c>> \o Tail(q)) <=> c.do = "report" \/ Reports(Tail(q))
         /\ \A part : Owing(q, d, part) <=>
              ~Reports(q) /\ (PostsPart(Head(q), d, part) \/ Owing(Tail(q), d, part))
         /\ \A part : Owing(<<c>> \o Tail(q), d, part) <=>
              ~Reports(<<c>> \o Tail(q)) /\ (PostsPart(c, d, part) \/ Owing(Tail(q), d, part))
<1> DEFINE r == Tail(q)
           p == <<c>> \o r
<1>1. CallsOf(q) = {Head(q)} \cup CallsOf(r) /\ CallsOf(p) = {c} \cup CallsOf(r)
  BY CallsShifted
<1>2. \A x : Reports(x) <=> \E k \in CallsOf(x) : k.do = "report"
  BY DEF Reports, CallsOf
<1>3. \A x, part : Owing(x, d, part) <=> ~Reports(x) /\ \E k \in CallsOf(x) : PostsPart(k, d, part)
  BY DEF Owing, CallsOf
<1> HIDE DEF p, r
<1>4. /\ Awaits(q, d) <=> (Head(q).do = "apply" /\ Head(q).doc = d) \/ Awaits(r, d)
      /\ Awaits(p, d) <=> (c.do = "apply" /\ c.doc = d) \/ Awaits(r, d)
  BY <1>1, Zenon DEF Awaits
<1>5. /\ FullCalls(q, d) <=> FullCall(Head(q), d) /\ FullCalls(r, d)
      /\ FullCalls(p, d) <=> FullCall(c, d) /\ FullCalls(r, d)
  BY <1>1, Zenon DEF FullCalls
<1>6. /\ Reports(q) <=> Head(q).do = "report" \/ Reports(r)
      /\ Reports(p) <=> c.do = "report" \/ Reports(r)
  BY <1>1, <1>2, Zenon
<1>7. \A part : Owing(q, d, part) <=>
        ~Reports(q) /\ (PostsPart(Head(q), d, part) \/ Owing(r, d, part))
  BY <1>1, <1>3, <1>6, Zenon
<1>8. \A part : Owing(p, d, part) <=>
        ~Reports(p) /\ (PostsPart(c, d, part) \/ Owing(r, d, part))
  BY <1>1, <1>3, <1>6, Zenon
<1> QED
  BY <1>4, <1>5, <1>6, <1>7, <1>8, Zenon DEF p, r

\* A list of no calls says nothing.
LEMMA NothingLeft ==
  ASSUME NEW d
  PROVE  ~Awaits(<<>>, d) /\ FullCalls(<<>>, d)
BY NothingCarried DEF Awaits, FullCalls

\* A document goes on as it was when a step is not about it.
LEMMA DeliveredStill ==
  ASSUME NEW d, NEW moved, NEW next, NEW st, NEW now, NEW rows, NEW more, NEW calls, NEW then,
         NEW lacking, NEW lack, NEW s \in Slots, NEW q,
         DOMAIN calls = Slots, then = [calls EXCEPT ![s] = q],
         Delivered(d, moved, st, rows, calls, lacking),
         next[d] = moved[d], now[d] = st[d], OnFile(more, d) = OnFile(rows, d),
         Awaits(q, d) <=> Awaits(calls[s], d), FullCalls(q, d),
         <<d, "posting">> \in lacking => <<d, "posting">> \in lack,
         Owing(calls[s], d, "issued") =>
           Owing(q, d, "issued") \/ <<d, "posting">> \in lack \/ OnFile(rows, d) # {}
  PROVE  Delivered(d, next, now, more, then, lack)
<1>1. then[s] = q /\ \A t \in Slots \ {s} : then[t] = calls[t]
  OBVIOUS
<1>2. Awaited(then, d) <=> Awaited(calls, d)
  BY <1>1, Zenon DEF Awaited
<1>3. \A t \in Slots : FullCalls(then[t], d)
  BY <1>1, Zenon DEF Delivered
<1>4. "issued" \in Owed(calls, d) =>
        "issued" \in Owed(then, d) \/ <<d, "posting">> \in lack \/ OnFile(rows, d) # {}
  <2>1. ASSUME NEW t \in Slots, Owing(calls[t], d, "issued")
        PROVE  \/ \E u \in Slots : Owing(then[u], d, "issued")
               \/ <<d, "posting">> \in lack \/ OnFile(rows, d) # {}
    <3>1. CASE t = s
      BY <1>1, <2>1, <3>1, Zenon
    <3>2. CASE t # s
      BY <1>1, <2>1, <3>2, Zenon
    <3> QED
      BY <3>1, <3>2
  <2>2. "issued" \in Parts
    BY DEF Parts
  <2> QED
    BY <2>1, <2>2, Zenon DEF Owed
<1> QED
  BY <1>2, <1>3, <1>4, Zenon DEF Delivered

\* A handler goes on: the stock and the books keep together when what the step
\* changes the one by it changes the other by, or what is between them.
LEMMA ValuationGoesOn ==
  ASSUME NEW a \in Accounts, LedgerInv, ValuationInv(a), NEW s \in Slots, NEW q, Fits(q),
         slot' = [slot EXCEPT ![s] = q], GoodsFits(q), Numbered(posted', movements', slot'),
         Total(posted', a, Accounts) \in Int, shelf' \in Int, Gaps(movements', posted') \in Int,
         Gaps(movements, posted) \in Int,
         GoodsKept(lost') =>
           /\ GoodsKept(lost)
           /\ \A d \in Weighty :
                d \notin contended' /\ Delivered(d, movements', status', posted', slot', lost')
           /\ shelf' - shelf = (Total(posted', a, Accounts) - Total(posted, a, Accounts))
                                + (Carries(q) - Carries(slot[s]))
                                + (Gaps(movements', posted') - Gaps(movements, posted))
  PROVE  ValuationInv(a)'
<1>1. /\ DOMAIN slot = Slots /\ \A t \in Slots : Fits(slot[t])
      /\ shelf \in Int /\ OpeningStock \in Int
  BY StartAssumption DEF LedgerInv, BooksTyped
<1>2. /\ \A t \in Slots : Carries(slot[t]) \in Int
      /\ Carries(q) \in Int
  BY <1>1, CarriesTyped
<1>3. IsFiniteSet(Active(slot))
  BY DEF ValuationInv
<1>4. /\ IsFiniteSet(Active(slot')) /\ InTransit(slot) \in Int
      /\ InTransit(slot') = InTransit(slot) - Carries(slot[s]) + Carries(q)
  <2>1. Passes(slot, slot', s, q)
    BY <1>1, <1>2, <1>3, TransitGoesOn, Zenon
  <2> QED
    BY <2>1 DEF Passes
<1>5. \A t \in Slots : GoodsFits(slot'[t])
  BY <1>1 DEF ValuationInv
<1>6. Total(posted, a, Accounts) \in Int
  <2>1. Countable(posted) /\ Countable({})
    BY BooksCount, TotalOfFew DEF LedgerInv
  <2>2. posted \cap {} = {}
    OBVIOUS
  <2> QED
    BY <2>1, <2>2, TotalJoined
<1>7. ASSUME GoodsKept(lost')
      PROVE  shelf' - OpeningStock
               = Total(posted', a, Accounts) + InTransit(slot') + Gaps(movements', posted')
  <2>1. shelf - OpeningStock
          = Total(posted, a, Accounts) + InTransit(slot) + Gaps(movements, posted)
    BY <1>7 DEF ValuationInv, Stocked
  <2>2. shelf' - shelf = (Total(posted', a, Accounts) - Total(posted, a, Accounts))
                          + (Carries(q) - Carries(slot[s]))
                          + (Gaps(movements', posted') - Gaps(movements, posted))
    BY <1>7
  <2>3. Carries(slot[s]) \in Int /\ InTransit(slot') \in Int
    BY <1>2, <1>4
  <2> DEFINE t == Total(posted, a, Accounts)
             u == Total(posted', a, Accounts)
             g == Gaps(movements, posted)
             h == Gaps(movements', posted')
             i == InTransit(slot)
             j == InTransit(slot')
             c == Carries(slot[s])
             e == Carries(q)
  <2>4. /\ t \in Int /\ u \in Int /\ g \in Int /\ h \in Int /\ i \in Int /\ j \in Int
        /\ c \in Int /\ e \in Int
        /\ shelf - OpeningStock = t + i + g
        /\ shelf' - shelf = (u - t) + (e - c) + (h - g)
        /\ j = i - c + e
    BY <1>2, <1>4, <1>6, <2>1, <2>2, <2>3
  <2> DEFINE n == shelf'
  <2>5. n \in Int /\ n - shelf = (u - t) + (e - c) + (h - g)
    BY <2>4
  <2> HIDE DEF t, u, g, h, i, j, c, e, n
  <2>6. n - OpeningStock = u + j + h
    BY <1>1, <2>4, <2>5
  <2> QED
    BY <2>6 DEF u, j, h, n
<1> QED
  BY <1>4, <1>5, <1>7 DEF ValuationInv, Stocked

\* The stock and the books keep together when a step moves no goods, books nothing
\* and loses none.
LEMMA ValuationKept ==
  ASSUME NEW a \in Accounts, LedgerInv, ValuationInv(a), NEW s \in Slots, NEW q, Fits(q),
         slot' = [slot EXCEPT ![s] = q], GoodsFits(q), Pending(q) \subseteq Pending(slot[s]),
         posted' = posted, movements' = movements, shelf' = shelf,
         lost \subseteq lost',
         GoodsKept(lost') =>
           /\ Carries(q) = Carries(slot[s])
           /\ \A d \in Weighty :
                /\ d \notin contended' /\ status'[d] = status[d]
                /\ Awaits(q, d) <=> Awaits(slot[s], d)
                /\ FullCalls(slot[s], d) => FullCalls(q, d)
                /\ Owing(slot[s], d, "issued") =>
                     Owing(q, d, "issued") \/ <<d, "posting">> \in lost'
  PROVE  ValuationInv(a)'
<1>1. /\ DOMAIN slot = Slots /\ shelf \in Int /\ movements \in [Documents -> Nat]
      /\ Bookable(posted) /\ Fits(slot[s])
  BY DEF LedgerInv, BooksTyped
<1>2. Numbered(posted', movements', slot')
  <2>1. \A r \in posted : r.key.nth \in Nat /\ r.key.doc \in Documents
    BY <1>1 DEF Bookable, Entries, Keys
  <2>2. Numbered(posted, movements, slot)
    BY DEF ValuationInv
  <2>3. \A e \in Documents : movements[e] <= movements[e]
    BY <1>1
  <2> DEFINE none == {}
  <2>4. /\ \A r \in posted \cup none : r.key.nth \in Nat /\ r.key.doc \in Documents
        /\ \A r \in none : r.key.nth <= movements[r.key.doc]
        /\ \A t \in Slots : \A p \in Pending(slot'[t]) :
             \A r \in none : <<r.key.doc, r.key.nth>> # p
        /\ posted \cup none = posted
    BY <2>1
  <2> HIDE DEF none
  <2>5. Numbered(posted \cup none, movements, slot')
    BY <1>1, <2>2, <2>3, <2>4, NumbersGoOn
  <2> QED
    BY <2>4, <2>5
<1>3. Total(posted', a, Accounts) \in Int
  <2>1. Countable(posted) /\ Countable({})
    BY BooksCount, TotalOfFew DEF LedgerInv
  <2>2. posted \cap {} = {}
    OBVIOUS
  <2> QED
    BY <2>1, <2>2, TotalJoined
<1>4. Gaps(movements, posted) \in Int /\ Gaps(movements', posted') = Gaps(movements, posted)
  BY GapsStay
<1>5. Carries(slot[s]) \in Int
  BY <1>1, CarriesTyped
<1>6. ASSUME GoodsKept(lost')
      PROVE  /\ GoodsKept(lost)
             /\ \A d \in Weighty :
                  d \notin contended' /\ Delivered(d, movements', status', posted', slot', lost')
             /\ shelf' - shelf = (Total(posted', a, Accounts) - Total(posted, a, Accounts))
                                  + (Carries(q) - Carries(slot[s]))
                                  + (Gaps(movements', posted') - Gaps(movements, posted))
  <2>1. GoodsKept(lost)
    BY <1>6 DEF GoodsKept
  <2>2. ASSUME NEW d \in Weighty
        PROVE  d \notin contended' /\ Delivered(d, movements', status', posted', slot', lost')
    <3>1. Delivered(d, movements, status, posted, slot, lost)
      BY <2>1 DEF ValuationInv
    <3>2. FullCalls(q, d)
      BY <1>6, <3>1 DEF Delivered
    <3>3. /\ movements'[d] = movements[d] /\ OnFile(posted', d) = OnFile(posted, d)
          /\ status'[d] = status[d] /\ (Awaits(q, d) <=> Awaits(slot[s], d))
          /\ <<d, "posting">> \in lost => <<d, "posting">> \in lost'
          /\ Owing(slot[s], d, "issued") =>
               Owing(q, d, "issued") \/ <<d, "posting">> \in lost' \/ OnFile(posted, d) # {}
      BY <1>6
    <3>4. Delivered(d, movements', status', posted', slot', lost')
      BY <1>1, <3>1, <3>2, <3>3, DeliveredStill
    <3> QED
      BY <1>6, <3>4
  <2>3. Carries(q) = Carries(slot[s])
    BY <1>6
  <2>4. shelf' - shelf = (Total(posted', a, Accounts) - Total(posted, a, Accounts))
                          + (Carries(q) - Carries(slot[s]))
                          + (Gaps(movements', posted') - Gaps(movements, posted))
    BY <1>1, <1>3, <1>4, <1>5, <2>3
  <2> QED
    BY <2>1, <2>2, <2>4
<1> QED
  BY <1>1, <1>2, <1>3, <1>4, <1>6, ValuationGoesOn, Zenon

-----------------------------------------------------------------------------
(* What calls do to the stock and the books *)

\* A call that neither moves goods nor posts is followed by the rest.
LEMMA RestKept ==
  ASSUME NEW a \in Accounts, LedgerInv, ValuationInv(a), NEW s \in Slots, slot[s] # Idle,
         Call(s).do \notin {"apply", "plan", "commit"},
         slot' = [slot EXCEPT ![s] = Tail(slot[s])],
         posted' = posted, movements' = movements, shelf' = shelf,
         lost' = lost, contended' = contended, \A d \in Weighty : status'[d] = status[d]
  PROVE  ValuationInv(a)'
<1> DEFINE q == slot[s]
           r == Tail(q)
<1>1. q # <<>> /\ Fits(q) /\ Head(q).do \notin {"apply", "plan", "commit"}
  BY DEF LedgerInv, BooksTyped, Idle, Call
<1>2. Ordinary(r) /\ Fits(r)
  BY <1>1, RestFits DEF Fits
<1>3. GoodsFits(q)
  BY DEF ValuationInv
<1>4. GoodsFits(r) /\ Carries(r) = 0 /\ Pending(r) = {}
  BY <1>1, <1>3, GoodsRest
<1>5. Carries(q) = 0
  BY <1>1 DEF Carries, IsMoved
<1>6. ASSUME NEW d \in Weighty
      PROVE  /\ Awaits(r, d) <=> Awaits(q, d)
             /\ FullCalls(q, d) => FullCalls(r, d)
             /\ Owing(q, d, "issued") => Owing(r, d, "issued")
  <2>1. ~PostsPart(Head(q), d, "issued")
    BY <1>1 DEF PostsPart
  <2>2. /\ Awaits(q, d) <=> (Head(q).do = "apply" /\ Head(q).doc = d) \/ Awaits(r, d)
        /\ FullCalls(q, d) <=> FullCall(Head(q), d) /\ FullCalls(r, d)
        /\ \A part : Owing(q, d, part) <=>
              ~Reports(q) /\ (PostsPart(Head(q), d, part) \/ Owing(r, d, part))
    BY <1>1, LeftToDo
  <2> HIDE DEF r, q
  <2> QED
    BY <1>1, <2>1, <2>2
<1>7. ASSUME GoodsKept(lost')
      PROVE  /\ Carries(r) = Carries(q)
             /\ \A d \in Weighty :
                  /\ d \notin contended' /\ status'[d] = status[d]
                  /\ Awaits(r, d) <=> Awaits(q, d)
                  /\ FullCalls(q, d) => FullCalls(r, d)
                  /\ Owing(q, d, "issued") =>
                       Owing(r, d, "issued") \/ <<d, "posting">> \in lost'
  <2>1. \A d \in Weighty : d \notin contended
    BY <1>7 DEF ValuationInv
  <2> QED
    BY <1>4, <1>5, <1>6, <2>1
<1> HIDE DEF r
<1>8. slot' = [slot EXCEPT ![s] = r] /\ lost \subseteq lost' /\ Pending(r) \subseteq Pending(slot[s])
  BY <1>4 DEF r
<1> QED
  BY <1>2, <1>4, <1>7, <1>8, ValuationKept, Zenon DEF q

\* The report and the calls of the journal form move no goods.
LEMMA LastCallsValue ==
  ASSUME NEW a \in Accounts, LedgerInv, ValuationInv(a), NEW s \in Slots,
         Report(s) \/ InsertEntry(s) \/ RemoveEntry(s) \/ WriteRecalculation(s)
  PROVE  ValuationInv(a)'
<1>1. /\ slot[s] # Idle /\ Call(s).do \notin {"apply", "plan", "commit"}
      /\ slot' = [slot EXCEPT ![s] = Tail(slot[s])]
  BY DEF Report, InsertEntry, RemoveEntry, WriteRecalculation, At, Call, Continue
<1>2. /\ posted' = posted /\ movements' = movements /\ shelf' = shelf
      /\ lost' = lost /\ contended' = contended /\ status' = status
  BY DEF Report, InsertEntry, RemoveEntry, WriteRecalculation, WriteByHand, RemoveByHand,
         Recalculate, ledgerVars, documentVars, historyVars
<1> QED
  BY <1>1, <1>2, RestKept

\* The calls of a document that books its goods.
LEMMA ArrivalTold ==
  ASSUME NEW d
  PROVE  /\ Arrival(d) # <<>> /\ Head(Arrival(d)) = Write(d, "issued")
         /\ Awaits(Arrival(d), d) /\ Owing(Arrival(d), d, "issued")
         /\ \A e : Awaits(Arrival(d), e) \/ Owing(Arrival(d), e, "issued") => e = d
         /\ \A e : FullCalls(Arrival(d), e)
         /\ CallsOf(Arrival(d)) = {Write(d, "issued"), ApplyMove(d, Way(d)), Plan(d, "issued")}
         /\ CallsOf(Tail(Arrival(d))) = {ApplyMove(d, Way(d)), Plan(d, "issued")}
<1> DEFINE w == Write(d, "issued")
           m == ApplyMove(d, Way(d))
           p == Plan(d, "issued")
           q == <<w, m, p>>
<1>1. /\ w.do = "write" /\ w.doc = d /\ m.do = "apply" /\ m.doc = d
      /\ p.do = "plan" /\ p.doc = d /\ p.what = "issued"
  BY CallsTold
<1>2. Arrival(d) = q
  BY DEF Arrival
<1> HIDE DEF w, m, p
<1>3. /\ q # <<>> /\ Head(q) = w /\ Tail(q) = <<m, p>> /\ DOMAIN q = {1, 2, 3}
      /\ q[1] = w /\ q[2] = m /\ q[3] = p
      /\ DOMAIN <<m, p>> = {1, 2} /\ <<m, p>>[1] = m /\ <<m, p>>[2] = p
  BY FewCalls
<1> HIDE DEF q
<1>4. CallsOf(q) = {w, m, p} /\ CallsOf(Tail(q)) = {m, p}
  BY <1>3 DEF CallsOf
<1>5. \A e : Awaits(q, e) <=> e = d
  BY <1>1, <1>4 DEF Awaits
<1>6. \A e : FullCalls(q, e)
  BY <1>1, <1>4 DEF FullCalls, FullCall
<1>7. \A e : Owing(q, e, "issued") <=> e = d
  BY <1>1, <1>3 DEF Owing, Reports, PostsPart
<1> QED
  BY <1>2, <1>3, <1>4, <1>5, <1>6, <1>7 DEF w, m, p

\* Writing a document moves no goods; one that books its goods has still to move
\* them, and to be posted.
LEMMA WriteValue ==
  ASSUME NEW a \in Accounts, LedgerInv, ValuationInv(a), NEW s \in Slots, WriteDocument(s)
  PROVE  ValuationInv(a)'
<1> DEFINE q == slot[s]
           r == Tail(q)
           d == Call(s).doc
<1>1. /\ slot[s] # Idle /\ Call(s).do = "write"
      /\ status' = [status EXCEPT ![d] = Call(s).status]
      /\ slot' = [slot EXCEPT ![s] = r]
  BY DEF WriteDocument, At, Call, Continue
<1>2. /\ posted' = posted /\ movements' = movements /\ shelf' = shelf
      /\ lost' = lost /\ contended' = contended
  BY DEF WriteDocument, ledgerVars, historyVars
<1>3. CASE ~Stocks(d)
  <2>1. \A e \in Weighty : status'[e] = status[e]
    BY <1>1, <1>3 DEF Weighty, LedgerInv, BooksTyped
  <2> QED
    BY <1>1, <1>2, <2>1, RestKept
<1>4. CASE Stocks(d)
  <2>1. /\ q # <<>> /\ Fits(q) /\ GoodsFits(q) /\ Head(q) = Call(s)
        /\ DOMAIN slot = Slots /\ shelf \in Int
        /\ status \in [Documents -> {"none", "issued", "undone", "reimbursed"}]
    BY <1>1 DEF LedgerInv, BooksTyped, Idle, Call, ValuationInv
  <2>2. q = Arrival(d)
    BY <1>1, <1>4, <2>1 DEF GoodsFits, Arrives
  <2>3. Call(s).status = "issued"
    <3>1. Head(Arrival(d)) = Write(d, "issued")
      BY ArrivalTold
    <3>2. Write(d, "issued").status = "issued"
      BY CallsTold
    <3> QED
      BY <2>1, <2>2, <3>1, <3>2
  <2>4. Ordinary(r) /\ Fits(r) /\ CallFits(Head(q))
    BY <2>1, RestFits DEF Fits
  <2>5. d \in Documents
    BY <1>1, <2>1, <2>4 DEF CallFits, DocumentCalls
  <2>6. GoodsFits(r) /\ Carries(r) = 0 /\ Pending(r) = {} /\ Carries(q) = 0
    BY <1>1, <2>1, GoodsRest DEF Carries, IsMoved
  <2>7. ASSUME NEW e
        PROVE  /\ Awaits(r, e) <=> Awaits(q, e)
               /\ FullCalls(r, e)
               /\ Owing(q, e, "issued") <=> Owing(r, e, "issued")
    <3>1. ~PostsPart(Head(q), e, "issued") /\ Head(q).do # "apply"
      BY <1>1, <2>1 DEF PostsPart
    <3>2. /\ Awaits(q, e) <=> (Head(q).do = "apply" /\ Head(q).doc = e) \/ Awaits(r, e)
          /\ FullCalls(q, e) <=> FullCall(Head(q), e) /\ FullCalls(r, e)
          /\ \A part : Owing(q, e, part) <=>
                ~Reports(q) /\ (PostsPart(Head(q), e, part) \/ Owing(r, e, part))
          /\ Reports(q) <=> Head(q).do = "report" \/ Reports(r)
      BY <2>1, LeftToDo
    <3>3. FullCalls(q, e)
      BY <2>2, ArrivalTold
    <3>4. Owing(r, e, "issued") => ~Reports(q)
      BY <1>1, <2>1, <3>2 DEF Owing
    <3> HIDE DEF q, r
    <3> QED
      BY <3>1, <3>2, <3>3, <3>4
  <2>8. Awaits(r, d) /\ Owing(r, d, "issued")
    BY <2>2, <2>7, ArrivalTold
  <2> HIDE DEF r
  <2>9. Numbered(posted', movements', slot')
    <3>1. /\ slot'[s] = r /\ \A t \in Slots \ {s} : slot'[t] = slot[t]
      BY <1>1, <2>1
    <3>2. \A t \in Slots : Pending(slot'[t]) \subseteq Pending(slot[t])
      BY <2>6, <3>1
    <3> QED
      BY <1>2, <3>2 DEF ValuationInv, Numbered
  <2>10. Total(posted, a, Accounts) \in Int
    <3>1. Countable(posted) /\ Countable({}) /\ posted \cap {} = {}
      BY BooksCount, TotalOfFew DEF LedgerInv
    <3> QED
      BY <3>1, TotalJoined
  <2>11. Gaps(movements, posted) \in Int
    BY GapsStay
  <2>12. ASSUME GoodsKept(lost)
         PROVE  \A e \in Weighty :
                  e \notin contended' /\ Delivered(e, movements', status', posted', slot', lost')
    <3>1. ASSUME NEW e \in Weighty
          PROVE  /\ e \notin contended'
                 /\ Delivered(e, movements', status', posted', slot', lost')
      <4>1. e \notin contended /\ Delivered(e, movements, status, posted, slot, lost)
        BY <2>12 DEF ValuationInv
      <4>2. CASE e # d
        <5>1. status'[e] = status[e]
          BY <1>1, <2>1, <4>2 DEF Weighty
        <5>2. Delivered(e, movements', status', posted', slot', lost')
          BY <1>1, <1>2, <2>1, <2>7, <4>1, <5>1, DeliveredStill
        <5> QED
          BY <1>2, <4>1, <5>2
      <4>3. CASE e = d
        <5>1. status'[d] = "issued"
          BY <1>1, <2>1, <2>3, <2>5
        <5>2. /\ slot'[s] = r /\ \A t \in Slots \ {s} : slot'[t] = slot[t]
          BY <1>1, <2>1
        <5>3. Awaited(slot', d) /\ Awaited(slot, d)
          BY <2>7, <2>8, <5>2 DEF Awaited
        <5>4. "issued" \in Owed(slot', d)
          BY <2>8, <5>2 DEF Owed, Parts
        <5>5. \A t \in Slots : FullCalls(slot'[t], d)
          BY <2>7, <4>1, <4>3, <5>2 DEF Delivered
        <5>6. Delivered(d, movements', status', posted', slot', lost')
          BY <1>2, <4>1, <4>3, <5>1, <5>3, <5>4, <5>5 DEF Delivered
        <5> QED
          BY <1>2, <4>1, <4>3, <5>6
      <4> QED
        BY <4>2, <4>3
    <3> QED
      BY <3>1
  <2>13. shelf' - shelf = (Total(posted', a, Accounts) - Total(posted, a, Accounts))
                           + (Carries(r) - Carries(slot[s]))
                           + (Gaps(movements', posted') - Gaps(movements, posted))
    BY <1>2, <2>1, <2>6, <2>10, <2>11
  <2>14. ASSUME GoodsKept(lost')
         PROVE  GoodsKept(lost)
    BY <1>2, <2>14
  <2>15. /\ Total(posted', a, Accounts) \in Int /\ shelf' \in Int
         /\ Gaps(movements', posted') \in Int
    BY <1>2, <2>1, <2>10, <2>11
  <2> QED
    BY <1>1, <2>4, <2>6, <2>9, <2>11, <2>12, <2>13, <2>14, <2>15, ValuationGoesOn, Zenon
<1> QED
  BY <1>3, <1>4

\* Who is to move the goods of a document works on it.
LEMMA AwaitsBusy ==
  ASSUME LedgerInv, ControlsInv, NEW s \in Slots, NEW d, Awaits(slot[s], d)
  PROVE  Busy(slot[s], d)
<1> DEFINE q == slot[s]
<1>1. /\ Fits(q) /\ HandlerFits(q, status, contended)
  BY DEF LedgerInv, BooksTyped, ControlsInv
<1>2. PICK i \in DOMAIN q : q[i].do = "apply" /\ q[i].doc = d
  BY DEF Awaits, CallsOf
<1>3. PICK S : q \in Seq(S)
  BY <1>1, FitsIsList
<1> HIDE DEF q
<1>4. q # <<>> /\ i \in 1..Len(q) /\ Len(q) \in Nat
  BY <1>2, <1>3
<1>5. ~Lone(q)
  <2>1. SUFFICES ASSUME q = <<q[1]>>, q[1].do \in JournalCalls \cup {"outstanding"} PROVE FALSE
    BY DEF Lone
  <2>2. DOMAIN q = {1}
    BY <2>1, FewCalls
  <2> QED
    BY <1>2, <2>1, <2>2 DEF JournalCalls
<1>6. ~InRepair(q, status, contended)
  BY <1>2, <1>4 DEF InRepair, RepairCall
<1>7. PICK e, x : Attends(q, status, contended, e, x)
  BY <1>1, <1>4, <1>5, <1>6 DEF HandlerFits
<1>8. Minds(q, e)
  BY <1>7, DoingTold DEF Attends
<1>9. d \in Touched(q)
  BY <1>2 DEF Touched
<1> QED
  BY <1>8, <1>9 DEF Minds, Busy, q

\* Who moves the goods of a document next has then to post it, and no more.
LEMMA ApplyShape ==
  ASSUME NEW q, NEW d, NEW x, Doing(q, d, x), Head(q).do = "apply"
  PROVE  /\ x = "issued" /\ q # <<>> /\ Head(q).doc = d
         /\ Tail(q) = <<Plan(d, "issued")>> /\ CallsOf(Tail(q)) = {Plan(d, "issued")}
<1>1. /\ \A y : Write(d, y).do = "write"
      /\ \A w : ApplyMove(d, w).do = "apply" /\ ApplyMove(d, w).doc = d
  BY CallsTold
<1>2. ~Writing(q, d, x)
  <2>1. ASSUME Writing(q, d, x) PROVE FALSE
    <3>1. \E y : Head(q) = Write(d, y)
      BY <2>1, FewCalls DEF Writing
    <3> QED
      BY <1>1, <3>1
  <2> QED
    BY <2>1
<1>3. \A c, part : ~BooksPart(q, d, x, c, part)
  <2>1. ASSUME NEW c, NEW part, BooksPart(q, d, x, c, part) PROVE FALSE
    <3>1. Head(q) = c /\ c.do # "apply"
      BY <2>1, FewCalls DEF BooksPart, PostsPart
    <3> QED
      BY <3>1
  <2> QED
    BY <2>1
<1>4. \A c : ~BooksGoods(q, d, x, c)
  <2>1. ASSUME NEW c, BooksGoods(q, d, x, c) PROVE FALSE
    <3>1. Head(q) = c /\ c.do # "apply"
      BY <2>1, FewCalls DEF BooksGoods, MovesGoods
    <3> QED
      BY <3>1
  <2> QED
    BY <2>1
<1>5. Applying(q, d, x)
  BY <1>2, <1>3, <1>4 DEF Doing
<1>6. PICK way \in MovementWays : q = <<ApplyMove(d, way), Plan(d, "issued")>>
  BY <1>5 DEF Applying
<1> DEFINE m == ApplyMove(d, way)
           p == Plan(d, "issued")
<1>7. m.doc = d
  BY <1>1
<1>8. q = <<m, p>>
  BY <1>6
<1> HIDE DEF m, p
<1>9. /\ q # <<>> /\ Head(q) = m /\ Tail(q) = <<p>>
      /\ DOMAIN <<p>> = {1} /\ <<p>>[1] = p
  BY <1>8, FewCalls
<1>10. CallsOf(<<p>>) = {p}
  BY <1>9 DEF CallsOf
<1> QED
  BY <1>5, <1>7, <1>9, <1>10 DEF Applying, p

\* What is on the books counts, and so does what is between them and the stock.
LEMMA BooksInt ==
  ASSUME NEW a, LedgerInv
  PROVE  /\ Total(posted, a, Accounts) \in Int
         /\ \A moved, rows : Gaps(moved, rows) \in Int
         /\ \A r \in posted : r.key.nth \in Nat /\ r.key.doc \in Documents
<1>1. Countable(posted) /\ Countable({}) /\ posted \cap {} = {}
  BY BooksCount, TotalOfFew DEF LedgerInv
<1>2. Total(posted, a, Accounts) \in Int
  BY <1>1, TotalJoined
<1>3. \A moved, rows : Gaps(moved, rows) \in Int
  BY GapsStay
<1>4. posted \subseteq Entries
  BY DEF LedgerInv, BooksTyped, Bookable
<1> QED
  BY <1>2, <1>3, <1>4 DEF Entries, Keys

\* More movements leave those that wait with the numbers they have.
LEMMA NumbersStay ==
  ASSUME LedgerInv, Numbered(posted, movements, slot), NEW s \in Slots, NEW q,
         slot' = [slot EXCEPT ![s] = q], Pending(q) \subseteq Pending(slot[s]),
         posted' = posted, movements' \in [Documents -> Nat],
         \A e \in Documents : movements[e] <= movements'[e]
  PROVE  Numbered(posted', movements', slot')
<1> DEFINE none == {}
<1>1. DOMAIN slot = Slots /\ movements \in [Documents -> Nat]
  BY DEF LedgerInv, BooksTyped
<1>2. /\ \A r \in posted \cup none : r.key.nth \in Nat /\ r.key.doc \in Documents
      /\ \A r \in none : r.key.nth <= movements[r.key.doc]
      /\ \A t \in Slots : \A p \in Pending(slot'[t]) :
           \A r \in none : <<r.key.doc, r.key.nth>> # p
      /\ posted \cup none = posted
  BY BooksInt
<1> HIDE DEF none
<1>3. Numbered(posted \cup none, movements', slot')
  BY <1>1, <1>2, NumbersGoOn
<1> QED
  BY <1>2, <1>3

\* Goods that move with their document are ahead of the books until that is posted.
LEMMA ApplyValue ==
  ASSUME NEW a \in Accounts, LedgerInv, ControlsInv, ValuationInv(a), NEW s \in Slots,
         MoveStock(s), At(s, "apply")
  PROVE  ValuationInv(a)'
<1> DEFINE q == slot[s]
           r == Tail(q)
           d == Call(s).doc
           value == Worth[d].goods
<1>1. /\ q # <<>> /\ Head(q) = Call(s) /\ Call(s).do = "apply" /\ slot[s] # Idle
  BY DEF At, Call, Idle
<1>2. /\ slot' = [slot EXCEPT ![s] = r]
      /\ movements' = [movements EXCEPT ![d] = movements[d] + 1]
      /\ shelf' = IF Call(s).way = "transfer" THEN shelf
                  ELSE IF Leaves(Call(s).way) THEN shelf - value ELSE shelf + value
      /\ posted' = posted /\ lost' = lost /\ contended' = contended /\ status' = status
  BY <1>1 DEF MoveStock, At, ledgerVars, historyVars
<1>3. /\ Fits(q) /\ GoodsFits(q) /\ DOMAIN slot = Slots /\ shelf \in Int
      /\ movements \in [Documents -> Nat] /\ Numbered(posted, movements, slot)
  BY DEF LedgerInv, BooksTyped, ValuationInv
<1>4. Ordinary(r) /\ Fits(r) /\ CallFits(Head(q))
  BY <1>1, <1>3, RestFits DEF Fits
<1>5. d \in Documents
  BY <1>1, <1>4 DEF CallFits, DocumentCalls
<1>6. /\ GoodsFits(r) /\ Carries(r) = 0 /\ Pending(r) = {} /\ Carries(q) = 0
      /\ GoodsCall(Head(q))
  BY <1>1, <1>3, GoodsRest DEF Carries, IsMoved
<1>7. Stocks(d) /\ Call(s).way = Way(d)
  BY <1>1, <1>6 DEF GoodsCall
<1>8. PICK e, x : Attends(q, status, contended, e, x)
  BY <1>1, AtDocument
<1>9. /\ x = "issued" /\ e = d /\ CallsOf(r) = {Plan(d, "issued")}
  BY <1>1, <1>8, ApplyShape DEF Attends
<1>10. ASSUME NEW c
       PROVE  /\ ~Awaits(r, c)
              /\ c # d => (Awaits(r, c) <=> Awaits(q, c))
              /\ FullCalls(r, c)
              /\ Owing(q, c, "issued") => Owing(r, c, "issued")
  <2>1. /\ Awaits(q, c) <=> (Head(q).do = "apply" /\ Head(q).doc = c) \/ Awaits(r, c)
        /\ \A part : Owing(q, c, part) <=>
              ~Reports(q) /\ (PostsPart(Head(q), c, part) \/ Owing(r, c, part))
    BY <1>1, <1>3, LeftToDo
  <2>2. ~PostsPart(Head(q), c, "issued")
    BY <1>1 DEF PostsPart
  <2>3. Plan(d, "issued").do = "plan"
    BY CallsTold
  <2>4. ~Awaits(r, c) /\ FullCalls(r, c)
    BY <1>9, <2>3 DEF Awaits, FullCalls, FullCall
  <2> HIDE DEF q, r
  <2> QED
    BY <1>1, <2>1, <2>2, <2>4
<1>11. /\ movements' \in [Documents -> Nat] /\ movements'[d] # 0
       /\ \A c \in Documents \ {d} : movements'[c] = movements[c]
       /\ \A c \in Documents : movements[c] <= movements'[c]
  BY <1>2, <1>3, <1>5
<1>12. Numbered(posted', movements', slot')
  <2>1. Pending(r) \subseteq Pending(slot[s])
    BY <1>6
  <2> HIDE DEF r
  <2> QED
    BY <1>2, <1>3, <1>11, <2>1, NumbersStay
<1>13. shelf' - shelf = Brings(d) /\ shelf' \in Int /\ Brings(d) \in Int
  <2>1. value \in Nat
    BY <1>5, WorthTyped
  <2>2. Way(d) \in {"out", "in"}
    BY DEF Way
  <2>3. Brings(d) = IF Leaves(Way(d)) THEN -value ELSE value
    BY <1>7, <2>2 DEF Brings, Gain
  <2> HIDE DEF value
  <2> QED
    BY <1>2, <1>3, <1>7, <2>1, <2>2, <2>3
<1>14. ASSUME GoodsKept(lost')
       PROVE  /\ GoodsKept(lost)
              /\ \A c \in Weighty :
                   c \notin contended' /\ Delivered(c, movements', status', posted', slot', lost')
              /\ shelf' - shelf = (Total(posted', a, Accounts) - Total(posted, a, Accounts))
                                   + (Carries(r) - Carries(slot[s]))
                                   + (Gaps(movements', posted') - Gaps(movements, posted))
  <2>1. GoodsKept(lost)
    BY <1>2, <1>14
  <2>2. \A c \in Weighty :
          c \notin contended /\ Delivered(c, movements, status, posted, slot, lost)
    BY <2>1 DEF ValuationInv
  <2>3. ASSUME d \in Weighty
        PROVE  /\ movements[d] = 0 /\ Delivered(d, movements', status', posted', slot', lost')
    <3>1. d \notin contended /\ Delivered(d, movements, status, posted, slot, lost)
      BY <2>2, <2>3
    <3>2. Awaits(q, d)
      BY <1>1, <1>3, LeftToDo
    <3>3. movements[d] = 0
      BY <3>1, <3>2 DEF Delivered, Awaited
    <3>4. \A t \in Slots \ {s} : ~Busy(slot[t], d)
      BY <1>8, <1>9, <3>1, InHand
    <3>5. status[d] = "issued"
      BY <1>8, <1>9, <3>1, InHand
    <3>6. /\ slot'[s] = r /\ \A t \in Slots \ {s} : slot'[t] = slot[t]
      BY <1>2, <1>3
    <3>7. \A t \in Slots : ~Awaits(slot'[t], d)
      <4>1. \A t \in Slots \ {s} : ~Awaits(slot[t], d)
        BY <3>4, AwaitsBusy
      <4> QED
        BY <1>10, <3>6, <4>1
    <3>8. ~Awaited(slot', d)
      BY <3>7 DEF Awaited
    <3>9. \A t \in Slots : FullCalls(slot'[t], d)
      BY <1>10, <3>1, <3>6 DEF Delivered
    <3>10. "issued" \in Owed(slot, d) => "issued" \in Owed(slot', d)
      <4>1. \A t \in Slots : Owing(slot[t], d, "issued") => Owing(slot'[t], d, "issued")
        BY <1>10, <3>6
      <4> QED
        BY <4>1 DEF Owed
    <3>11. Delivered(d, movements', status', posted', slot', lost')
      BY <1>2, <1>11, <3>1, <3>5, <3>8, <3>9, <3>10 DEF Delivered
    <3> QED
      BY <3>3, <3>11
  <2>4. ASSUME NEW c \in Weighty, c # d
        PROVE  Delivered(c, movements', status', posted', slot', lost')
    <3>1. Delivered(c, movements, status, posted, slot, lost)
      BY <2>2
    <3>2. movements'[c] = movements[c]
      BY <1>11, <2>4 DEF Weighty
    <3> HIDE DEF r
    <3> QED
      BY <1>2, <1>3, <1>10, <2>4, <3>1, <3>2, DeliveredStill
  <2>5. Gaps(movements', posted') - Gaps(movements, posted) = Brings(d)
    <3>1. GapShifts(movements, movements', posted, posted', d)
      BY <1>2, <1>5, <1>11, GapsGoOn
    <3>2. Gap(movements', posted', d) - Gap(movements, posted, d) = Brings(d)
      <4>1. CASE d \in Weighty
        <5>1. movements[d] = 0 /\ movements'[d] # 0 /\ OnFile(posted', d) = OnFile(posted, d)
          BY <1>2, <1>11, <2>3, <4>1
        <5> QED
          BY <1>13, <5>1 DEF Gap
      <4>2. CASE d \notin Weighty
        <5>1. Brings(d) = 0
          BY <1>5, <1>7, <4>2 DEF Weighty, Brings, Gain
        <5> QED
          BY <5>1 DEF Gap
      <4> QED
        BY <4>1, <4>2
    <3> QED
      BY <1>13, <3>1, <3>2 DEF GapShifts
  <2>6. shelf' - shelf = (Total(posted', a, Accounts) - Total(posted, a, Accounts))
                          + (Carries(r) - Carries(slot[s]))
                          + (Gaps(movements', posted') - Gaps(movements, posted))
    <3>1. Total(posted, a, Accounts) \in Int
      BY BooksInt
    <3> QED
      BY <1>2, <1>6, <1>13, <2>5, <3>1
  <2> QED
    BY <1>2, <2>1, <2>2, <2>3, <2>4, <2>6
<1>15. /\ Total(posted', a, Accounts) \in Int /\ Gaps(movements', posted') \in Int
       /\ Gaps(movements, posted) \in Int
  BY <1>2, BooksInt
<1> HIDE DEF r
<1> QED
  BY <1>2, <1>4, <1>6, <1>12, <1>13, <1>14, <1>15, ValuationGoesOn, Zenon DEF q

\* A movement that is made gets a number of its own, to be booked under.
LEMMA NumbersTaken ==
  ASSUME LedgerInv, Numbered(posted, movements, slot), NEW s \in Slots, NEW q,
         slot' = [slot EXCEPT ![s] = q], posted' = posted, NEW d \in Documents,
         movements' = [movements EXCEPT ![d] = movements[d] + 1],
         Pending(q) = {<<d, movements[d] + 1>>}
  PROVE  Numbered(posted', movements', slot')
<1> DEFINE n == movements[d] + 1
<1>1. /\ DOMAIN slot = Slots /\ movements \in [Documents -> Nat]
      /\ \A r \in posted : r.key.nth \in Nat /\ r.key.doc \in Documents
  BY BooksInt DEF LedgerInv, BooksTyped
<1>2. /\ slot'[s] = q /\ \A t \in Slots \ {s} : slot'[t] = slot[t]
  BY <1>1
<1>3. /\ movements'[d] = n /\ n \in Nat /\ n > movements[d] /\ n \in 1..n
      /\ \A e \in Documents : movements'[e] \in Nat /\ movements[e] \in Nat
                                /\ movements[e] <= movements'[e]
  BY <1>1
<1>4. /\ \A r \in posted : r.key.nth <= movements[r.key.doc]
      /\ \A t \in Slots : \A p \in Pending(slot[t]) :
           /\ p[1] \in Documents /\ p[2] \in 1..movements[p[1]]
           /\ \A r \in posted : <<r.key.doc, r.key.nth>> # p
      /\ \A t, u \in Slots : t # u => Pending(slot[t]) \cap Pending(slot[u]) = {}
  BY DEF Numbered
<1>5. Pending(q) = {<<d, n>>}
  OBVIOUS
<1> HIDE DEF n
<1>6. ASSUME NEW r \in posted
      PROVE  r.key.nth <= movements'[r.key.doc] /\ <<r.key.doc, r.key.nth>> # <<d, n>>
  <2>1. r.key.nth \in Nat /\ r.key.doc \in Documents /\ r.key.nth <= movements[r.key.doc]
    BY <1>1, <1>4
  <2>2. r.key.doc = d => r.key.nth # n
    BY <1>3, <2>1
  <2>3. r.key.nth <= movements'[r.key.doc]
    BY <1>3, <2>1
  <2> QED
    BY <2>2, <2>3
<1>7. ASSUME NEW t \in Slots, t # s, NEW p \in Pending(slot[t])
      PROVE  p[1] \in Documents /\ p[2] \in 1..movements'[p[1]] /\ p # <<d, n>>
  <2>1. p[1] \in Documents /\ p[2] \in 1..movements[p[1]]
    BY <1>4
  <2>2. p[1] = d => p[2] # n
    BY <1>3, <2>1
  <2>3. p[2] \in 1..movements'[p[1]]
    BY <1>3, <2>1
  <2> QED
    BY <2>1, <2>2, <2>3
<1>8. ASSUME NEW t \in Slots, NEW p \in Pending(slot'[t])
      PROVE  /\ p[1] \in Documents /\ p[2] \in 1..movements'[p[1]]
             /\ \A r \in posted' : <<r.key.doc, r.key.nth>> # p
  <2>1. CASE t = s
    <3>1. p = <<d, n>>
      BY <1>2, <1>5, <1>8, <2>1
    <3>2. p[1] = d /\ p[2] = n
      BY <3>1
    <3> QED
      BY <1>3, <1>6, <3>1, <3>2
  <2>2. CASE t # s
    <3>1. p \in Pending(slot[t])
      BY <1>2, <1>8, <2>2
    <3> QED
      BY <1>4, <1>7, <2>2, <3>1
  <2> QED
    BY <2>1, <2>2
<1>9. ASSUME NEW t \in Slots, NEW u \in Slots, t # u
      PROVE  Pending(slot'[t]) \cap Pending(slot'[u]) = {}
  <2>1. CASE t = s
    <3>1. slot'[u] = slot[u] /\ slot'[t] = q
      BY <1>2, <1>9, <2>1
    <3>2. \A p \in Pending(slot[u]) : p # <<d, n>>
      BY <1>7, <1>9, <2>1
    <3> QED
      BY <1>5, <3>1, <3>2
  <2>2. CASE u = s
    <3>1. slot'[t] = slot[t] /\ slot'[u] = q
      BY <1>2, <1>9, <2>2
    <3>2. \A p \in Pending(slot[t]) : p # <<d, n>>
      BY <1>7, <1>9, <2>2
    <3> QED
      BY <1>5, <3>1, <3>2
  <2>3. CASE t # s /\ u # s
    <3>1. slot'[t] = slot[t] /\ slot'[u] = slot[u]
      BY <1>2, <2>3
    <3> QED
      BY <1>4, <1>9, <3>1
  <2> QED
    BY <2>1, <2>2, <2>3
<1> QED
  BY <1>6, <1>8, <1>9 DEF Numbered

\* Goods that move by themselves are on their way into the books from then on.
LEMMA RecordValue ==
  ASSUME NEW a \in Accounts, LedgerInv, ValuationInv(a), NEW s \in Slots,
         MoveStock(s), At(s, "record")
  PROVE  ValuationInv(a)'
<1> DEFINE q == slot[s]
           r == Tail(q)
           d == Call(s).doc
           way == Call(s).way
           value == Worth[d].goods
           c == PostMove(d, way, movements[d] + 1)
           p == <<c>> \o r
<1>1. /\ q # <<>> /\ Head(q) = Call(s) /\ Call(s).do = "record"
  BY DEF At, Call, Idle
<1>2. /\ slot' = [slot EXCEPT ![s] = p]
      /\ movements' = [movements EXCEPT ![d] = movements[d] + 1]
      /\ shelf' = IF way = "transfer" THEN shelf
                  ELSE IF Leaves(way) THEN shelf - value ELSE shelf + value
      /\ posted' = posted /\ lost' = lost /\ contended' = contended /\ status' = status
  BY DEF MoveStock, ledgerVars, historyVars
<1>3. /\ Fits(q) /\ GoodsFits(q) /\ DOMAIN slot = Slots /\ shelf \in Int
      /\ movements \in [Documents -> Nat] /\ Numbered(posted, movements, slot)
  BY DEF LedgerInv, BooksTyped, ValuationInv
<1>4. /\ Ordinary(r) /\ CallFits(Head(q))
  BY <1>1, <1>3, RestFits
<1>5. d \in Documents /\ way \in MovementWays
  BY <1>1, <1>4 DEF CallFits, DocumentCalls
<1>6. /\ GoodsCall(Head(q)) /\ Carries(q) = 0
  BY <1>1, <1>3, GoodsRest DEF Carries, IsMoved
<1>7. ~Stocks(d)
  BY <1>1, <1>6 DEF GoodsCall
<1>8. /\ c.do = "plan" /\ c.doc = d /\ c.what = way /\ c.nth = movements[d] + 1
  BY CallsTold
<1>9. movements[d] + 1 \in Nat
  BY <1>3, <1>5
<1>10. Ordinary(p) /\ Fits(p)
  <2>1. Plain(c)
    BY <1>5, <1>9, DocumentCallsFit
  <2> HIDE DEF c, r
  <2> QED
    BY <1>4, <2>1, OrdinaryLists DEF Fits
<1>11. /\ GoodsFits(p) /\ Carries(p) = Gain(d, way) /\ Pending(p) = {<<d, movements[d] + 1>>}
  <2>1. GoodsCall(c) /\ c.do # "write" /\ IsMoved(c) /\ Numbers(c) = {<<d, movements[d] + 1>>}
    BY <1>5, <1>7, <1>8 DEF GoodsCall, IsMoved, Numbers
  <2> HIDE DEF c
  <2>2. \A k : GoodsCall(k) /\ k.do # "write" =>
              /\ GoodsFits(<<k>> \o Tail(q))
              /\ Carries(<<k>> \o Tail(q)) = IF IsMoved(k) THEN Gain(k.doc, k.what) ELSE 0
              /\ Pending(<<k>> \o Tail(q)) = IF IsMoved(k) THEN Numbers(k) ELSE {}
    BY <1>1, <1>3, GoodsRest
  <2> QED
    BY <1>8, <2>1, <2>2
<1>12. ASSUME NEW e
       PROVE  /\ Awaits(p, e) <=> Awaits(q, e)
              /\ FullCalls(q, e) => FullCalls(p, e)
              /\ Owing(q, e, "issued") => Owing(p, e, "issued")
  <2>1. /\ Awaits(q, e) <=> (Head(q).do = "apply" /\ Head(q).doc = e) \/ Awaits(r, e)
        /\ Awaits(p, e) <=> (c.do = "apply" /\ c.doc = e) \/ Awaits(r, e)
        /\ FullCalls(q, e) <=> FullCall(Head(q), e) /\ FullCalls(r, e)
        /\ FullCalls(p, e) <=> FullCall(c, e) /\ FullCalls(r, e)
        /\ Reports(q) <=> Head(q).do = "report" \/ Reports(r)
        /\ Reports(p) <=> c.do = "report" \/ Reports(r)
        /\ \A part : Owing(q, e, part) <=>
             ~Reports(q) /\ (PostsPart(Head(q), e, part) \/ Owing(r, e, part))
        /\ \A part : Owing(p, e, part) <=>
             ~Reports(p) /\ (PostsPart(c, e, part) \/ Owing(r, e, part))
    <3> HIDE DEF c
    <3> QED
      BY <1>1, <1>3, LeftToDo
  <2>2. ~PostsPart(Head(q), e, "issued") /\ FullCall(c, e)
    BY <1>1, <1>8 DEF PostsPart, FullCall
  <2> HIDE DEF q, r, p, c
  <2> QED
    BY <1>1, <1>8, <2>1, <2>2
<1>13. Numbered(posted', movements', slot')
  <2> HIDE DEF p, d
  <2> QED
    BY <1>2, <1>3, <1>5, <1>11, NumbersTaken
<1>14. /\ shelf' - shelf = Gain(d, way) /\ shelf' \in Int /\ Gain(d, way) \in Int
  <2>1. value \in Nat
    BY <1>5, WorthTyped
  <2>2. Gain(d, way) = IF way = "transfer" THEN 0 ELSE IF Leaves(way) THEN -value ELSE value
    BY DEF Gain
  <2> HIDE DEF value, way, d
  <2> QED
    BY <1>2, <1>3, <2>1, <2>2
<1>15. Gaps(movements', posted') = Gaps(movements, posted)
  <2>1. ASSUME NEW e \in Documents
        PROVE  Gap(movements', posted', e) = Gap(movements, posted, e)
    <3>1. CASE e = d
      <4>1. Brings(e) = 0
        BY <1>7, <3>1 DEF Brings
      <4> QED
        BY <4>1 DEF Gap
    <3>2. CASE e # d
      <4>1. movements'[e] = movements[e]
        BY <1>2, <1>3, <3>2
      <4> QED
        BY <1>2, <4>1 DEF Gap
    <3> QED
      BY <3>1, <3>2
  <2> QED
    BY <2>1, GapsStay
<1>16. /\ Total(posted', a, Accounts) \in Int /\ Total(posted, a, Accounts) \in Int
       /\ Gaps(movements', posted') \in Int /\ Gaps(movements, posted) \in Int
  BY <1>2, BooksInt
<1>17. ASSUME GoodsKept(lost')
       PROVE  /\ GoodsKept(lost)
              /\ \A e \in Weighty :
                   e \notin contended' /\ Delivered(e, movements', status', posted', slot', lost')
              /\ shelf' - shelf = (Total(posted', a, Accounts) - Total(posted, a, Accounts))
                                   + (Carries(p) - Carries(slot[s]))
                                   + (Gaps(movements', posted') - Gaps(movements, posted))
  <2>1. GoodsKept(lost)
    BY <1>2, <1>17
  <2>2. ASSUME NEW e \in Weighty
        PROVE  e \notin contended' /\ Delivered(e, movements', status', posted', slot', lost')
    <3>1. e \notin contended /\ Delivered(e, movements, status, posted, slot, lost)
      BY <2>1, <2>2 DEF ValuationInv
    <3>2. movements'[e] = movements[e]
      BY <1>2, <1>3, <1>7 DEF Weighty
    <3>3. FullCalls(q, e)
      BY <3>1 DEF Delivered
    <3> HIDE DEF p, d
    <3>4. Delivered(e, movements', status', posted', slot', lost')
      BY <1>2, <1>3, <1>12, <3>1, <3>2, <3>3, DeliveredStill
    <3> QED
      BY <1>2, <3>1, <3>4
  <2>3. shelf' - shelf = (Total(posted', a, Accounts) - Total(posted, a, Accounts))
                          + (Carries(p) - Carries(slot[s]))
                          + (Gaps(movements', posted') - Gaps(movements, posted))
    <3> HIDE DEF p, d, way
    <3> QED
      BY <1>2, <1>6, <1>11, <1>14, <1>15, <1>16
  <2> QED
    BY <2>1, <2>2, <2>3
<1> HIDE DEF p
<1> QED
  BY <1>2, <1>10, <1>11, <1>13, <1>14, <1>16, <1>17, ValuationGoesOn, Zenon

\* Goods that are worth nothing change nothing by moving.
LEMMA NoGain ==
  ASSUME NEW d, Worth[d].goods = 0, NEW way
  PROVE  Gain(d, way) = 0
<1> DEFINE value == Worth[d].goods
<1>1. value = 0
  OBVIOUS
<1>2. Gain(d, way) = IF way = "transfer" THEN 0 ELSE IF Leaves(way) THEN -value ELSE value
  BY DEF Gain
<1> HIDE DEF value
<1>3. -value = 0
  <2> DEFINE n == -value
  <2>1. value \in Int
    BY <1>1
  <2>2. n \in Int /\ n + value = 0
    BY <2>1
  <2> HIDE DEF n
  <2>3. n = 0
    BY <1>1, <2>2
  <2> QED
    BY <2>3 DEF n
<1> QED
  BY <1>1, <1>2, <1>3

\* Goods that were to move, or have moved and were to be booked, are unmade if the
\* handler stops.
LEMMA UnmadeGoods ==
  ASSUME NEW q, Fits(q)
  PROVE  /\ \A d : Awaits(q, d) => <<d, "goods">> \in Unmade(q)
         /\ q # <<>> /\ IsMoved(Head(q)) => <<Head(q).doc, "goods">> \in Unmade(q)
<1>1. ASSUME NEW d, Awaits(q, d)
      PROVE  <<d, "goods">> \in Unmade(q)
  <2>1. PICK i \in DOMAIN q : q[i].do = "apply" /\ q[i].doc = d
    BY <1>1 DEF Awaits, CallsOf
  <2>2. q # <<>>
    <3>1. DOMAIN <<>> = {}
      BY FewCalls
    <3> QED
      BY <2>1, <3>1
  <2>3. q[i].way \in MovementWays
    BY <2>1, <2>2, RestFits DEF CallFits
  <2>4. Concern(q[i].doc, q[i].way) = <<d, "goods">>
    BY <2>1, <2>3 DEF Concern
  <2> QED
    BY <2>1, <2>4 DEF Unmade
<1>2. ASSUME q # <<>>, IsMoved(Head(q))
      PROVE  <<Head(q).doc, "goods">> \in Unmade(q)
  <2>1. Head(q) = q[1] /\ 1 \in DOMAIN q
    BY <1>2, ListShifted
  <2>2. /\ q[1].do \in {"plan", "commit"}
        /\ Concern(q[1].doc, q[1].what) = <<Head(q).doc, "goods">>
    BY <1>2, <2>1 DEF IsMoved, Concern
  <2> QED
    BY <2>1, <2>2 DEF Unmade
<1> QED
  BY <1>1, <1>2

\* A handler may stop if it leaves no goods behind, or is known to.
LEMMA StopValue ==
  ASSUME NEW a \in Accounts, LedgerInv, ValuationInv(a), NEW s \in Slots,
         slot' = [slot EXCEPT ![s] = <<>>],
         posted' = posted, movements' = movements, shelf' = shelf,
         status' = status, contended' = contended, lost \subseteq lost',
         \/ Unmade(slot[s]) \subseteq lost'
         \/ /\ Carries(slot[s]) = 0
            /\ \A d \in Weighty : ~Awaits(slot[s], d) /\ ~Owing(slot[s], d, "issued")
  PROVE  ValuationInv(a)'
<1> DEFINE q == slot[s]
           none == <<>>
<1>1. Fits(q)
  BY DEF LedgerInv, BooksTyped
<1>2. Fits(none) /\ GoodsFits(none) /\ Carries(none) = 0 /\ Pending(none) = {}
  BY OrdinaryLists, NothingCarried DEF Fits, Idle
<1>3. \A d : ~Awaits(none, d) /\ FullCalls(none, d)
  BY NothingLeft
<1>4. slot' = [slot EXCEPT ![s] = none] /\ Pending(none) \subseteq Pending(slot[s])
  BY <1>2
<1> HIDE DEF none
<1>5. ASSUME GoodsKept(lost'), Unmade(q) \subseteq lost'
      PROVE  /\ Carries(q) = 0
             /\ \A d \in Weighty : /\ ~Awaits(q, d)
                                   /\ Owing(q, d, "issued") => <<d, "posting">> \in lost'
  <2>1. Carries(q) = 0
    <3>1. CASE q # <<>> /\ IsMoved(Head(q))
      <4>1. <<Head(q).doc, "goods">> \in lost'
        BY <1>1, <1>5, <3>1, UnmadeGoods
      <4>2. Head(q).doc \in Documents
        <5>1. CallFits(Head(q))
          BY <1>1, <3>1, RestFits
        <5> QED
          BY <3>1, <5>1 DEF CallFits, IsMoved, DocumentCalls
      <4>3. Worth[Head(q).doc].goods = 0
        BY <1>5, <4>1, <4>2 DEF GoodsKept
      <4>4. Gain(Head(q).doc, Head(q).what) = 0
        BY <4>2, <4>3, NoGain, Zenon
      <4> HIDE DEF q
      <4> QED
        BY <3>1, <4>4 DEF Carries
    <3>2. CASE ~(q # <<>> /\ IsMoved(Head(q)))
      BY <3>2 DEF Carries
    <3> QED
      BY <3>1, <3>2
  <2>2. ASSUME NEW d \in Weighty
        PROVE  /\ ~Awaits(q, d)
               /\ Owing(q, d, "issued") => <<d, "posting">> \in lost'
    <3>1. <<d, "goods">> \notin lost'
      BY <1>5 DEF GoodsKept, Weighty
    <3>2. Awaits(q, d) => <<d, "goods">> \in Unmade(q)
      BY <1>1, UnmadeGoods
    <3>3. Owing(q, d, "issued") => <<d, "posting">> \in Unmade(q)
      BY UnmadeTold DEF Parts
    <3> HIDE DEF q
    <3> QED
      BY <1>5, <3>1, <3>2, <3>3
  <2> QED
    BY <2>1, <2>2
<1>6. ASSUME GoodsKept(lost')
      PROVE  /\ Carries(none) = Carries(slot[s])
             /\ \A d \in Weighty :
                  /\ d \notin contended' /\ status'[d] = status[d]
                  /\ Awaits(none, d) <=> Awaits(slot[s], d)
                  /\ FullCalls(slot[s], d) => FullCalls(none, d)
                  /\ Owing(slot[s], d, "issued") =>
                       Owing(none, d, "issued") \/ <<d, "posting">> \in lost'
  <2>1. \A d \in Weighty : d \notin contended
    BY <1>6 DEF ValuationInv, GoodsKept
  <2>2. /\ Carries(q) = 0
        /\ \A d \in Weighty : /\ ~Awaits(q, d)
                              /\ Owing(q, d, "issued") => <<d, "posting">> \in lost'
    BY <1>5, <1>6
  <2> QED
    BY <1>2, <1>3, <2>1, <2>2
<1> QED
  BY <1>2, <1>4, <1>6, ValuationKept, Zenon

\* Goods that are not there: those of a document are known to be left behind.
LEMMA RefuseValue ==
  ASSUME NEW a \in Accounts, LedgerInv, ControlsInv, ValuationInv(a), NEW s \in Slots,
         RefuseMove(s)
  PROVE  ValuationInv(a)'
<1> DEFINE q == slot[s]
<1>1. /\ q # <<>> /\ q # Idle /\ Head(q) = Call(s) /\ Call(s).do \in {"record", "apply"}
      /\ (At(s, "apply") <=> Call(s).do = "apply")
  BY DEF RefuseMove, Moving, At, Call, Idle
<1>2. /\ slot' = [slot EXCEPT ![s] = <<>>] /\ status' = status
      /\ posted' = posted /\ contended' = contended /\ lost \subseteq lost'
      /\ movements' = movements /\ shelf' = shelf
      /\ At(s, "apply") => Unmade(q) \subseteq lost'
  BY DEF RefuseMove, ledgerVars, documentVars, Idle
<1>3. CASE Call(s).do = "apply"
  BY <1>1, <1>2, <1>3, StopValue
<1>4. CASE Call(s).do = "record"
  <2>1. Fits(q) /\ GoodsFits(q)
    BY DEF LedgerInv, BooksTyped, ValuationInv
  <2>2. Carries(q) = 0 /\ ~Stocks(Call(s).doc)
    BY <1>1, <1>4, <2>1, GoodsRest DEF Carries, IsMoved, GoodsCall
  <2>3. PICK e, x : Attends(q, status, contended, e, x)
    BY <1>1, AtDocument
  <2>4. Minds(q, e) /\ Carried(q, e, x)
    BY <1>1, <1>4, <2>3, DoingTold DEF Attends
  <2>5. Call(s).doc = e
    BY <1>1, <2>4 DEF Carried, MovesGoods
  <2>6. ASSUME NEW d \in Weighty PROVE ~Awaits(q, d) /\ ~Owing(q, d, "issued")
    <3>1. d # e
      BY <2>2, <2>5 DEF Weighty
    <3>2. ~Busy(q, d)
      BY <2>4, <3>1 DEF Minds
    <3>3. Awaits(q, d) => Busy(q, d)
      BY AwaitsBusy
    <3>4. Owing(q, d, "issued") => Busy(q, d)
      BY BusyTold
    <3> HIDE DEF q
    <3> QED
      BY <3>2, <3>3, <3>4
  <2> QED
    BY <1>2, <2>2, <2>6, StopValue
<1> QED
  BY <1>1, <1>3, <1>4

\* A client that drops its connection: the repair leaves no goods behind.
LEMMA AbandonValue ==
  ASSUME NEW a \in Accounts, LedgerInv, ControlsInv, ValuationInv(a), NEW s \in Slots,
         Abandon(s)
  PROVE  ValuationInv(a)'
<1> DEFINE q == slot[s]
<1>1. /\ q # Idle /\ Head(q) = Call(s)
      /\ slot' = [slot EXCEPT ![s] = <<>>] /\ status' = status
      /\ posted' = posted /\ contended' = contended /\ lost \subseteq lost'
      /\ movements' = movements /\ shelf' = shelf
      /\ Unmade(q) \subseteq lost' \/ Repairing(s)
  BY DEF Abandon, ledgerVars, documentVars, Idle, Call
<1>2. CASE Repairing(s)
  <2>1. Reports(q)
    BY <1>2 DEF Repairing, Reports
  <2>2. \A d : ~Busy(q, d)
    BY <2>1 DEF Busy
  <2>3. \A d : ~Awaits(q, d) /\ ~Owing(q, d, "issued")
    BY <2>2, AwaitsBusy, BusyTold
  <2>4. Carries(q) = 0
    <3>1. \/ Journals(q) \/ GoesOnRepairing(q, status, contended)
          \/ \E d, x : Attends(q, status, contended, d, x)
      BY <1>1, AtHand
    <3>2. ~ \E d, x : Attends(q, status, contended, d, x)
      <4>1. ASSUME NEW d, NEW x, Attends(q, status, contended, d, x) PROVE FALSE
        <5>1. Minds(q, d)
          BY <4>1, DoingTold DEF Attends
        <5> QED
          BY <2>1, <5>1 DEF Minds
      <4> QED
        BY <4>1
    <3>3. ~IsMoved(Head(q))
      <4>1. CASE Journals(q)
        BY <4>1 DEF Journals, JournalCalls, IsMoved
      <4>2. CASE GoesOnRepairing(q, status, contended)
        BY <4>2 DEF GoesOnRepairing, RepairCall, IsMoved, MovementWays
      <4> QED
        BY <3>1, <3>2, <4>1, <4>2
    <3> QED
      BY <3>3 DEF Carries
  <2> QED
    BY <1>1, <2>3, <2>4, StopValue
<1>3. CASE ~Repairing(s)
  BY <1>1, <1>3, StopValue
<1> QED
  BY <1>2, <1>3

-----------------------------------------------------------------------------
(* Posting goods *)

\* What a movement is booked as: under its number, and only under perpetual costing.
LEMMA MovePlanned ==
  ASSUME NEW c, c.what \in MovementWays, NEW m
  PROVE  /\ PlannedRows(c, m) = Rows(c.doc, MovementLegs(c.doc, c.what, Perpetual(m)), c.nth, m)
         /\ \A r \in PlannedRows(c, m) : r.key.doc = c.doc /\ r.key.nth = c.nth
         /\ ~Perpetual(m) => PlannedRows(c, m) = {}
<1> DEFINE legs == MovementLegs(c.doc, c.what, Perpetual(m))
<1>1. c.what # "undone"
  BY DEF MovementWays
<1>2. PlannedRows(c, m) = Rows(c.doc, legs, c.nth, m)
  BY <1>1 DEF PlannedRows, Legs
<1>3. \A r \in Rows(c.doc, legs, c.nth, m) : r.key.doc = c.doc /\ r.key.nth = c.nth
  <2> HIDE DEF legs
  <2>1. \A r \in Rows(c.doc, legs, c.nth, m) :
          \E l \in legs : l.amount # 0 /\ Keyed(r.key, c.doc, l.name, c.nth, FALSE)
    BY RowKeys
  <2> QED
    BY <2>1 DEF Keyed
<1>4. ~Perpetual(m) => Rows(c.doc, legs, c.nth, m) = {}
  BY DEF MovementLegs, Rows
<1> QED
  BY <1>2, <1>3, <1>4

\* What is planned of goods is all of them, or they are known to be left out.
LEMMA GoodsPlanned ==
  ASSUME NEW a \in Accounts, GoodsOn(a), LedgerInv, NEW c, CallFits(c), c.do = "plan",
         c.what \in MovementWays, NEW rows,
         rows = IF Complete(mapping) THEN PlannedRows(c, mapping) ELSE {},
         NEW lacking, GoodsKept(lacking),
         ~Complete(mapping) \/ ~Perpetual(mapping) => <<c.doc, "goods">> \in lacking,
         rows = {}
  PROVE  Gain(c.doc, c.what) = 0
<1>1. c.doc \in Documents /\ mapping \in Mappings
  BY DEF CallFits, DocumentCalls, LedgerInv, BooksTyped
<1>2. CASE ~Complete(mapping) \/ ~Perpetual(mapping)
  <2>1. Worth[c.doc].goods = 0
    BY <1>1, <1>2 DEF GoodsKept
  <2> QED
    BY <2>1, NoGain, Zenon
<1>3. CASE Complete(mapping) /\ Perpetual(mapping)
  <2>1. rows = Rows(c.doc, MovementLegs(c.doc, c.what, TRUE), c.nth, mapping)
    <3>1. Perpetual(mapping) = TRUE
      BY <1>3 DEF Perpetual
    <3> QED
      BY <1>3, <3>1, MovePlanned
  <2>2. Total(rows, a, Accounts) = Gain(c.doc, c.what)
    <3> DEFINE d == c.doc
               way == c.what
               n == c.nth
    <3>1. /\ d \in Documents /\ way \in MovementWays
          /\ rows = Rows(d, MovementLegs(d, way, TRUE), n, mapping)
      BY <1>1, <2>1
    <3> HIDE DEF d, way, n
    <3>2. Total(Rows(d, MovementLegs(d, way, TRUE), n, mapping), a, Accounts) = Gain(d, way)
      BY <1>1, <1>3, <3>1, MoveWeighs
    <3> QED
      BY <3>1, <3>2 DEF d, way
  <2>3. Total({}, a, Accounts) = 0
    BY TotalOfFew
  <2> QED
    BY <2>2, <2>3
<1> QED
  BY <1>2, <1>3

\* What is planned of a document whose goods count is all of it.
LEMMA StockPlanned ==
  ASSUME NEW a \in Accounts, GoodsOn(a), LedgerInv, NEW c, PostingFits(c), c.do = "plan",
         c.what = "issued", c.doc \in Weighty, Complete(mapping), Perpetual(mapping)
  PROVE  BookedFull(PlannedRows(c, mapping), c.doc) /\ PlannedRows(c, mapping) # {}
<1>1. mapping \in Mappings
  BY DEF LedgerInv, BooksTyped
<1>2. c.nth = 0
  BY DEF PostingFits, MovementWays
<1>3. PlannedRows(c, mapping) = Planned(c.doc, "issued", mapping)
  BY <1>2 DEF Planned, PlannedRows
<1>4. BookedFull(PlannedRows(c, mapping), c.doc)
  BY <1>1, <1>3 DEF BookedFull
<1>5. PlannedRows(c, mapping) # {}
  BY <1>4, PlannedStock DEF Weighty
<1> QED
  BY <1>4, <1>5

\* Planning moves no goods: they stay on their way until they are booked.
LEMMA PlanValue ==
  ASSUME NEW a \in Accounts, GoodsOn(a), LedgerInv, ControlsInv, ValuationInv(a), LedgerInv',
         NEW s \in Slots, PlanPosting(s)
  PROVE  ValuationInv(a)'
<1> DEFINE q == slot[s]
           r == Tail(q)
           c == Call(s)
           rows == IF Complete(mapping) THEN PlannedRows(c, mapping) ELSE {}
           k == Commit(c.doc, c.what, rows, debitNormal)
           p == IF rows = {} THEN r ELSE <<k>> \o r
<1>1. /\ q # <<>> /\ q # Idle /\ Head(q) = c /\ c.do = "plan"
  BY DEF PlanPosting, At, Call, Idle
<1>2. /\ slot' = [slot EXCEPT ![s] = p]
      /\ lost \subseteq lost'
      /\ ~Complete(mapping) => Concern(c.doc, c.what) \in lost'
      /\ ~Perpetual(mapping) => <<c.doc, "goods">> \in lost'
      /\ posted' = posted /\ movements' = movements /\ shelf' = shelf
      /\ status' = status /\ contended' = contended
  BY DEF PlanPosting, ledgerVars, documentVars
<1>3. Fits(q) /\ GoodsFits(q) /\ DOMAIN slot = Slots /\ mapping \in Mappings
  BY DEF LedgerInv, BooksTyped, ValuationInv
<1>4. CallFits(c) /\ PostingFits(c) /\ c.doc \in Documents /\ c.nth \in Nat
  <2>1. CallFits(c) /\ PostingFits(c)
    BY <1>1, AtHand
  <2> HIDE DEF c
  <2> QED
    BY <1>1, <2>1 DEF CallFits, DocumentCalls
<1>5. /\ k.do = "commit" /\ k.doc = c.doc /\ k.what = c.what /\ k.rows = rows
  BY DEF Commit
<1> HIDE DEF c, rows, k
<1>6. /\ GoodsCall(c)
      /\ GoodsFits(r) /\ Carries(r) = 0 /\ Pending(r) = {}
      /\ \A x : GoodsCall(x) /\ x.do # "write" =>
           /\ GoodsFits(<<x>> \o r)
           /\ Carries(<<x>> \o r) = IF IsMoved(x) THEN Gain(x.doc, x.what) ELSE 0
           /\ Pending(<<x>> \o r) = IF IsMoved(x) THEN Numbers(x) ELSE {}
  BY <1>1, <1>3, GoodsRest
<1>7. /\ Carries(q) = IF IsMoved(c) THEN Gain(c.doc, c.what) ELSE 0
      /\ Pending(q) = IF IsMoved(c) THEN {<<c.doc, c.nth>>} ELSE {}
      /\ IsMoved(c) <=> c.what \in MovementWays
      /\ IsMoved(k) <=> c.what \in MovementWays
  BY <1>1, <1>5 DEF Carries, Pending, Numbers, IsMoved
<1>8. c.what \in MovementWays =>
        /\ \A x \in rows : x.key.doc = c.doc /\ x.key.nth = c.nth
        /\ rows # {} => Complete(mapping) /\ Perpetual(mapping)
  BY MovePlanned DEF rows
<1>9. rows # {} => GoodsCall(k)
  <2>1. ASSUME rows # {}, c.what \in MovementWays PROVE MoveBooked(k)
    <3>1. Complete(mapping) /\ Perpetual(mapping) /\ Perpetual(mapping) = TRUE
      BY <1>8, <2>1 DEF Perpetual
    <3>2. rows = Rows(c.doc, MovementLegs(c.doc, c.what, TRUE), c.nth, mapping)
      BY <2>1, <3>1, MovePlanned DEF rows
    <3> QED
      BY <1>3, <1>4, <1>5, <3>1, <3>2 DEF MoveBooked, MoveRows
  <2> QED
    BY <1>1, <1>5, <1>6, <2>1 DEF GoodsCall
<1>10. GoodsFits(p)
  BY <1>5, <1>6, <1>9
<1>11. Pending(p) \subseteq Pending(slot[s])
  <2>1. CASE rows # {} /\ c.what \in MovementWays
    <3>1. Pending(p) = Numbers(k)
      BY <1>5, <1>6, <1>7, <1>9, <2>1
    <3>2. Numbers(k) = {<<x.key.doc, x.key.nth>> : x \in rows}
      BY <1>5 DEF Numbers
    <3>3. Numbers(k) \subseteq {<<c.doc, c.nth>>}
      BY <1>8, <2>1, <3>2
    <3> QED
      BY <1>7, <2>1, <3>1, <3>3
  <2>2. CASE rows # {} /\ c.what \notin MovementWays
    BY <1>5, <1>6, <1>7, <1>9, <2>2
  <2>3. CASE rows = {}
    BY <1>6, <2>3
  <2> QED
    BY <2>1, <2>2, <2>3
<1>12. Fits(p)
  <2>1. slot'[s] = p
    BY <1>2, <1>3
  <2> HIDE DEF p
  <2> QED
    BY <2>1 DEF LedgerInv, BooksTyped
<1>13. ASSUME GoodsKept(lost')
       PROVE  Carries(p) = Carries(slot[s])
  <2>1. CASE rows # {}
    BY <1>5, <1>6, <1>7, <1>9, <2>1
  <2>2. CASE rows = {} /\ c.what \notin MovementWays
    BY <1>6, <1>7, <2>2
  <2>3. CASE rows = {} /\ c.what \in MovementWays
    <3>1. ~Complete(mapping) \/ ~Perpetual(mapping) => <<c.doc, "goods">> \in lost'
      BY <1>2, <2>3 DEF Concern
    <3>2. Gain(c.doc, c.what) = 0
      BY <1>1, <1>4, <1>13, <2>3, <3>1, GoodsPlanned DEF rows
    <3> QED
      BY <1>6, <1>7, <2>3, <3>2
  <2> QED
    BY <2>1, <2>2, <2>3
<1>14. ASSUME GoodsKept(lost'), NEW d \in Weighty
       PROVE  /\ Awaits(p, d) <=> Awaits(slot[s], d)
              /\ FullCalls(slot[s], d) => FullCalls(p, d)
              /\ Owing(slot[s], d, "issued") =>
                   Owing(p, d, "issued") \/ <<d, "posting">> \in lost'
  <2> DEFINE w == <<k>> \o r
  <2>1. /\ Awaits(q, d) <=> (Head(q).do = "apply" /\ Head(q).doc = d) \/ Awaits(r, d)
        /\ Awaits(w, d) <=> (k.do = "apply" /\ k.doc = d) \/ Awaits(r, d)
        /\ FullCalls(q, d) <=> FullCall(Head(q), d) /\ FullCalls(r, d)
        /\ FullCalls(w, d) <=> FullCall(k, d) /\ FullCalls(r, d)
        /\ Reports(q) <=> Head(q).do = "report" \/ Reports(r)
        /\ Reports(w) <=> k.do = "report" \/ Reports(r)
        /\ \A part : Owing(q, d, part) <=>
             ~Reports(q) /\ (PostsPart(Head(q), d, part) \/ Owing(r, d, part))
        /\ \A part : Owing(w, d, part) <=>
             ~Reports(w) /\ (PostsPart(k, d, part) \/ Owing(r, d, part))
    BY <1>1, <1>3, LeftToDo
  <2>2. PostsPart(k, d, "issued") <=> PostsPart(Head(q), d, "issued")
    BY <1>1, <1>5 DEF PostsPart
  <2>3. <<d, "goods">> \notin lost'
    BY <1>14 DEF GoodsKept, Weighty
  <2>4. ASSUME PostsPart(Head(q), d, "issued"), Complete(mapping)
        PROVE  BookedFull(rows, d) /\ rows # {}
    <3>1. c.doc = d /\ c.what = "issued"
      BY <1>1, <2>4 DEF PostsPart
    <3>2. Perpetual(mapping)
      BY <1>2, <2>3, <3>1
    <3> QED
      BY <1>1, <1>4, <2>4, <3>1, <3>2, StockPlanned DEF rows
  <2>5. PostsPart(Head(q), d, "issued") /\ ~Complete(mapping) => <<d, "posting">> \in lost'
    BY <1>1, <1>2 DEF PostsPart, Concern, MovementWays
  <2>6. rows # {} => Complete(mapping)
    BY DEF rows
  <2>7. rows # {} => FullCall(k, d)
    BY <1>1, <1>5, <2>4, <2>6 DEF FullCall, PostsPart
  <2> HIDE DEF q, r, w
  <2>8. CASE rows = {}
    <3>1. p = r
      BY <2>8 DEF p
    <3> HIDE DEF p
    <3> QED
      BY <1>1, <2>1, <2>4, <2>5, <2>8, <3>1 DEF q
  <2>9. CASE rows # {}
    <3>1. p = w
      BY <2>9 DEF p, w
    <3> HIDE DEF p
    <3> QED
      BY <1>1, <1>5, <2>1, <2>2, <2>7, <2>9, <3>1 DEF q
  <2> QED
    BY <2>8, <2>9
<1>15. ASSUME GoodsKept(lost')
       PROVE  /\ Carries(p) = Carries(slot[s])
              /\ \A d \in Weighty :
                   /\ d \notin contended' /\ status'[d] = status[d]
                   /\ Awaits(p, d) <=> Awaits(slot[s], d)
                   /\ FullCalls(slot[s], d) => FullCalls(p, d)
                   /\ Owing(slot[s], d, "issued") =>
                        Owing(p, d, "issued") \/ <<d, "posting">> \in lost'
  <2>1. \A d \in Weighty : d \notin contended
    BY <1>2, <1>15 DEF ValuationInv, GoodsKept
  <2> HIDE DEF p
  <2> QED
    BY <1>2, <1>13, <1>14, <1>15, <2>1
<1> HIDE DEF p
<1> QED
  BY <1>2, <1>10, <1>11, <1>12, <1>15, ValuationKept, Zenon

\* Whatever mapping a document is booked in full under, it is booked under the same
\* keys, which are those of its first posting.
LEMMA FullKeys ==
  ASSUME NEW d \in Documents, NEW rows, NEW more, BookedFull(rows, d), BookedFull(more, d)
  PROVE  /\ \A r \in rows : \E x \in more : x.key = r.key
         /\ \A r \in rows : PlannedKey(r.key, d, "issued") /\ ~r.key.reversal
<1>1. MayPost(d, "issued") /\ "issued" # "undone"
  BY DEF MayPost
<1> DEFINE legs == {k \in Legs(d, "issued", TRUE) : k.amount # 0}
<1>2. ASSUME NEW some, BookedFull(some, d)
      PROVE  /\ \E m : some = {RowOf(d, l, 0, m) : l \in legs}
             /\ \A r \in some : PlannedKey(r.key, d, "issued")
  <2>1. PICK m \in Mappings : Complete(m) /\ Perpetual(m) /\ some = Planned(d, "issued", m)
    BY <1>2 DEF BookedFull
  <2>2. Perpetual(m) = TRUE
    BY <2>1 DEF Perpetual
  <2> DEFINE all == Legs(d, "issued", TRUE)
  <2>3. /\ Countable(some) /\ LegsFit(all, TRUE)
        /\ some = {RowOf(d, l, 0, m) : l \in {k \in all : k.amount # 0}}
    BY <1>1, <2>1, <2>2, PlannedOf
  <2>4. \A r \in some : PlannedKey(r.key, d, "issued")
    BY <1>1, <2>1, PlannedKeyed
  <2> QED
    BY <2>1, <2>2, <2>3, <2>4
<1> HIDE DEF legs
<1>3. PICK m : rows = {RowOf(d, l, 0, m) : l \in legs}
  BY <1>2
<1>4. PICK n : more = {RowOf(d, l, 0, n) : l \in legs}
  BY <1>2
<1>5. ASSUME NEW r \in rows PROVE (\E x \in more : x.key = r.key) /\ ~r.key.reversal
  <2>1. PICK l \in legs : r = RowOf(d, l, 0, m)
    BY <1>3
  <2>2. RowOf(d, l, 0, n) \in more
    BY <1>4
  <2>3. RowOf(d, l, 0, n).key = r.key /\ ~r.key.reversal
    BY <2>1 DEF RowOf, Key
  <2> QED
    BY <2>2, <2>3
<1> QED
  BY <1>2, <1>5

\* What a posting of a document adds to the books when it had none, and when it had
\* it already: all of it, and nothing.  It is never posted piecemeal.
PostsFull(posts, rows, fresh, d) ==
  /\ OnFile(posts, d) = {} => fresh = rows
  /\ OnFile(posts, d) # {} => fresh = {}
  /\ OnFile(posts \cup fresh, d) # {} /\ BookedFull(OnFile(posts \cup fresh, d), d)
  /\ ~ /\ \E r \in rows, p \in posts : Alike(r.key, p.key)
       /\ \E r \in rows : \A p \in posts : p.key # r.key

\* That is what it adds when it is posted in full, and was before if at all.
LEMMA FullPosting ==
  ASSUME NEW d \in Documents, NEW rows, BookedFull(rows, d), rows # {},
         NEW posts, RowsTold(posts), OnFile(posts, d) = {} \/ BookedFull(OnFile(posts, d), d),
         NEW fresh, fresh = {r \in rows : r.key \notin {p.key : p \in posts}}
  PROVE  PostsFull(posts, rows, fresh, d)
<1>1. ASSUME NEW r \in rows
      PROVE  /\ r.key.doc = d /\ r.key.nth = 0 /\ r.key.leg \notin MovementWays
             /\ r.key.reversal = FALSE /\ r.key.leg # "reimbursement"
  <2>1. PlannedKey(r.key, d, "issued") /\ ~r.key.reversal
    BY FullKeys
  <2>2. PartOf(r.key) = "issued"
    BY <2>1 DEF PlannedKey, PartOfCall
  <2>3. r.key.leg # "reimbursement"
    BY <2>1, <2>2 DEF PartOf
  <2> QED
    BY <2>1, <2>3 DEF PlannedKey
<1>2. \A some : (\A r \in some : r \in rows) => OnFile(some, d) = some
  BY <1>1 DEF OnFile, Section, PartOf
<1>3. OnFile(posts \cup fresh, d) = OnFile(posts, d) \cup OnFile(fresh, d)
  BY DEF OnFile, Section
<1>4. OnFile(fresh, d) = fresh
  BY <1>2
<1>5. ASSUME NEW r \in rows, NEW p \in posts, Alike(r.key, p.key) \/ p.key = r.key
      PROVE  p \in OnFile(posts, d)
  <2>1. /\ p.key.doc = d /\ p.key.nth = 0 /\ p.key.reversal = FALSE
        /\ p.key.leg # "reimbursement"
    BY <1>1, <1>5 DEF Alike
  <2>2. p.key.leg \notin MovementWays
    BY <2>1 DEF RowsTold
  <2> QED
    BY <2>1, <2>2 DEF OnFile, Section, PartOf
<1>6. CASE OnFile(posts, d) = {}
  <2>1. \A r \in rows, p \in posts : ~Alike(r.key, p.key) /\ p.key # r.key
    BY <1>5, <1>6
  <2>2. fresh = rows
    BY <2>1
  <2>3. OnFile(posts \cup fresh, d) = rows
    BY <1>3, <1>4, <1>6, <2>2
  <2> QED
    BY <1>6, <2>1, <2>2, <2>3 DEF PostsFull
<1>7. CASE OnFile(posts, d) # {}
  <2>1. \A r \in rows : \E p \in OnFile(posts, d) : p.key = r.key
    BY <1>7, FullKeys
  <2>2. OnFile(posts, d) \subseteq posts
    BY DEF OnFile, Section
  <2>3. \A r \in rows : \E p \in posts : p.key = r.key
    BY <2>1, <2>2
  <2>4. fresh = {}
    BY <2>3
  <2>5. OnFile(posts \cup fresh, d) = OnFile(posts, d)
    BY <2>4
  <2> QED
    BY <1>7, <2>3, <2>4, <2>5 DEF PostsFull
<1> QED
  BY <1>6, <1>7

\* What a call that posts has to do with documents and their numbers.
PostsOn(s, c, fresh) ==
  /\ slot[s] # <<>> /\ slot[s] # Idle /\ Head(slot[s]) = c /\ c.do = "commit"
  /\ CallFits(c) /\ PostingFits(c) /\ c.doc \in Documents
  /\ slot' = [slot EXCEPT ![s] = Tail(slot[s])] /\ posted' = posted \cup fresh
  /\ Countable(posted) /\ Countable(fresh) /\ posted \cap fresh = {}
  /\ status' = status /\ shelf' = shelf /\ movements' = movements
  /\ \A r \in c.rows : r.key.nth \in Nat /\ r.key.doc \in Documents
  /\ \A r \in c.rows : r.key.doc = c.doc
  /\ c.what \in MovementWays \/ \A r \in c.rows : r.key.nth = 0
  /\ contended' = contended \cup (IF Piecemeal(c.rows) THEN {c.doc} ELSE {})
  /\ c.what = "repaired" => <<c.doc, "goods">> \in lost'
  /\ \A e : <<e, "goods">> \in lost => <<e, "goods">> \in lost'
  /\ \A e : e # c.doc /\ <<e, "posting">> \in lost => <<e, "posting">> \in lost'

\* That is what it has to do when it posts what is not on the books.
LEMMA CommitTold ==
  ASSUME LedgerInv, ControlsInv, NEW s \in Slots, CommitPosting(s),
         NEW c, c = Call(s), NEW fresh, fresh = {r \in c.rows : r.key \notin {p.key : p \in posted}}
  PROVE  PostsOn(s, c, fresh)
<1>1. /\ slot[s] # <<>> /\ slot[s] # Idle /\ Head(slot[s]) = c /\ c.do = "commit"
      /\ slot' = [slot EXCEPT ![s] = Tail(slot[s])] /\ posted' = posted \cup fresh
      /\ status' = status /\ shelf' = shelf /\ movements' = movements
      /\ contended' = contended \cup (IF Piecemeal(c.rows) THEN {c.doc} ELSE {})
      /\ lost' = (lost \ (IF MadeUp(s, c) THEN {<<c.doc, "posting">>} ELSE {}))
                  \cup (IF c.what = "repaired" THEN {<<c.doc, "goods">>} ELSE {})
  BY DEF CommitPosting, At, Call, Idle, Continue, Post, documentVars
<1>2. CallFits(c) /\ PostingFits(c)
  BY <1>1, AtHand
<1>3. c.doc \in Documents /\ Bookable(c.rows)
  BY <1>1, <1>2 DEF CallFits, DocumentCalls
<1>4. \A r \in c.rows : r.key.nth \in Nat /\ r.key.doc \in Documents /\ r.amount \in Int
  BY <1>3 DEF Bookable, Entries, Keys
<1>5. Countable(posted) /\ Countable(fresh) /\ posted \cap fresh = {}
  <2>1. fresh \subseteq c.rows /\ IsFiniteSet(c.rows)
    BY <1>3 DEF Bookable
  <2>2. Countable(fresh)
    BY <1>4, <2>1, FS_Subset DEF Countable
  <2> QED
    BY <2>2, BooksCount DEF LedgerInv
<1>6. \A r \in c.rows : r.key.doc = c.doc
  <2>1. CASE c.what \in MovementWays /\ \A r \in c.rows : GoodsRow(r, c.doc)
    BY <2>1 DEF GoodsRow
  <2>2. CASE MayPost(c.doc, c.what) /\ \E m \in Mappings : Complete(m) /\ c.rows = Planned(c.doc, c.what, m)
    BY <1>3, <2>2, PlannedKeyed DEF PlannedKey
  <2> QED
    BY <1>1, <1>2, <2>1, <2>2 DEF PostingFits
<1>7. c.what \in MovementWays \/ \A r \in c.rows : r.key.nth = 0
  <2>1. CASE c.what \notin MovementWays
    <3>1. /\ MayPost(c.doc, c.what)
          /\ \E m \in Mappings : Complete(m) /\ c.rows = Planned(c.doc, c.what, m)
      BY <1>1, <1>2, <2>1 DEF PostingFits
    <3> QED
      BY <1>3, <3>1, PlannedKeyed DEF PlannedKey
  <2> QED
    BY <2>1
<1>8. /\ c.what = "repaired" => <<c.doc, "goods">> \in lost'
      /\ \A e : <<e, "goods">> \in lost => <<e, "goods">> \in lost'
      /\ \A e : e # c.doc /\ <<e, "posting">> \in lost => <<e, "posting">> \in lost'
  BY <1>1
<1> QED
  BY <1>1, <1>2, <1>3, <1>4, <1>5, <1>6, <1>7, <1>8 DEF PostsOn

\* A movement that is booked is not on the books yet; booked, its number is taken.
LEMMA CommitNumbers ==
  ASSUME NEW a, LedgerInv, ControlsInv, ValuationInv(a), NEW s \in Slots, CommitPosting(s),
         NEW c, c = Call(s), NEW fresh, fresh = {r \in c.rows : r.key \notin {p.key : p \in posted}}
  PROVE  /\ Numbered(posted', movements', slot')
         /\ c.what \in MovementWays => fresh = c.rows
<1> DEFINE q == slot[s]
           r == Tail(q)
<1>1. /\ q # <<>> /\ Head(q) = c /\ c.do = "commit"
      /\ slot' = [slot EXCEPT ![s] = r] /\ posted' = posted \cup fresh
      /\ movements' = movements
      /\ \A x \in c.rows : x.key.nth \in Nat /\ x.key.doc \in Documents
      /\ c.what \in MovementWays \/ \A x \in c.rows : x.key.nth = 0
  <2>1. PostsOn(s, c, fresh)
    BY CommitTold, Zenon
  <2> QED
    BY <2>1 DEF PostsOn
<1>2. /\ Fits(q) /\ GoodsFits(q) /\ DOMAIN slot = Slots
      /\ movements \in [Documents -> Nat] /\ Numbered(posted, movements, slot)
  BY DEF LedgerInv, BooksTyped, ValuationInv
<1>3. Pending(r) = {}
  BY <1>1, <1>2, GoodsRest
<1>4. /\ slot'[s] = r /\ \A t \in Slots \ {s} : slot'[t] = slot[t]
  BY <1>1, <1>2
<1>5. c.what \in MovementWays =>
        \A x \in c.rows : <<x.key.doc, x.key.nth>> \in Pending(q)
  BY <1>1 DEF Pending, IsMoved, Numbers
<1>6. /\ \A x \in posted : x.key.nth <= movements[x.key.doc]
      /\ \A t \in Slots : \A p \in Pending(slot[t]) :
           /\ p[1] \in Documents /\ p[2] \in 1..movements[p[1]]
           /\ \A x \in posted : <<x.key.doc, x.key.nth>> # p
      /\ \A t, u \in Slots : t # u => Pending(slot[t]) \cap Pending(slot[u]) = {}
  BY <1>2 DEF Numbered
<1>7. fresh \subseteq c.rows
  OBVIOUS
<1>8. \A x \in posted \cup fresh : x.key.nth \in Nat /\ x.key.doc \in Documents
  BY <1>1, <1>7, BooksInt
<1> HIDE DEF r
<1>9. ASSUME NEW x \in fresh
      PROVE  x.key.nth <= movements[x.key.doc]
  <2>1. movements[x.key.doc] \in Nat
    BY <1>2, <1>8
  <2>2. CASE c.what \in MovementWays
    <3>1. <<x.key.doc, x.key.nth>> \in Pending(slot[s])
      BY <1>5, <1>7, <2>2
    <3> DEFINE p == <<x.key.doc, x.key.nth>>
    <3>2. p[1] = x.key.doc /\ p[2] = x.key.nth /\ p \in Pending(slot[s])
      BY <3>1
    <3> HIDE DEF p
    <3>3. p[2] \in 1..movements[p[1]]
      BY <1>6, <3>2
    <3> QED
      BY <2>1, <3>2, <3>3
  <2>3. CASE \A y \in c.rows : y.key.nth = 0
    BY <1>7, <2>1, <2>3
  <2> QED
    BY <1>1, <2>2, <2>3
<1>10. ASSUME NEW t \in Slots, NEW p \in Pending(slot'[t]), NEW x \in fresh
       PROVE  <<x.key.doc, x.key.nth>> # p
  <2>1. t # s /\ p \in Pending(slot[t])
    BY <1>3, <1>4, <1>10
  <2>2. CASE c.what \in MovementWays
    <3>1. <<x.key.doc, x.key.nth>> \in Pending(slot[s])
      BY <1>5, <1>7, <2>2
    <3>2. Pending(slot[t]) \cap Pending(slot[s]) = {}
      BY <1>6, <2>1
    <3> QED
      BY <2>1, <3>1, <3>2
  <2>3. CASE \A y \in c.rows : y.key.nth = 0
    <3>1. p[1] \in Documents /\ p[2] \in 1..movements[p[1]]
      BY <1>6, <2>1
    <3>2. p[2] # 0
      BY <3>1
    <3>3. x.key.nth = 0
      BY <1>7, <2>3
    <3> QED
      BY <3>2, <3>3
  <2> QED
    BY <1>1, <2>2, <2>3
<1>11. Pending(r) \subseteq Pending(slot[s])
  BY <1>3
<1>12. \A e \in Documents : movements[e] <= movements[e]
  BY <1>2
<1>13. Numbered(posted \cup fresh, movements, slot')
  BY <1>1, <1>2, <1>8, <1>9, <1>10, <1>11, <1>12, NumbersGoOn
<1>14. c.what \in MovementWays => fresh = c.rows
  <2>1. ASSUME c.what \in MovementWays, NEW x \in c.rows, NEW p \in posted, p.key = x.key
        PROVE  FALSE
    <3>1. <<x.key.doc, x.key.nth>> \in Pending(slot[s])
      BY <1>5, <2>1
    <3>2. <<p.key.doc, p.key.nth>> # <<x.key.doc, x.key.nth>>
      BY <1>6, <3>1
    <3> QED
      BY <2>1, <3>2
  <2> QED
    BY <2>1
<1> QED
  BY <1>1, <1>13, <1>14

\* Such rows come to what the movement changed the worth of the stock by.
LEMMA MoveTotals ==
  ASSUME NEW a \in Accounts, GoodsOn(a), NEW d \in Documents, NEW way \in MovementWays,
         NEW rows, MoveRows(rows, d, way)
  PROVE  Total(rows, a, Accounts) = Gain(d, way)
<1>1. PICK m \in Mappings, n \in Nat :
        Complete(m) /\ Perpetual(m) /\ rows = Rows(d, MovementLegs(d, way, TRUE), n, m)
  BY DEF MoveRows
<1>2. Total(Rows(d, MovementLegs(d, way, TRUE), n, m), a, Accounts) = Gain(d, way)
  BY <1>1, MoveWeighs
<1> QED
  BY <1>1, <1>2

\* What a movement adds to the books is what it changed the worth of the stock by, and
\* nothing of its document.
Follows(a, c, fresh) ==
  /\ Total(fresh, a, Accounts) = Gain(c.doc, c.what)
  /\ \A e \in Documents : OnFile(posted \cup fresh, e) = OnFile(posted, e)

\* A movement that is booked adds that, for it is booked whole.
LEMMA GoodsAdded ==
  ASSUME NEW a \in Accounts, GoodsOn(a), LedgerInv, ControlsInv, NEW s, NEW c, NEW fresh,
         PostsOn(s, c, fresh), GoodsCall(c), c.what \in MovementWays, fresh = c.rows,
         fresh = {r \in c.rows : r.key \notin {p.key : p \in posted}}
  PROVE  Follows(a, c, fresh)
<1>1. /\ c.do = "commit" /\ c.doc \in Documents /\ PostingFits(c)
  BY DEF PostsOn
<1>2. Total(fresh, a, Accounts) = Gain(c.doc, c.what)
  <2>1. MoveRows(c.rows, c.doc, c.what)
    BY <1>1 DEF GoodsCall, MoveBooked
  <2>2. Total(c.rows, a, Accounts) = Gain(c.doc, c.what)
    BY <1>1, <2>1, MoveTotals
  <2> QED
    BY <2>2, Zenon
<1>3. SameSections(posted, posted \cup fresh, Documents)
  BY <1>1, CommitRows
<1>4. ASSUME NEW e \in Documents
      PROVE  OnFile(posted \cup fresh, e) = OnFile(posted, e)
  <2>1. Sections(posted \cup fresh, e) = Sections(posted, e)
    BY <1>3 DEF SameSections
  <2>2. /\ Sections(posted \cup fresh, e)["issued"] = OnFile(posted \cup fresh, e)
        /\ Sections(posted, e)["issued"] = OnFile(posted, e)
    BY DEF Sections, OnFile, Parts
  <2> QED
    BY <2>1, <2>2
<1> QED
  BY <1>2, <1>4 DEF Follows

\* What a document adds is what the goods are ahead of the books by for it.
Catches(a, c, fresh) ==
  /\ \A e \in Documents \ {c.doc} : OnFile(posted \cup fresh, e) = OnFile(posted, e)
  /\ c.doc \in Weighty =>
       /\ OnFile(posted \cup fresh, c.doc) # {} /\ ~Piecemeal(c.rows)
       /\ BookedFull(OnFile(posted \cup fresh, c.doc), c.doc)
  /\ Total(fresh, a, Accounts) = Gap(movements, posted, c.doc) - Gap(movements, posted \cup fresh, c.doc)

\* A document that is posted adds that, whichever part of it is posted.
LEMMA DocumentAdded ==
  ASSUME NEW a \in Accounts, GoodsOn(a), LedgerInv, ControlsInv, NEW s, NEW c, NEW fresh,
         PostsOn(s, c, fresh), GoodsCall(c), c.what \notin MovementWays, GoodsKept(lost'),
         fresh = {r \in c.rows : r.key \notin {p.key : p \in posted}},
         c.doc \in Weighty =>
           /\ FullCall(c, c.doc)
           /\ OnFile(posted, c.doc) = {} \/ BookedFull(OnFile(posted, c.doc), c.doc)
  PROVE  Catches(a, c, fresh)
<1> DEFINE d == c.doc
           more == posted \cup fresh
           before == Gap(movements, posted, d)
           after == Gap(movements, more, d)
<1>1. /\ c.do = "commit" /\ d \in Documents /\ PostingFits(c) /\ Countable(fresh)
      /\ c.what = "repaired" => <<d, "goods">> \in lost'
      /\ c.what = "undone" => ~Stocks(d)
  BY DEF PostsOn, GoodsCall
<1>2. /\ MayPost(d, c.what)
      /\ \E m \in Mappings : Complete(m) /\ c.rows = Planned(d, c.what, m)
  BY <1>1 DEF PostingFits
<1>3. Brings(d) \in Int
  BY <1>1, GainTyped
<1>4. \A e \in Documents \ {d} : OnFile(more, e) = OnFile(posted, e)
  <2>1. SameSections(posted, more, Documents \ {d})
    BY <1>1, CommitRows
  <2> HIDE DEF more
  <2>2. \A e : Sections(more, e)["issued"] = OnFile(more, e)
                 /\ Sections(posted, e)["issued"] = OnFile(posted, e)
    BY DEF Sections, OnFile, Parts
  <2> QED
    BY <2>1, <2>2 DEF SameSections
<1>5. CASE d \in Weighty
  <2>1. c.what = "issued"
    <3>1. c.what # "repaired"
      BY <1>1, <1>5 DEF GoodsKept, Weighty
    <3>2. c.what # "undone"
      BY <1>1, <1>5 DEF Weighty
    <3>3. c.what # "reimbursed"
      BY <1>2, <1>5 DEF MayPost, Weighty, Stocks
    <3> QED
      BY <1>2, <3>1, <3>2, <3>3 DEF MayPost
  <2>2. BookedFull(c.rows, d)
    BY <1>1, <1>5, <2>1 DEF FullCall
  <2>3. c.rows # {} /\ Total(c.rows, a, Accounts) = Brings(d)
    BY <1>1, <1>5, <2>2, PlannedStock DEF Weighty
  <2>4. RowsTold(posted)
    BY DEF ControlsInv
  <2>5. OnFile(posted, d) = {} \/ BookedFull(OnFile(posted, d), d)
    BY <1>5
  <2> DEFINE rows == c.rows
  <2>6. rows # {} /\ fresh = {r \in rows : r.key \notin {p.key : p \in posted}} /\ BookedFull(rows, d)
    BY <2>2, <2>3
  <2> HIDE DEF rows, d
  <2>7. /\ OnFile(posted, d) = {} => fresh = rows
        /\ OnFile(posted, d) # {} => fresh = {}
        /\ OnFile(posted \cup fresh, d) # {} /\ BookedFull(OnFile(posted \cup fresh, d), d)
        /\ ~ /\ \E r \in rows, p \in posted : Alike(r.key, p.key)
             /\ \E r \in rows : \A p \in posted : p.key # r.key
    <3>1. PostsFull(posted, rows, fresh, d)
      BY <1>1, <2>4, <2>5, <2>6, FullPosting, Zenon
    <3> QED
      BY <3>1 DEF PostsFull
  <2>8. ~Piecemeal(rows)
    BY <2>7, Zenon DEF Piecemeal
  <2>9. Total(fresh, a, Accounts) = before - after
    <3>1. CASE OnFile(posted, d) = {}
      <4>1. fresh = rows
        BY <2>7, <3>1
      <4>2. Total(fresh, a, Accounts) = Brings(d)
        BY <2>3, <4>1, Zenon DEF rows
      <4>3. /\ before = (IF movements[d] # 0 THEN Brings(d) ELSE 0)
            /\ after = (IF movements[d] # 0 THEN Brings(d) ELSE 0) - Brings(d)
        BY <1>3, <2>7, <3>1 DEF Gap
      <4> HIDE DEF before, after
      <4> QED
        BY <1>3, <4>2, <4>3
    <3>2. CASE OnFile(posted, d) # {}
      <4>1. fresh = {}
        BY <2>7, <3>2
      <4>2. Total({}, a, Accounts) = 0
        BY TotalOfFew
      <4>3. /\ before = (IF movements[d] # 0 THEN Brings(d) ELSE 0) - Brings(d)
            /\ after = (IF movements[d] # 0 THEN Brings(d) ELSE 0) - Brings(d)
        BY <2>7, <3>2 DEF Gap
      <4>4. before \in Int /\ before = after
        BY <1>3, <4>3 DEF d
      <4>5. Total(fresh, a, Accounts) = 0
        BY <4>1, <4>2, Zenon
      <4> HIDE DEF before, after
      <4> QED
        BY <4>4, <4>5
    <3> QED
      BY <3>1, <3>2
  <2>10. /\ \A e \in Documents \ {d} : OnFile(posted \cup fresh, e) = OnFile(posted, e)
         /\ Total(fresh, a, Accounts) = Gap(movements, posted, d) - Gap(movements, posted \cup fresh, d)
    BY <1>4, <2>9
  <2> QED
    BY <2>7, <2>8, <2>10 DEF Catches, rows, d
<1>6. CASE d \notin Weighty
  <2>1. PICK m \in Mappings : Complete(m) /\ c.rows = Planned(d, c.what, m)
    BY <1>2
  <2>2. \A r \in Planned(d, c.what, m) : Effect(r, a, Accounts) = 0
    <3> DEFINE what == c.what
    <3>1. /\ d \in Documents /\ MayPost(d, what) /\ what = "undone" => ~Stocks(d)
          /\ ~(what = "issued" /\ Stocks(d) /\ Worth[d].goods # 0 /\ Perpetual(m))
      BY <1>1, <1>2, <1>6 DEF Weighty
    <3> HIDE DEF d, what
    <3> QED
      BY <1>1, <1>2, <2>1, <3>1, PlannedOffStock DEF what
  <2>3. \A r \in fresh : Effect(r, a, Accounts) = 0
    BY <2>1, <2>2
  <2>4. Total(fresh, a, Accounts) = 0
    BY <1>1, <2>3, NothingTotals
  <2>5. Brings(d) = 0
    BY <1>1, <1>6, NoGain DEF Brings, Weighty
  <2>6. before = 0 /\ after = 0
    BY <2>5 DEF Gap
  <2>7. Total(fresh, a, Accounts) = before - after
    <3> HIDE DEF before, after
    <3> QED
      BY <2>4, <2>6
  <2> QED
    BY <1>4, <1>6, <2>7 DEF Catches
<1> QED
  BY <1>5, <1>6

\* The documents that a call does not post go on as they were.
LEMMA OthersDelivered ==
  ASSUME NEW a, LedgerInv, ValuationInv(a), GoodsKept(lost), NEW s \in Slots, NEW c, NEW fresh,
         PostsOn(s, c, fresh), NEW e \in Weighty, e # c.doc,
         OnFile(posted', e) = OnFile(posted, e)
  PROVE  e \notin contended' /\ Delivered(e, movements', status', posted', slot', lost')
<1> DEFINE q == slot[s]
           r == Tail(q)
<1>1. /\ q # <<>> /\ Head(q) = c /\ c.do = "commit" /\ slot' = [slot EXCEPT ![s] = r]
      /\ status' = status /\ movements' = movements
      /\ contended' \subseteq contended \cup {c.doc}
      /\ <<e, "posting">> \in lost => <<e, "posting">> \in lost'
  BY DEF PostsOn
<1>2. Fits(q) /\ DOMAIN slot = Slots
  BY DEF LedgerInv, BooksTyped
<1>3. e \notin contended /\ Delivered(e, movements, status, posted, slot, lost)
  BY DEF ValuationInv
<1>4. FullCalls(q, e)
  BY <1>3 DEF Delivered
<1>5. /\ Awaits(r, e) <=> Awaits(q, e)
      /\ FullCalls(r, e)
      /\ Owing(q, e, "issued") => Owing(r, e, "issued")
  <2>1. /\ Awaits(q, e) <=> (Head(q).do = "apply" /\ Head(q).doc = e) \/ Awaits(r, e)
        /\ FullCalls(q, e) <=> FullCall(Head(q), e) /\ FullCalls(r, e)
        /\ \A part : Owing(q, e, part) <=>
              ~Reports(q) /\ (PostsPart(Head(q), e, part) \/ Owing(r, e, part))
    BY <1>1, <1>2, LeftToDo
  <2>2. ~PostsPart(Head(q), e, "issued")
    BY <1>1 DEF PostsPart
  <2> HIDE DEF q, r
  <2> QED
    BY <1>1, <1>4, <2>1, <2>2
<1>6. movements'[e] = movements[e] /\ status'[e] = status[e]
  BY <1>1
<1> HIDE DEF r
<1>7. Delivered(e, movements', status', posted', slot', lost')
  BY <1>1, <1>2, <1>3, <1>5, <1>6, DeliveredStill
<1> QED
  BY <1>1, <1>3, <1>7

\* A document that is posted in full is delivered as before.
LEMMA PostedDelivered ==
  ASSUME NEW a, LedgerInv, ValuationInv(a), GoodsKept(lost), NEW s \in Slots, NEW c, NEW fresh,
         PostsOn(s, c, fresh), c.doc \in Weighty, ~Piecemeal(c.rows),
         OnFile(posted', c.doc) # {}, BookedFull(OnFile(posted', c.doc), c.doc)
  PROVE  c.doc \notin contended' /\ Delivered(c.doc, movements', status', posted', slot', lost')
<1> DEFINE q == slot[s]
           r == Tail(q)
           d == c.doc
<1>1. /\ q # <<>> /\ Head(q) = c /\ c.do = "commit" /\ slot' = [slot EXCEPT ![s] = r]
      /\ status' = status /\ movements' = movements /\ contended' = contended
  BY DEF PostsOn
<1>2. Fits(q) /\ DOMAIN slot = Slots
  BY DEF LedgerInv, BooksTyped
<1>3. d \notin contended /\ Delivered(d, movements, status, posted, slot, lost)
  BY DEF ValuationInv
<1>4. (Awaits(r, d) <=> Awaits(q, d)) /\ (FullCalls(q, d) => FullCalls(r, d))
  <2>1. /\ Awaits(q, d) <=> (Head(q).do = "apply" /\ Head(q).doc = d) \/ Awaits(r, d)
        /\ FullCalls(q, d) <=> FullCall(Head(q), d) /\ FullCalls(r, d)
    BY <1>1, <1>2, LeftToDo
  <2> HIDE DEF q, r
  <2> QED
    BY <1>1, <2>1
<1>5. slot'[s] = r /\ \A t \in Slots \ {s} : slot'[t] = slot[t]
  BY <1>1, <1>2
<1> HIDE DEF r, d
<1>6. \A t \in Slots : (Awaits(slot'[t], d) <=> Awaits(slot[t], d))
                        /\ (FullCalls(slot[t], d) => FullCalls(slot'[t], d))
  BY <1>4, <1>5
<1>7. Awaited(slot', d) <=> Awaited(slot, d)
  BY <1>6 DEF Awaited
<1>8. OnFile(posted', d) # {} /\ BookedFull(OnFile(posted', d), d)
  BY DEF d
<1>9. Delivered(d, movements', status', posted', slot', lost')
  BY <1>1, <1>3, <1>6, <1>7, <1>8 DEF Delivered
<1> QED
  BY <1>1, <1>3, <1>9 DEF d

\* Posting brings the books to where the stock is.
LEMMA CommitValue ==
  ASSUME NEW a \in Accounts, GoodsOn(a), LedgerInv, ControlsInv, ValuationInv(a),
         NEW s \in Slots, CommitPosting(s)
  PROVE  ValuationInv(a)'
<1> DEFINE q == slot[s]
           r == Tail(q)
           c == Call(s)
           fresh == {x \in c.rows : x.key \notin {p.key : p \in posted}}
           d == c.doc
           brought == Total(fresh, a, Accounts)
<1>1. PostsOn(s, c, fresh)
  BY CommitTold
<1>2. /\ q # <<>> /\ Head(q) = c /\ c.do = "commit" /\ slot' = [slot EXCEPT ![s] = r]
      /\ posted' = posted \cup fresh
      /\ Countable(posted) /\ Countable(fresh) /\ posted \cap fresh = {}
      /\ status' = status /\ shelf' = shelf /\ movements' = movements
      /\ contended' = contended \cup (IF Piecemeal(c.rows) THEN {d} ELSE {})
      /\ d \in Documents
      /\ \A e : <<e, "goods">> \in lost => <<e, "goods">> \in lost'
  BY <1>1 DEF PostsOn
<1>3. Fits(q) /\ GoodsFits(q) /\ DOMAIN slot = Slots /\ shelf \in Int
  BY DEF LedgerInv, BooksTyped, ValuationInv
<1>4. /\ Numbered(posted', movements', slot')
      /\ c.what \in MovementWays => fresh = c.rows
  BY CommitNumbers
<1>5. /\ Fits(r) /\ GoodsFits(r) /\ Carries(r) = 0 /\ GoodsCall(c)
      /\ Carries(q) = IF c.what \in MovementWays THEN Gain(d, c.what) ELSE 0
  BY <1>2, <1>3, RestFits, GoodsRest DEF Fits, Carries, IsMoved
<1>6. /\ Total(posted, a, Accounts) \in Int /\ Gaps(movements, posted) \in Int
      /\ Gaps(movements', posted') \in Int
  BY BooksInt
<1>7. /\ Total(posted', a, Accounts) = Total(posted, a, Accounts) + brought
      /\ brought \in Int /\ Total(posted', a, Accounts) \in Int
  <2>1. /\ Total(posted \cup fresh, a, Accounts) = Total(posted, a, Accounts) + brought
        /\ brought \in Int
    BY <1>2, TotalJoined
  <2> HIDE DEF brought
  <2> QED
    BY <1>2, <1>6, <2>1
<1> HIDE DEF fresh
<1>8. ASSUME GoodsKept(lost')
      PROVE  /\ GoodsKept(lost)
             /\ \A e \in Weighty :
                  e \notin contended' /\ Delivered(e, movements', status', posted', slot', lost')
             /\ shelf' - shelf = (Total(posted', a, Accounts) - Total(posted, a, Accounts))
                                  + (Carries(r) - Carries(slot[s]))
                                  + (Gaps(movements', posted') - Gaps(movements, posted))
  <2>1. GoodsKept(lost)
    BY <1>2, <1>8 DEF GoodsKept
  <2>2. CASE c.what \in MovementWays
    <3>1. /\ brought = Gain(d, c.what)
          /\ \A e \in Documents : OnFile(posted \cup fresh, e) = OnFile(posted, e)
      <4>1. fresh = {x \in c.rows : x.key \notin {p.key : p \in posted}} /\ fresh = c.rows
        BY <1>4, <2>2 DEF fresh
      <4>2. Follows(a, c, fresh)
        <5> HIDE DEF c
        <5> QED
          BY <1>1, <1>5, <2>2, <4>1, GoodsAdded, Zenon
      <4> QED
        BY <4>2 DEF Follows
    <3>2. ~Stocks(d)
      BY <1>2, <1>5, <2>2 DEF GoodsCall
    <3>3. \A e \in Weighty :
            e \notin contended' /\ Delivered(e, movements', status', posted', slot', lost')
      <4>1. ASSUME NEW e \in Weighty
            PROVE  e \notin contended' /\ Delivered(e, movements', status', posted', slot', lost')
        <5>1. e # c.doc /\ OnFile(posted', e) = OnFile(posted, e)
          BY <1>2, <3>1, <3>2 DEF Weighty
        <5> HIDE DEF c
        <5> QED
          BY <1>1, <2>1, <5>1, OthersDelivered
      <4> QED
        BY <4>1
    <3>4. Gaps(movements', posted') = Gaps(movements, posted)
      <4>1. \A e \in Documents : Gap(movements', posted', e) = Gap(movements, posted, e)
        BY <1>2, <3>1 DEF Gap
      <4> QED
        BY <4>1, GapsStay
    <3>5. Carries(slot[s]) = brought
      BY <1>5, <2>2, <3>1
    <3>6. shelf' - shelf = (Total(posted', a, Accounts) - Total(posted, a, Accounts))
                            + (Carries(r) - Carries(slot[s]))
                            + (Gaps(movements', posted') - Gaps(movements, posted))
      <4> DEFINE had == Total(posted, a, Accounts)
                 has == Total(posted', a, Accounts)
                 sum == Gaps(movements, posted)
                 then == Gaps(movements', posted')
                 left == Carries(r)
                 took == Carries(slot[s])
      <4>1. /\ shelf' = shelf /\ shelf \in Int /\ left = 0 /\ took = brought
            /\ had \in Int /\ brought \in Int /\ has = had + brought
            /\ sum \in Int /\ then = sum
        BY <1>2, <1>3, <1>5, <1>6, <1>7, <3>4, <3>5
      <4> HIDE DEF had, has, sum, then, left, took, brought
      <4>2. shelf' - shelf = (has - had) + (left - took) + (then - sum)
        BY <4>1
      <4> QED
        BY <4>2 DEF had, has, sum, then, left, took
    <3> QED
      BY <2>1, <3>3, <3>6
  <2>3. CASE c.what \notin MovementWays
    <3>1. c.doc \in Weighty =>
           /\ FullCall(c, c.doc)
           /\ OnFile(posted, c.doc) = {} \/ BookedFull(OnFile(posted, c.doc), c.doc)
      <4>1. ASSUME d \in Weighty
            PROVE  FullCall(c, d) /\ (OnFile(posted, d) = {} \/ BookedFull(OnFile(posted, d), d))
        <5>1. Delivered(d, movements, status, posted, slot, lost)
          BY <2>1, <4>1 DEF ValuationInv
        <5>2. FullCalls(q, d)
          BY <5>1 DEF Delivered
        <5>3. FullCalls(q, d) <=> FullCall(Head(q), d) /\ FullCalls(Tail(q), d)
          BY <1>2, <1>3, LeftToDo
        <5> QED
          BY <1>2, <5>1, <5>2, <5>3 DEF Delivered
      <4> QED
        BY <4>1
    <3>2. Catches(a, c, fresh)
      <4>1. fresh = {x \in c.rows : x.key \notin {p.key : p \in posted}}
        BY DEF fresh
      <4> HIDE DEF c
      <4> QED
        BY <1>1, <1>5, <1>8, <2>3, <3>1, <4>1, DocumentAdded, Zenon
    <3>3. /\ \A e \in Documents \ {d} : OnFile(posted', e) = OnFile(posted, e)
          /\ d \in Weighty => /\ OnFile(posted', d) # {} /\ ~Piecemeal(c.rows)
                              /\ BookedFull(OnFile(posted', d), d)
          /\ brought = Gap(movements, posted, d) - Gap(movements', posted', d)
      BY <1>2, <3>2 DEF Catches
    <3>4. \A e \in Weighty :
            e \notin contended' /\ Delivered(e, movements', status', posted', slot', lost')
      <4>1. ASSUME NEW e \in Weighty, e # d
            PROVE  e \notin contended' /\ Delivered(e, movements', status', posted', slot', lost')
        <5>1. e # c.doc /\ OnFile(posted', e) = OnFile(posted, e)
          BY <3>3, <4>1 DEF Weighty
        <5> HIDE DEF c
        <5> QED
          BY <1>1, <2>1, <5>1, OthersDelivered
      <4>2. ASSUME d \in Weighty
            PROVE  d \notin contended' /\ Delivered(d, movements', status', posted', slot', lost')
        <5>1. /\ OnFile(posted', c.doc) # {} /\ ~Piecemeal(c.rows)
              /\ BookedFull(OnFile(posted', c.doc), c.doc) /\ c.doc \in Weighty
          BY <3>3, <4>2
        <5>2. c.doc \notin contended' /\ Delivered(c.doc, movements', status', posted', slot', lost')
          <6> HIDE DEF c
          <6> QED
            BY <1>1, <2>1, <5>1, PostedDelivered
        <5> QED
          BY <5>2
      <4> QED
        BY <4>1, <4>2
    <3>5. GapShifts(movements, movements', posted, posted', d)
      <4>1. \A e \in Documents \ {d} :
              movements'[e] = movements[e] /\ OnFile(posted', e) = OnFile(posted, e)
        BY <1>2, <3>3
      <4> HIDE DEF d
      <4> QED
        BY <1>2, <4>1, GapsGoOn
    <3>6. Carries(slot[s]) = 0
      BY <1>5, <2>3
    <3>7. shelf' - shelf = (Total(posted', a, Accounts) - Total(posted, a, Accounts))
                            + (Carries(r) - Carries(slot[s]))
                            + (Gaps(movements', posted') - Gaps(movements, posted))
      <4> DEFINE had == Total(posted, a, Accounts)
                 has == Total(posted', a, Accounts)
                 sum == Gaps(movements, posted)
                 then == Gaps(movements', posted')
                 before == Gap(movements, posted, d)
                 after == Gap(movements', posted', d)
                 left == Carries(r)
                 took == Carries(slot[s])
      <4>1. /\ shelf' = shelf /\ shelf \in Int /\ left = 0 /\ took = 0
            /\ had \in Int /\ brought \in Int /\ has = had + brought
            /\ before \in Int /\ after \in Int /\ sum \in Int /\ then = sum - before + after
            /\ brought = before - after
        BY <1>2, <1>3, <1>5, <1>6, <1>7, <3>3, <3>5, <3>6 DEF GapShifts
      <4> HIDE DEF had, has, sum, then, before, after, left, took, brought
      <4>2. shelf' - shelf = (has - had) + (left - took) + (then - sum)
        BY <4>1
      <4> QED
        BY <4>2 DEF had, has, sum, then, left, took
    <3> QED
      BY <2>1, <3>4, <3>7
  <2> QED
    BY <2>2, <2>3
<1>9. shelf' \in Int
  BY <1>2, <1>3
<1> HIDE DEF r
<1> QED
  BY <1>2, <1>4, <1>5, <1>6, <1>7, <1>8, <1>9, ValuationGoesOn, Zenon DEF q

-----------------------------------------------------------------------------
(* What handlers begin with *)

\* A call that is to move no goods of a document, nor to post any yet.
Harmless(c) == GoodsCall(c) /\ c.do \notin {"apply", "commit"} /\ ~IsMoved(c) /\ ~Arrives(c)

\* Nothing is on the way in a list of such calls, nor does a document wait for it.
LEMMA HarmlessList ==
  ASSUME NEW q, Fits(q), \A c \in CallsOf(q) : Harmless(c)
  PROVE  /\ GoodsFits(q) /\ Carries(q) = 0 /\ Pending(q) = {}
         /\ \A d : ~Awaits(q, d) /\ FullCalls(q, d)
<1>1. q # <<>> => Head(q) \in CallsOf(q) /\ CallsOf(Tail(q)) \subseteq CallsOf(q)
  <2>1. ASSUME q # <<>> PROVE CallsOf(q) = {Head(q)} \cup CallsOf(Tail(q))
    BY <2>1, CallsShifted
  <2> QED
    BY <2>1
<1>2. GoodsFits(q)
  BY <1>1, Zenon DEF Harmless, GoodsFits
<1>3. Carries(q) = 0 /\ Pending(q) = {}
  BY <1>1, Zenon DEF Harmless, Carries, Pending
<1>4. \A d : ~Awaits(q, d) /\ FullCalls(q, d)
  BY DEF Harmless, Awaits, FullCalls, FullCall
<1> QED
  BY <1>2, <1>3, <1>4

\* A handler that has such a list where it had nothing of the kind.
LEMMA HarmlessKept ==
  ASSUME NEW a \in Accounts, LedgerInv, ValuationInv(a), NEW s \in Slots, NEW q, Fits(q),
         \A c \in CallsOf(q) : Harmless(c), Carries(slot[s]) = 0,
         \A d : ~Awaits(slot[s], d) /\ ~Owing(slot[s], d, "issued"),
         slot' = [slot EXCEPT ![s] = q],
         posted' = posted, movements' = movements, shelf' = shelf, status' = status,
         lost' = lost, \A d \in Weighty : d \in contended' => d \in contended
  PROVE  ValuationInv(a)'
<1>1. /\ GoodsFits(q) /\ Carries(q) = 0 /\ Pending(q) = {}
      /\ \A d : ~Awaits(q, d) /\ FullCalls(q, d)
  BY HarmlessList
<1>2. ASSUME GoodsKept(lost')
      PROVE  /\ Carries(q) = Carries(slot[s])
             /\ \A d \in Weighty :
                  /\ d \notin contended' /\ status'[d] = status[d]
                  /\ Awaits(q, d) <=> Awaits(slot[s], d)
                  /\ FullCalls(slot[s], d) => FullCalls(q, d)
                  /\ Owing(slot[s], d, "issued") =>
                       Owing(q, d, "issued") \/ <<d, "posting">> \in lost'
  <2>1. \A d \in Weighty : d \notin contended
    BY <1>2 DEF ValuationInv
  <2> QED
    BY <1>1, <2>1
<1>3. lost \subseteq lost' /\ Pending(q) \subseteq Pending(slot[s])
  BY <1>1
<1> QED
  BY <1>1, <1>2, <1>3, ValuationKept, Zenon

\* What the repair is given to do.
RepairPlans == {Plan(d, what) : d \in Documents, what \in {"issued", "repaired", "reimbursed"}}

\* The repair is given plans, of documents, and nothing else.
LEMMA RepairsListed == Repairs \in Seq(RepairPlans)
<1>1. ASSUME NEW docs \in SUBSET Documents, NEW what \in {"issued", "repaired", "reimbursed"}
      PROVE  Plans(docs, what) \in Seq(RepairPlans)
  <2>1. \A d \in docs : Plan(d, what) \in RepairPlans
    BY DEF RepairPlans
  <2> QED
    BY <2>1, PlansListed
<1>2. /\ \A kind : Unposted(kind) \in SUBSET Documents
      /\ \A statuses, leg : UnpostedExpenses(statuses, leg) \in SUBSET Documents
  BY DEF Unposted, UnpostedExpenses
<1>3. /\ \A kind : Plans(Unposted(kind), "issued") \in Seq(RepairPlans)
      /\ Plans(Unposted("creditNote"), "repaired") \in Seq(RepairPlans)
      /\ Plans(UnpostedExpenses({"issued", "reimbursed"}, "expense"), "issued") \in Seq(RepairPlans)
      /\ Plans(UnpostedExpenses({"reimbursed"}, "reimbursement"), "reimbursed") \in Seq(RepairPlans)
  BY <1>1, <1>2
<1>4. \A p, r \in Seq(RepairPlans) : p \o r \in Seq(RepairPlans)
  BY ConcatProperties
<1> QED
  BY <1>3, <1>4, Zenon DEF Repairs

\* Reading what is outstanding moves no goods: the repair has only plans.
LEMMA ReadValue ==
  ASSUME NEW a \in Accounts, LedgerInv, ControlsInv, ValuationInv(a), NEW s \in Slots,
         ReadOutstanding(s)
  PROVE  ValuationInv(a)'
<1>1. PICK docs \in SUBSET Documents :
        slot' = [slot EXCEPT ![s] = Append(Repairs, [do |-> "report", docs |-> docs])]
  <2> DEFINE docs == {d \in Documents : /\ status[d] \in {"issued", "reimbursed"}
                                        /\ EntriesOf(d) = {}
                                        /\ \A t \in Slots : d \notin Touched(slot[t])}
  <2>1. docs \in SUBSET Documents
    OBVIOUS
  <2>2. slot' = [slot EXCEPT ![s] = Append(Repairs, [do |-> "report", docs |-> docs])]
    BY DEF ReadOutstanding
  <2> HIDE DEF docs
  <2> QED
    BY <2>1, <2>2
<1> DEFINE report == [do |-> "report", docs |-> docs]
           p == Repairs
           T == RepairPlans \cup {report}
           q == Append(p, report)
<1>2. /\ slot[s] # Idle /\ slot[s] # <<>> /\ Call(s).do = "outstanding" /\ Head(slot[s]) = Call(s)
  BY DEF ReadOutstanding, At, Call, Idle
<1>3. /\ status' = status /\ posted' = posted /\ contended' = contended /\ lost' = lost
      /\ movements' = movements /\ shelf' = shelf
  BY DEF ReadOutstanding, ledgerVars, documentVars, historyVars
<1>4. \A e : ~Busy(slot[s], e)
  BY <1>2, OthersAtHand DEF DocumentCalls
<1>5. \A e : ~Owing(slot[s], e, "issued")
  BY <1>4, BusyTold
<1>6. \A e : ~Awaits(slot[s], e)
  BY <1>4, AwaitsBusy
<1>7. Carries(slot[s]) = 0
  BY <1>2 DEF Carries, IsMoved
<1>8. Fits(q)
  BY RepairsFit DEF Fits
<1>9. Repairs \in Seq(RepairPlans)
  BY RepairsListed
<1>10. report.do = "report"
  OBVIOUS
<1>11. slot' = [slot EXCEPT ![s] = q]
  BY <1>1
<1>12. \A c \in RepairPlans : c.do = "plan" /\ c.what \in {"issued", "repaired", "reimbursed"}
  BY CallsTold DEF RepairPlans
<1> HIDE DEF report, p
<1>13. \A c \in T : Harmless(c)
  BY <1>10, <1>12 DEF Harmless, GoodsCall, IsMoved, Arrives, MovementWays
<1>14. p \in Seq(T) /\ report \in T
  BY <1>9, SeqMonotonic DEF p
<1> HIDE DEF T
<1>15. q \in Seq(T)
  BY <1>14, AppendProperties
<1> HIDE DEF q
<1>16. \A c \in CallsOf(q) : c \in T
  BY <1>15 DEF CallsOf
<1>17. \A c \in CallsOf(q) : Harmless(c)
  BY <1>13, <1>16
<1> QED
  BY <1>3, <1>5, <1>6, <1>7, <1>8, <1>11, <1>17, HarmlessKept

\* A call on no document that books its goods, and of no movement that was made.
Apart(c) ==
  /\ c.do \notin {"apply", "commit"} /\ ~IsMoved(c)
  /\ c.do \in DocumentCalls => ~Stocks(c.doc)

\* Calls on documents of other kinds are such calls.
LEMMA ApartCalls ==
  ASSUME NEW d, ~Stocks(d)
  PROVE  /\ \A st : Apart(Write(d, st))
         /\ \A way : Apart(RecordMove(d, way))
         /\ \A what \in Parts : Apart(Plan(d, what))
BY CallsTold DEF Apart, IsMoved, Parts, MovementWays

\* Lists of them are lists of nothing else.
LEMMA ApartLists ==
  ASSUME NEW x, Apart(x), NEW y, Apart(y), NEW z, Apart(z)
  PROVE  /\ \A c \in CallsOf(<<x>>) : Apart(c)
         /\ \A c \in CallsOf(<<x, y>>) : Apart(c)
         /\ \A c \in CallsOf(<<x, y, z>>) : Apart(c)
<1>1. /\ DOMAIN <<x>> = {1} /\ <<x>>[1] = x
      /\ DOMAIN <<x, y>> = {1, 2} /\ <<x, y>>[1] = x /\ <<x, y>>[2] = y
      /\ DOMAIN <<x, y, z>> = {1, 2, 3} /\ <<x, y, z>>[1] = x
      /\ <<x, y, z>>[2] = y /\ <<x, y, z>>[3] = z
  BY FewCalls
<1>2. /\ CallsOf(<<x>>) = {x} /\ CallsOf(<<x, y>>) = {x, y} /\ CallsOf(<<x, y, z>>) = {x, y, z}
  BY <1>1 DEF CallsOf
<1> QED
  BY <1>2

\* A list that is idle has nothing to do to anything.
LEMMA IdleTold ==
  ASSUME NEW q, q = <<>>
  PROVE  /\ Carries(q) = 0
         /\ \A d : ~Awaits(q, d) /\ ~Owing(q, d, "issued")
<1>1. DOMAIN q = {}
  BY FewCalls
<1>2. \A d : ~Owing(q, d, "issued")
  BY <1>1 DEF Owing
<1> QED
  BY <1>2, NothingLeft, NothingCarried

\* What a handler begins with fits, for the books keep their shapes.
LEMMA BegunFits ==
  ASSUME LedgerInv, LedgerInv', NEW s \in Slots, NEW calls, Begin(s, calls)
  PROVE  Fits(calls)
<1>1. slot'[s] = calls
  BY DEF Begin, LedgerInv, BooksTyped
<1>2. Fits(slot'[s])
  BY DEF LedgerInv, BooksTyped
<1> QED
  BY <1>1, <1>2, Zenon

\* A handler that begins with such calls moves no goods yet, and works on no document
\* that books its own.
LEMMA BeginApart ==
  ASSUME NEW a \in Accounts, LedgerInv, LedgerInv', ValuationInv(a), NEW s \in Slots, NEW calls,
         \A c \in CallsOf(calls) : Apart(c), Begin(s, calls)
  PROVE  ValuationInv(a)'
<1>1. /\ slot[s] = <<>> /\ slot' = [slot EXCEPT ![s] = calls]
      /\ contended' \subseteq contended \cup Touched(calls)
      /\ posted' = posted /\ movements' = movements /\ shelf' = shelf /\ status' = status
      /\ lost' = lost
  BY DEF Begin, Idle, ledgerVars, documentVars
<1>2. Carries(slot[s]) = 0 /\ \A d : ~Awaits(slot[s], d) /\ ~Owing(slot[s], d, "issued")
  BY <1>1, IdleTold
<1>3. \A c \in CallsOf(calls) : Harmless(c)
  BY DEF Apart, Harmless, GoodsCall, IsMoved, Arrives, DocumentCalls
<1>4. \A d \in Touched(calls) : ~Stocks(d)
  <2>1. ASSUME NEW i \in DOMAIN calls, calls[i].do \in DocumentCalls PROVE ~Stocks(calls[i].doc)
    BY <2>1 DEF CallsOf, Apart
  <2> QED
    BY <2>1 DEF Touched, DocumentCalls
<1>5. \A d \in Weighty : d \in contended' => d \in contended
  BY <1>1, <1>4 DEF Weighty
<1>6. Fits(calls)
  BY BegunFits
<1> QED
  BY <1>1, <1>2, <1>3, <1>5, <1>6, HarmlessKept

\* A document that books its goods begins unmoved and unposted.
LEMMA BeginArrival ==
  ASSUME NEW a \in Accounts, LedgerInv, LedgerInv', ValuationInv(a), NEW s \in Slots,
         NEW d \in Documents, Stocks(d), New(d), Begin(s, Arrival(d))
  PROVE  ValuationInv(a)'
<1> DEFINE q == Arrival(d)
<1>1. /\ slot[s] = <<>> /\ slot' = [slot EXCEPT ![s] = q]
      /\ contended' = contended \cup {e \in Touched(q) :
                        \E t \in Running : ~Repairing(t) /\ e \in Touched(slot[t])}
      /\ posted' = posted /\ movements' = movements /\ shelf' = shelf /\ status' = status
      /\ lost' = lost
  BY DEF Begin, Idle, ledgerVars, documentVars
<1>2. /\ DOMAIN slot = Slots /\ shelf \in Int /\ movements \in [Documents -> Nat]
      /\ Numbered(posted, movements, slot)
  BY DEF LedgerInv, BooksTyped, ValuationInv
<1>3. /\ Carries(slot[s]) = 0 /\ \A e : ~Awaits(slot[s], e) /\ ~Owing(slot[s], e, "issued")
  BY <1>1, IdleTold
<1>4. /\ q # <<>> /\ Head(q) = Write(d, "issued") /\ Awaits(q, d) /\ Owing(q, d, "issued")
      /\ \A e : Awaits(q, e) \/ Owing(q, e, "issued") => e = d
      /\ \A e : FullCalls(q, e)
      /\ CallsOf(q) = {Write(d, "issued"), ApplyMove(d, Way(d)), Plan(d, "issued")}
      /\ CallsOf(Tail(q)) = {ApplyMove(d, Way(d)), Plan(d, "issued")}
  BY ArrivalTold
<1>5. /\ \A st : Write(d, st).do = "write" /\ Write(d, st).doc = d
      /\ \A w : ApplyMove(d, w).do = "apply" /\ ApplyMove(d, w).doc = d /\ ApplyMove(d, w).way = w
      /\ Plan(d, "issued").do = "plan" /\ Plan(d, "issued").what = "issued"
      /\ "issued" \notin MovementWays \cup {"undone"}
  BY CallsTold DEF MovementWays
<1>6. Fits(q)
  BY BegunFits
<1> HIDE DEF q
<1>7. /\ GoodsFits(q) /\ Carries(q) = 0 /\ Pending(q) = {}
  <2>1. \A c \in CallsOf(q) : GoodsCall(c)
    BY <1>4, <1>5 DEF GoodsCall
  <2>2. \A c \in CallsOf(Tail(q)) : ~IsMoved(c) /\ ~Arrives(c)
    BY <1>4, <1>5 DEF IsMoved, Arrives
  <2>3. q = Arrival(Head(q).doc)
    BY <1>4, <1>5 DEF q
  <2>4. ~IsMoved(Head(q))
    BY <1>4, <1>5 DEF IsMoved
  <2>5. GoodsFits(q)
    BY <2>1, <2>2, <2>3, Zenon DEF GoodsFits
  <2> QED
    BY <2>4, <2>5 DEF Carries, Pending
<1>8. Numbered(posted', movements', slot')
  <2>1. /\ Pending(q) \subseteq Pending(slot[s]) /\ movements' \in [Documents -> Nat]
        /\ \A e \in Documents : movements[e] <= movements'[e]
    BY <1>1, <1>2, <1>7
  <2> QED
    BY <1>1, <1>2, <2>1, NumbersStay
<1>9. status[d] = "none" /\ d \notin UNION {Touched(slot[t]) : t \in Slots}
  BY DEF New
<1>10. \A e \in Weighty : e \in contended' => e \in contended
  <2>1. Touched(q) \subseteq {d}
    <3>1. \A i \in DOMAIN q : q[i].doc = d
      <4>1. \A c \in CallsOf(q) : c.doc = d
        BY <1>4, <1>5, CallsTold
      <4> QED
        BY <4>1 DEF CallsOf
    <3> QED
      BY <3>1 DEF Touched
  <2> QED
    BY <1>1, <1>9, <2>1 DEF Running
<1>11. ASSUME GoodsKept(lost')
       PROVE  /\ GoodsKept(lost)
              /\ \A e \in Weighty :
                   e \notin contended' /\ Delivered(e, movements', status', posted', slot', lost')
              /\ shelf' - shelf = (Total(posted', a, Accounts) - Total(posted, a, Accounts))
                                   + (Carries(q) - Carries(slot[s]))
                                   + (Gaps(movements', posted') - Gaps(movements, posted))
  <2>1. GoodsKept(lost)
    BY <1>1, <1>11
  <2>2. \A e \in Weighty :
          e \notin contended /\ Delivered(e, movements, status, posted, slot, lost)
    BY <2>1 DEF ValuationInv
  <2>3. ASSUME NEW e \in Weighty, e # d
        PROVE  Delivered(e, movements', status', posted', slot', lost')
    <3>1. Delivered(e, movements, status, posted, slot, lost)
      BY <2>2
    <3>2. /\ Awaits(q, e) <=> Awaits(slot[s], e)
          /\ FullCalls(q, e) /\ ~Owing(slot[s], e, "issued")
      BY <1>3, <1>4, <2>3
    <3> QED
      BY <1>1, <1>2, <3>1, <3>2, DeliveredStill
  <2>4. ASSUME d \in Weighty
        PROVE  Delivered(d, movements', status', posted', slot', lost')
    <3>1. Delivered(d, movements, status, posted, slot, lost)
      BY <2>2, <2>4
    <3>2. movements[d] = 0
      BY <1>9, <3>1 DEF Delivered
    <3>3. \A t \in Slots : FullCalls(slot'[t], d)
      <4>1. slot'[s] = q /\ \A t \in Slots \ {s} : slot'[t] = slot[t]
        BY <1>1, <1>2
      <4> QED
        BY <1>4, <3>1, <4>1 DEF Delivered
    <3> QED
      BY <1>1, <1>9, <3>1, <3>2, <3>3 DEF Delivered
  <2>5. Total(posted, a, Accounts) \in Int /\ Gaps(movements, posted) \in Int
    BY BooksInt
  <2>6. shelf' - shelf = (Total(posted', a, Accounts) - Total(posted, a, Accounts))
                          + (Carries(q) - Carries(slot[s]))
                          + (Gaps(movements', posted') - Gaps(movements, posted))
    BY <1>1, <1>2, <1>3, <1>7, <2>5
  <2> QED
    BY <1>10, <2>1, <2>2, <2>3, <2>4, <2>6
<1>12. /\ Total(posted', a, Accounts) \in Int /\ Gaps(movements', posted') \in Int
       /\ Gaps(movements, posted) \in Int /\ shelf' \in Int
  BY <1>1, <1>2, BooksInt
<1> QED
  BY <1>1, <1>6, <1>7, <1>8, <1>11, <1>12, ValuationGoesOn, Zenon

\* What is asked of documents.
LEMMA DocumentsValue ==
  ASSUME NEW a \in Accounts, LedgerInv, LedgerInv', ValuationInv(a), NEW s \in Slots,
         NEW d \in Documents,
         \/ SendInvoice(s, d) \/ CancelInvoice(s, d)
         \/ RecordPayment(s, d) \/ DeletePayment(s, d)
         \/ CreditCustomer(s, d)
         \/ ReceiveGoods(s, d) \/ ReturnGoods(s, d)
         \/ ApproveExpenses(s, d) \/ ReimburseExpenses(s, d)
         \/ \E way \in MovementWays : MoveByHand(s, d, way)
  PROVE  ValuationInv(a)'
<1>1. ASSUME ~Stocks(d)
      PROVE  /\ \A st : Apart(Write(d, st))
             /\ \A way : Apart(RecordMove(d, way))
             /\ Apart(Plan(d, "issued")) /\ Apart(Plan(d, "undone")) /\ Apart(Plan(d, "reimbursed"))
  BY <1>1, ApartCalls DEF Parts
<1>2. CASE SendInvoice(s, d)
  <2>1. ~Stocks(d) /\ Begin(s, <<RecordMove(d, "out"), Write(d, "issued"), Plan(d, "issued")>>)
    BY <1>2 DEF SendInvoice, Stocks
  <2> QED
    BY <1>1, <2>1, ApartLists, BeginApart, Zenon
<1>3. CASE CancelInvoice(s, d)
  <2>1. ~Stocks(d) /\ Begin(s, <<Write(d, "undone"), Plan(d, "undone"), RecordMove(d, "in")>>)
    BY <1>3 DEF CancelInvoice, Stocks
  <2> QED
    BY <1>1, <2>1, ApartLists, BeginApart, Zenon
<1>4. CASE RecordPayment(s, d) \/ ApproveExpenses(s, d)
  <2>1. ~Stocks(d) /\ Begin(s, <<Write(d, "issued"), Plan(d, "issued")>>)
    BY <1>4 DEF RecordPayment, ApproveExpenses, Stocks
  <2> QED
    BY <1>1, <2>1, ApartLists, BeginApart, Zenon
<1>5. CASE DeletePayment(s, d)
  <2>1. ~Stocks(d) /\ Begin(s, <<Plan(d, "undone"), Write(d, "undone")>>)
    BY <1>5 DEF DeletePayment, Stocks
  <2> QED
    BY <1>1, <2>1, ApartLists, BeginApart, Zenon
<1>6. CASE ReimburseExpenses(s, d)
  <2>1. ~Stocks(d) /\ Begin(s, <<Write(d, "reimbursed"), Plan(d, "reimbursed")>>)
    BY <1>6 DEF ReimburseExpenses, Stocks
  <2> QED
    BY <1>1, <2>1, ApartLists, BeginApart, Zenon
<1>7. ASSUME NEW way \in MovementWays, MoveByHand(s, d, way) PROVE ValuationInv(a)'
  <2>1. ~Stocks(d) /\ Begin(s, <<RecordMove(d, way)>>)
    BY <1>7 DEF MoveByHand, Stocks
  <2> QED
    BY <1>1, <2>1, ApartLists, BeginApart, Zenon
<1>8. CASE CreditCustomer(s, d) \/ ReceiveGoods(s, d)
  <2>1. Stocks(d) /\ Way(d) = "in" /\ New(d)
    BY <1>8 DEF CreditCustomer, ReceiveGoods, Stocks, Way
  <2>2. Begin(s, <<Write(d, "issued"), ApplyMove(d, "in"), Plan(d, "issued")>>)
    BY <1>8 DEF CreditCustomer, ReceiveGoods
  <2>3. Begin(s, Arrival(d))
    BY <2>1, <2>2 DEF Arrival
  <2> QED
    BY <2>1, <2>3, BeginArrival
<1>9. CASE ReturnGoods(s, d)
  <2>1. Stocks(d) /\ Way(d) = "out" /\ New(d)
    BY <1>9 DEF ReturnGoods, Stocks, Way
  <2>2. Begin(s, <<Write(d, "issued"), ApplyMove(d, "out"), Plan(d, "issued")>>)
    BY <1>9 DEF ReturnGoods
  <2>3. Begin(s, Arrival(d))
    BY <2>1, <2>2 DEF Arrival
  <2> QED
    BY <2>1, <2>3, BeginArrival
<1> QED
  BY <1>2, <1>3, <1>4, <1>5, <1>6, <1>7, <1>8, <1>9

\* Everything that is asked.
LEMMA RequestsValue ==
  ASSUME NEW a \in Accounts, LedgerInv, LedgerInv', ValuationInv(a), NEW s \in Slots, Request(s)
  PROVE  ValuationInv(a)'
<1>1. ASSUME NEW c, c.do \in JournalCalls \cup {"outstanding"}, Begin(s, <<c>>)
      PROVE  ValuationInv(a)'
  <2>1. Apart(c)
    BY <1>1 DEF Apart, IsMoved, JournalCalls, DocumentCalls
  <2>2. \A k \in CallsOf(<<c>>) : Apart(k)
    BY <2>1, ApartLists
  <2> QED
    BY <1>1, <2>2, BeginApart
<1>2. ASSUME NEW h \in HandEntries, DeleteEntry(s, h) PROVE ValuationInv(a)'
  <2> DEFINE c == [do |-> "remove", id |-> h, row |-> written[h], debits |-> debitNormal]
  <2>1. Begin(s, <<c>>) /\ c.do \in JournalCalls \cup {"outstanding"}
    BY <1>2 DEF DeleteEntry, JournalCalls
  <2> HIDE DEF c
  <2> QED
    BY <1>1, <2>1
<1>3. ASSUME NEW h \in HandEntries, NEW e \in HandRows, WriteEntry(s, h, e)
      PROVE  ValuationInv(a)'
  <2> DEFINE c == [do |-> "insert", id |-> h, row |-> e, debits |-> debitNormal]
  <2>1. Begin(s, <<c>>) /\ c.do \in JournalCalls \cup {"outstanding"}
    BY <1>3 DEF WriteEntry, JournalCalls
  <2> HIDE DEF c
  <2> QED
    BY <1>1, <2>1
<1>4. CASE BeginRecalculation(s)
  <2> DEFINE c == [do |-> "recalculate", rebuilt |-> Rebuilt(debitNormal),
                   of |-> <<posted, written, debitNormal>>]
  <2>1. Begin(s, <<c>>) /\ c.do \in JournalCalls \cup {"outstanding"}
    BY <1>4 DEF BeginRecalculation, JournalCalls
  <2> HIDE DEF c
  <2> QED
    BY <1>1, <2>1
<1>5. CASE PostUnposted(s)
  <2> DEFINE c == [do |-> "outstanding"]
  <2>1. Begin(s, <<c>>) /\ c.do \in JournalCalls \cup {"outstanding"}
    BY <1>5 DEF PostUnposted, JournalCalls
  <2> HIDE DEF c
  <2> QED
    BY <1>1, <2>1
<1> QED
  BY <1>2, <1>3, <1>4, <1>5, DocumentsValue, Zenon DEF Request

\* Where none of it changes, the books and the stock keep together.
LEMMA ValuationStill ==
  ASSUME NEW a, ValuationInv(a), posted' = posted, slot' = slot, status' = status,
         contended' = contended, lost' = lost, movements' = movements, shelf' = shelf
  PROVE  ValuationInv(a)'
BY DEF ValuationInv, Stocked

\* Every step keeps the books and the stock together.
LEMMA ValuationStepped ==
  ASSUME NEW a \in Accounts, GoodsOn(a), LedgerInv, ControlsInv, LedgerInv', ValuationInv(a),
         [Next]_vars
  PROVE  ValuationInv(a)'
<1>1. ASSUME NEW s \in Slots, Request(s) PROVE ValuationInv(a)'
  BY <1>1, RequestsValue
<1>2. ASSUME NEW s \in Slots, Step(s) PROVE ValuationInv(a)'
  <2>1. CASE WriteDocument(s)
    BY <2>1, WriteValue
  <2>2. CASE MoveStock(s)
    <3>1. At(s, "record") \/ At(s, "apply")
      BY <2>2 DEF MoveStock, Moving
    <3> QED
      BY <2>2, <3>1, RecordValue, ApplyValue
  <2>3. CASE RefuseMove(s)
    BY <2>3, RefuseValue
  <2>4. CASE PlanPosting(s)
    BY <2>4, PlanValue
  <2>5. CASE CommitPosting(s)
    BY <2>5, CommitValue
  <2>6. CASE ReadOutstanding(s)
    BY <2>6, ReadValue
  <2>7. CASE Report(s) \/ InsertEntry(s) \/ RemoveEntry(s) \/ WriteRecalculation(s)
    BY <2>7, LastCallsValue
  <2> QED
    BY <1>2, <2>1, <2>2, <2>3, <2>4, <2>5, <2>6, <2>7 DEF Step
<1>3. ASSUME NEW s \in Slots, Abandon(s) PROVE ValuationInv(a)'
  BY <1>3, AbandonValue
<1>4. ASSUME \/ \E b \in Retypable : RetypeAccount(b)
             \/ \E m \in Mappings : ChooseMapping(m)
             \/ UNCHANGED vars
      PROVE  ValuationInv(a)'
  <2>1. /\ posted' = posted /\ slot' = slot /\ status' = status /\ movements' = movements
        /\ contended' = contended /\ lost' = lost /\ shelf' = shelf
    BY <1>4 DEF RetypeAccount, Retype, ChooseMapping, vars, ledgerVars, documentVars, historyVars
  <2> QED
    BY <2>1, ValuationStill
<1> QED
  BY <1>1, <1>2, <1>3, <1>4 DEF Next

\* The books are opened without stock but what they are opened with.
LEMMA ValuationOpens ==
  ASSUME NEW a, Init
  PROVE  ValuationInv(a)
<1>1. /\ posted = {} /\ slot = [s \in Slots |-> <<>>] /\ shelf = OpeningStock
      /\ status = [d \in Documents |-> "none"] /\ movements = [d \in Documents |-> 0]
      /\ contended = {} /\ lost = {} /\ OpeningStock \in Int
  BY StartAssumption DEF Init, Idle
<1>2. \A s \in Slots : slot[s] = <<>>
  BY <1>1
<1>3. Active(slot) = {} /\ IsFiniteSet({})
  BY <1>2, FS_EmptySet DEF Active
<1>4. Numbered(posted, movements, slot)
  <2>1. \A s \in Slots : Pending(slot[s]) = {}
    BY <1>2, NothingCarried
  <2> QED
    BY <1>1, <2>1 DEF Numbered
<1>5. \A d : OnFile(posted, d) = {}
  BY <1>1 DEF OnFile, Section
<1>6. \A d \in Documents : Delivered(d, movements, status, posted, slot, lost)
  <2>1. \A s \in Slots : \A d : ~Awaits(slot[s], d) /\ FullCalls(slot[s], d)
    BY <1>2, NothingLeft
  <2> QED
    BY <1>1, <1>5, <2>1 DEF Delivered, Awaited
<1>7. Gaps(movements, posted) = 0
  <2> DEFINE w == [d \in Documents |-> Gap(movements, posted, d)]
  <2>1. \A d \in Documents : Gap(movements, posted, d) = 0
    BY <1>1, <1>5 DEF Gap
  <2>2. IsFiniteSet(Documents) /\ Documents \subseteq DOMAIN w
        /\ \A d \in Documents : w[d] \in Nat /\ w[d] = 0
    BY <2>1, StartAssumption
  <2> HIDE DEF w
  <2>3. SumOf(w, Documents) = 0
    BY <2>2, SumNatural
  <2> QED
    BY <2>3 DEF Gaps, w
<1>8. InTransit(slot) = 0
  <2> DEFINE w == [t \in {} |-> Carries(slot[t])]
  <2>1. SumOf(w, {}) = 0
    BY <1>3, SumNatural
  <2> QED
    BY <1>3, <2>1 DEF InTransit, Along
<1>9. Total(posted, a, Accounts) = 0
  BY <1>1, TotalOfFew
<1>10. Stocked(a)
  BY <1>1, <1>7, <1>8, <1>9 DEF Stocked
<1>11. \A s \in Slots : GoodsFits(slot[s])
  BY <1>2, NothingCarried
<1> QED
  BY <1>1, <1>3, <1>4, <1>6, <1>10, <1>11 DEF ValuationInv, Weighty

\* When no handler is running, a document is on the books if its goods have moved.
LEMMA QuietGoods ==
  ASSUME NEW a, LedgerInv, ControlsInv, ValuationInv(a), Quiet, GoodsKept(lost),
         NEW d \in Documents, d \in Weighty => <<d, "posting">> \notin lost
  PROVE  Gap(movements, posted, d) = 0
<1>1. CASE d \in Weighty
  <2>1. d \notin contended /\ Delivered(d, movements, status, posted, slot, lost)
    BY <1>1 DEF ValuationInv
  <2>2. \A s \in Slots : ~Awaits(slot[s], d) /\ ~Owing(slot[s], d, "issued")
    BY IdleTold DEF Quiet, Idle
  <2>3. ~Awaited(slot, d) /\ "issued" \notin Owed(slot, d)
    BY <2>2 DEF Awaited, Owed
  <2>4. movements[d] # 0 <=> status[d] # "none"
    BY <2>1, <2>3 DEF Delivered
  <2>5. status[d] # "none" => OnFile(posted, d) # {}
    BY <1>1, <2>1, <2>3 DEF Delivered
  <2>6. status[d] = "none" => OnFile(posted, d) = {}
    <3>1. Holds(d, status, posted, slot, lost)
      BY <2>1 DEF ControlsInv
    <3>2. status[d] = "none" => Sections(posted, d)["issued"] = {}
      BY <3>1 DEF Holds, Stands
    <3>3. Sections(posted, d)["issued"] = OnFile(posted, d)
      BY DEF Sections, OnFile, Parts
    <3> QED
      BY <3>2, <3>3
  <2>7. Brings(d) \in Int
    BY GainTyped
  <2> QED
    BY <2>4, <2>5, <2>6, <2>7 DEF Gap
<1>2. CASE d \notin Weighty
  <2>1. Brings(d) = 0
    BY <1>2, NoGain DEF Brings, Weighty
  <2> QED
    BY <2>1 DEF Gap
<1> QED
  BY <1>1, <1>2

\* When no handler is running nothing is on the way, and the books carry what the
\* stock is worth.
LEMMA QuietValue ==
  ASSUME NEW a \in Accounts, GoodsOn(a), LedgerInv, ControlsInv, ValuationInv(a)
  PROVE  ValuationIsInventory
<1> SUFFICES ASSUME Quiet, Perpetual(mapping),
                    \A d \in Documents : Worth[d].goods # 0 => lost \cap ({d} \X Whats) = {}
             PROVE  shelf - OpeningStock = Total(posted, mapping["inventory"], Accounts)
  BY DEF ValuationIsInventory
<1>1. mapping["inventory"] = a
  <2>1. mapping \in Mappings
    BY DEF LedgerInv, BooksTyped
  <2> QED
    BY <2>1 DEF GoodsOn
<1>2. \A d \in Documents : Worth[d].goods # 0 => <<d, "posting">> \notin lost /\ <<d, "goods">> \notin lost
  BY DEF Whats
<1>3. GoodsKept(lost)
  BY <1>2 DEF GoodsKept
<1>4. Stocked(a)
  BY <1>3 DEF ValuationInv
<1>5. Gaps(movements, posted) = 0
  <2> DEFINE w == [d \in Documents |-> Gap(movements, posted, d)]
  <2>1. \A d \in Documents : Gap(movements, posted, d) = 0
    BY <1>2, <1>3, QuietGoods DEF Weighty
  <2>2. /\ IsFiniteSet(Documents) /\ Documents \subseteq DOMAIN w
        /\ \A d \in Documents : w[d] \in Nat /\ w[d] = 0
    BY <2>1, StartAssumption
  <2> HIDE DEF w
  <2>3. SumOf(w, Documents) = 0
    BY <2>2, SumNatural
  <2> QED
    BY <2>3 DEF Gaps, w
<1>6. InTransit(slot) = 0
  <2> DEFINE w == [t \in {} |-> Carries(slot[t])]
  <2>1. Active(slot) = {} /\ IsFiniteSet({})
    BY FS_EmptySet DEF Active, Quiet, Idle
  <2>2. SumOf(w, {}) = 0
    BY <2>1, SumNatural
  <2> QED
    BY <2>1, <2>2 DEF InTransit, Along
<1>7. Total(posted, a, Accounts) \in Int
  BY BooksInt
<1> QED
  BY <1>1, <1>4, <1>5, <1>6, <1>7 DEF Stocked

\* What the stock on the shelves is worth is what the Inventory account carries,
\* whenever no handler is running and no goods were left out of the books: for any
\* documents, handlers, mappings, clients that drop their connections and repairs,
\* while the administrator keeps the stock on one account.  Goods are booked either
\* by their movement or by their document, never by both: what a movement still has
\* to book is in its handler's hands, and what a document has moved but not booked,
\* or booked but not moved, is what it brings.
THEOREM StockStaysValued ==
  ASSUME StockAccountKept
  PROVE  Spec => []ValuationIsInventory
<1> PICK a \in Accounts : GoodsOn(a)
  BY DEF StockAccountKept
<1> DEFINE Inv == LedgerInv /\ ControlsInv /\ ValuationInv(a)
<1>1. Init => Inv
  BY BooksOpen, ControlsOpen, ValuationOpens
<1>2. Inv /\ [Next]_vars => Inv'
  BY ControlsGoOn, ValuationStepped
<1>3. Inv => ValuationIsInventory
  BY QuietValue
<1> HIDE DEF Inv
<1> QED
  BY <1>1, <1>2, <1>3, PTL DEF Spec
=============================================================================
