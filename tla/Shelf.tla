------------------------------- MODULE Shelf -------------------------------
(***************************************************************************)
(* The stock rows of one product: stock_levels (what is on hand and how    *)
(* much of it is spoken for, per warehouse) and stock_reservations (which  *)
(* order line speaks for how much, at which warehouse).                    *)
(*                                                                         *)
(* Every action is one database transaction of PgStockRepository.  Each of *)
(* them locks the rows it decides on before it reads them, so a            *)
(* transaction is a single step; what several transactions of one request  *)
(* do between them is the business of the modules that use this one.       *)
(***************************************************************************)
EXTENDS Integers, FiniteSets

CONSTANTS
  Warehouses,     \* the warehouses the product is kept in
  Lines,          \* identities of sales_order_lines rows
  NoWarehouse,    \* where a line that holds nothing holds it
  MaxQuantity     \* bound on the quantity of one movement or promise

ASSUME LinesAssumption == IsFiniteSet(Lines)
ASSUME NoWarehouseAssumption == NoWarehouse \notin Warehouses
ASSUME MaxQuantityAssumption == MaxQuantity \in Nat \ {0}

VARIABLES
  onHand,     \* stock_levels.quantity
  reserved,   \* stock_levels.reserved_quantity
  held        \* the stock_reservations row of a line (UNIQUE per line)

shelfVars == <<onHand, reserved, held>>

Quantities == 1..MaxQuantity

\* No row: the table's CHECK keeps the quantity of a real one positive.
NoHold == [at |-> NoWarehouse, quantity |-> 0]

Hold == [at : Warehouses, quantity : Quantities] \cup {NoHold}

ShelfTypeOK ==
  /\ onHand \in [Warehouses -> Int]
  /\ reserved \in [Warehouses -> Nat]
  /\ held \in [Lines -> Hold]

AtLeastZero(n) == IF n < 0 THEN 0 ELSE n
Lesser(m, n)   == IF m < n THEN m ELSE n

Available(w) == onHand[w] - reserved[w]

\* Variant: promises what is on hand, spoken for or not.
ReservableFromOnHand(w, n) == AtLeastZero(Lesser(n, onHand[w]))

Reservable(w, n) == AtLeastZero(Lesser(n, Available(w)))

-----------------------------------------------------------------------------
ShelfInit ==
  /\ onHand = [w \in Warehouses |-> 0]
  /\ reserved = [w \in Warehouses |-> 0]
  /\ held = [l \in Lines |-> NoHold]

\* reserve_for_order, one line: holds what the shelf can cover of the n
\* wanted.  A line the shelf can hold nothing for gets no row; a line that
\* already has one violates UNIQUE (order_line_id) and the transaction aborts.
CanReserve(l, w, n) == Reservable(w, n) > 0 /\ held[l] = NoHold

Reserve(l, w, n) ==
  /\ CanReserve(l, w, n)
  /\ held' = [held EXCEPT ![l] = [at |-> w, quantity |-> Reservable(w, n)]]
  /\ reserved' = [reserved EXCEPT ![w] = @ + Reservable(w, n)]
  /\ UNCHANGED onHand

\* Variant: hands back what was invoiced, held or not.
InvoicedGivenBack(l, n) == n

\* release_line: what is handed back of n is never more than the line holds.
GivenBack(l, n) == Lesser(n, held[l].quantity)

\* Variant: the row is decremented and never deleted.
HoldDecremented(l, n) == [held[l] EXCEPT !.quantity = @ - GivenBack(l, n)]

HoldAfter(l, n) ==
  IF held[l].quantity > n
    THEN [held[l] EXCEPT !.quantity = @ - n]
    ELSE NoHold

ReservedAfter(l, n) ==
  [w \in Warehouses |->
     IF w = held[l].at THEN AtLeastZero(reserved[w] - GivenBack(l, n))
                       ELSE reserved[w]]

\* apply_movements for an invoice line of n going out at w: first the hold of
\* the order line behind it is handed back, then what is available is checked
\* against the level just locked.  A refusal rolls the release back with it.
CanShip(l, w, n) == onHand[w] - ReservedAfter(l, n)[w] >= n

Ship(l, w, n) ==
  /\ CanShip(l, w, n)
  /\ held' = [held EXCEPT ![l] = HoldAfter(l, n)]
  /\ reserved' = ReservedAfter(l, n)
  /\ onHand' = [onHand EXCEPT ![w] = @ - n]

\* A movement out that no order line stands behind: an invoice raised by
\* hand, goods returned to a supplier, a negative adjustment.
Remove(w, n) ==
  /\ Available(w) >= n
  /\ onHand' = [onHand EXCEPT ![w] = @ - n]
  /\ UNCHANGED <<reserved, held>>

\* A movement in: a goods receipt, a cancelled or credited invoice, a positive
\* adjustment.  Nothing is checked on the way in.
Receive(w, n) ==
  /\ onHand' = [onHand EXCEPT ![w] = @ + n]
  /\ UNCHANGED <<reserved, held>>

Transfer(w, v, n) ==
  /\ w # v
  /\ Available(w) >= n
  /\ onHand' = [onHand EXCEPT ![w] = @ - n, ![v] = @ + n]
  /\ UNCHANGED <<reserved, held>>

\* release_order, of an order whose line is l: the deleted row drives what is
\* given back.
ReleaseOrder(l) ==
  /\ held[l] # NoHold
  /\ held' = [held EXCEPT ![l] = NoHold]
  /\ reserved' = ReservedAfter(l, held[l].quantity)
  /\ UNCHANGED onHand

\* The order line is deleted while it still holds stock: ON DELETE CASCADE
\* removes the reservation row and leaves reserved_quantity as it was.
CascadeHold(l) ==
  /\ held[l] # NoHold
  /\ held' = [held EXCEPT ![l] = NoHold]
  /\ UNCHANGED <<onHand, reserved>>

ShelfNext ==
  \/ \E w \in Warehouses, n \in Quantities :
       \/ \E l \in Lines : Reserve(l, w, n) \/ Ship(l, w, n)
       \/ Remove(w, n)
       \/ Receive(w, n)
       \/ \E v \in Warehouses : Transfer(w, v, n)
  \/ \E l \in Lines : ReleaseOrder(l) \/ CascadeHold(l)

ShelfSpec == ShelfInit /\ [][ShelfNext]_shelfVars
-----------------------------------------------------------------------------
(* Correctness *)

\* A shelf never promises more than it has: whatever the order of receipts,
\* shipments, transfers and reservations, reserved_quantity stays between zero
\* and what is on hand, so two orders are never told the same unit is free.
NeverOversold ==
  \A w \in Warehouses : reserved[w] \in 0..onHand[w]

\* The units that reservation rows hold at a warehouse, one element each.
UnitsHeld(w) ==
  {u \in Lines \X Quantities :
     held[u[1]].at = w /\ u[2] <= held[u[1]].quantity}

\* Every unit a reservation row holds is counted in reserved_quantity, so a
\* release never hands back what some other line still holds and the clamp at
\* zero in release_line and release_into is never needed.
HoldsCovered ==
  \A w \in Warehouses : Cardinality(UnitsHeld(w)) <= reserved[w]

\* What a line holds it can ship: handing back the hold makes enough available
\* for the very quantity held, whatever anybody else has taken meanwhile.
HeldGoodsCanShip ==
  \A l \in Lines : held[l] # NoHold => CanShip(l, held[l].at, held[l].quantity)
=============================================================================
