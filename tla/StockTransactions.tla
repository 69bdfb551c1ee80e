------------------------- MODULE StockTransactions --------------------------
(***************************************************************************)
(* What Shelf takes for single steps, statement by statement: one          *)
(* transaction of PgStockRepository on the rows of one product under READ  *)
(* COMMITTED.  A transaction holds the rows it has written, or has read    *)
(* FOR UPDATE, until it ends, and another waits for them.  The variables   *)
(* of Shelf are the rows as last written; committed is what everybody else *)
(* reads, and what a rollback returns to.                                  *)
(*                                                                         *)
(* A movement locks the level it takes from, then the product, whose       *)
(* running cost it moves, then the levels it writes; one that brings goods *)
(* in begins with the product.                                             *)
(***************************************************************************)
EXTENDS Shelf, Requests, FiniteSetsExt

CONSTANTS
  StockLines,   \* the lines that hold stock in these transactions
  UnitCosts,    \* the costs a document may name, in units of COST_SCALE
  MaxStocked,   \* bound on what is in stock
  MaxAverage    \* bound on the average a return starts from

ASSUME WarehousesAssumption == IsFiniteSet(Warehouses)
ASSUME UnitCostsAssumption == UnitCosts \subseteq Nat
ASSUME StockLinesAssumption == StockLines \subseteq Lines

VARIABLES
  average,     \* products.average_cost
  holder,      \* who holds each row, nobody or one
  committed    \* the rows as last committed

stockVars == <<shelfVars, average, holder, committed>>

Uncosted == -1
NamesNoCost == -1

Product == "product"
Rows == {Product} \cup Warehouses \cup StockLines

\* The rows are those of different tables.
ASSUME RowsAssumption ==
  Product \notin Warehouses \cup StockLines /\ Warehouses \cap StockLines = {}

Committed == INSTANCE Shelf WITH
  onHand <- committed.onHand, reserved <- committed.reserved, held <- committed.held

-----------------------------------------------------------------------------
(* Costing *)

\* Rounded to the scale of the column, a half away from zero.
RoundedRatio(a, b) == (2 * a + b) \div (2 * b)

CurrentCost(cost) == AtLeastZero(cost)

MovingAverage(total, current, incoming, cost) ==
  IF total <= 0
  THEN cost
  ELSE RoundedRatio(total * CurrentCost(current) + incoming * cost, total + incoming)

AverageAfterRemoval(total, current, removed, cost) ==
  LET remaining == total * CurrentCost(current) - removed * cost IN
  CASE removed >= total -> CurrentCost(current)
    [] removed < total /\ remaining <= 0 -> 0
    [] removed < total /\ remaining > 0 -> RoundedRatio(remaining, total - removed)

\* Variant: goods returned to a supplier leave at their own price and the rest
\* keeps the average.
AverageOfArrivals(move, total) ==
  IF move.delta > 0
  THEN MovingAverage(total, average, move.delta, move.cost)
  ELSE average

\* A transfer changes which shelf the goods are on and a sale consumes at the
\* average; a movement nobody has a cost for leaves the product uncosted.
AverageAfter(move, total) ==
  LET cost == IF move.cost = NamesNoCost THEN average ELSE move.cost IN
  CASE cost = Uncosted \/ move.to # NoWarehouse -> average
    [] cost # Uncosted /\ move.to = NoWarehouse /\ move.delta > 0 ->
         MovingAverage(total, average, move.delta, cost)
    [] cost # Uncosted /\ move.to = NoWarehouse /\ move.delta < 0 ->
         IF move.cost = NamesNoCost THEN average
         ELSE AverageAfterRemoval(total, average, -move.delta, cost)

TotalOf(levels) == MapThenSumSet(LAMBDA w : levels[w], Warehouses)

-----------------------------------------------------------------------------
(* Rows, locks and the end of a transaction *)

Lockable(s, row) == holder[row] \subseteq {s}
Lock(s, row) == holder' = [holder EXCEPT ![row] = {s}]
Unlocked(s) == [row \in Rows |-> holder[row] \ {s}]

\* Each row as t has it where s holds it, and as u has it elsewhere.
Chosen(s, t, u) ==
  [onHand   |-> [w \in Warehouses |-> IF s \in holder[w] THEN t.onHand[w] ELSE u.onHand[w]],
   reserved |-> [w \in Warehouses |-> IF s \in holder[w] THEN t.reserved[w] ELSE u.reserved[w]],
   held     |-> [l \in Lines |-> IF l \in StockLines /\ s \in holder[l]
                                 THEN t.held[l] ELSE u.held[l]],
   average  |-> IF s \in holder[Product] THEN t.average ELSE u.average]

Written == [onHand |-> onHand, reserved |-> reserved, held |-> held, average |-> average]

RollBack(s) ==
  LET rows == Chosen(s, committed, Written) IN
  /\ onHand' = rows.onHand /\ reserved' = rows.reserved
  /\ held' = rows.held /\ average' = rows.average
  /\ holder' = Unlocked(s)
  /\ UNCHANGED committed

Refuse(s) == RollBack(s) /\ Finish(s)

Commit(s) ==
  /\ At(s, "stock.commit")
  /\ committed' = Chosen(s, Written, committed)
  /\ holder' = Unlocked(s)
  /\ Finish(s)
  /\ UNCHANGED <<shelfVars, average>>

GoTo(s, step) == Continue(s, [slot[s] EXCEPT !.step = step])

-----------------------------------------------------------------------------
(* apply_movements, for one movement: delta at one warehouse and, for a     *)
(* transfer, the opposite at another.                                       *)

NoLine == [line |-> NoWarehouse, quantity |-> 0, at |-> NoWarehouse, next |-> "stock.check"]
Move(from, to, delta, cost) == [from |-> from, to |-> to, delta |-> delta, cost |-> cost]

BeginMove(s, request, first, line, move) ==
  /\ Begin(s, request, [step |-> first, hold |-> line, move |-> move, total |-> 0])
  /\ UNCHANGED stockVars

\* An invoice line going out first hands back what its order line holds.
BeginShip(s, l, w, n) ==
  BeginMove(s, "stock.ship", "stock.release",
            [NoLine EXCEPT !.line = l, !.quantity = n], Move(w, NoWarehouse, -n, NamesNoCost))

BeginRemove(s, w, n) ==
  BeginMove(s, "stock.remove", "stock.check", NoLine, Move(w, NoWarehouse, -n, NamesNoCost))

\* Goods going back to a supplier name what they came in at.
BeginReturn(s, w, n, cost) ==
  /\ CurrentCost(average) <= MaxAverage
  /\ BeginMove(s, "stock.return", "stock.check", NoLine, Move(w, NoWarehouse, -n, cost))

BeginReceive(s, w, n, cost) ==
  /\ TotalOf(committed.onHand) + n <= MaxStocked
  /\ BeginMove(s, "stock.receive", "stock.total", NoLine, Move(w, NoWarehouse, n, cost))

BeginTransfer(s, w, v, n) ==
  /\ w # v
  /\ BeginMove(s, "stock.transfer", "stock.check", NoLine, Move(w, v, -n, NamesNoCost))

ReleaseLine(s) ==
  LET l == slot[s].hold.line
      n == slot[s].hold.quantity IN
  /\ At(s, "stock.release") /\ Lockable(s, l)
  /\ IF held[l] = NoHold
     THEN GoTo(s, slot[s].hold.next) /\ UNCHANGED <<held, holder>>
     ELSE /\ held' = [held EXCEPT ![l] = HoldAfter(l, n)]
          /\ Lock(s, l)
          /\ Continue(s, [slot[s] EXCEPT !.step = "stock.giveBack",
                !.hold.quantity = GivenBack(l, n), !.hold.at = held[l].at])
  /\ UNCHANGED <<onHand, reserved, average, committed>>

GiveBack(s) ==
  LET w == slot[s].hold.at IN
  /\ At(s, "stock.giveBack") /\ Lockable(s, w)
  /\ reserved' = [reserved EXCEPT ![w] = AtLeastZero(@ - slot[s].hold.quantity)]
  /\ Lock(s, w)
  /\ GoTo(s, slot[s].hold.next)
  /\ UNCHANGED <<onHand, held, average, committed>>

\* Variant: a line that cannot go out keeps the release made for it.
CheckAfterRelease(s) ==
  LET w == slot[s].move.from IN
  /\ At(s, "stock.check") /\ Lockable(s, w)
  /\ IF Available(w) + slot[s].move.delta >= 0
     THEN Lock(s, w) /\ GoTo(s, "stock.total") /\ UNCHANGED committed
     ELSE /\ committed' = Chosen(s, Written, committed)
          /\ holder' = Unlocked(s)
          /\ Finish(s)
  /\ UNCHANGED <<shelfVars, average>>

Check(s) ==
  LET w == slot[s].move.from IN
  /\ At(s, "stock.check") /\ Lockable(s, w)
  /\ IF Available(w) + slot[s].move.delta >= 0
     THEN Lock(s, w) /\ GoTo(s, "stock.total")
          /\ UNCHANGED <<shelfVars, average, committed>>
     ELSE Refuse(s)

\* The statement that locks the product begins: the levels it sums are those
\* committed by now, however long it waits for the product.
SumOnHand(s) ==
  /\ At(s, "stock.total")
  /\ Continue(s, [slot[s] EXCEPT !.step = "stock.cost", !.total = TotalOf(committed.onHand)])
  /\ UNCHANGED stockVars

MoveAverage(s) ==
  /\ At(s, "stock.cost") /\ Lockable(s, Product)
  /\ average' = AverageAfter(slot[s].move, slot[s].total)
  /\ Lock(s, Product)
  /\ GoTo(s, "stock.adjust")
  /\ UNCHANGED <<shelfVars, committed>>

AdjustLevel(s) ==
  LET move == slot[s].move IN
  /\ At(s, "stock.adjust") /\ Lockable(s, move.from)
  /\ onHand' = [onHand EXCEPT ![move.from] = @ + move.delta]
  /\ Lock(s, move.from)
  /\ GoTo(s, IF move.to = NoWarehouse THEN "stock.commit" ELSE "stock.arrive")
  /\ UNCHANGED <<reserved, held, average, committed>>

AdjustDestination(s) ==
  LET move == slot[s].move IN
  /\ At(s, "stock.arrive") /\ Lockable(s, move.to)
  /\ onHand' = [onHand EXCEPT ![move.to] = @ - move.delta]
  /\ Lock(s, move.to)
  /\ GoTo(s, "stock.commit")
  /\ UNCHANGED <<reserved, held, average, committed>>

-----------------------------------------------------------------------------
(* Reservations *)

BeginReserve(s, l, w, n) ==
  /\ Begin(s, "stock.reserve", [step |-> "stock.reserve", line |-> l, at |-> w, quantity |-> n])
  /\ UNCHANGED stockVars

LockToReserve(s) ==
  LET w == slot[s].at
      n == Reservable(w, slot[s].quantity) IN
  /\ At(s, "stock.reserve") /\ Lockable(s, w)
  /\ IF n = 0
     THEN Refuse(s)
     ELSE /\ Lock(s, w)
          /\ Continue(s, [slot[s] EXCEPT !.step = "stock.hold", !.quantity = n])
          /\ UNCHANGED <<shelfVars, average, committed>>

\* The insert waits for another hold of the line, and for whoever has the
\* product it refers to.
InsertHold(s) ==
  LET l == slot[s].line
      w == slot[s].at IN
  /\ At(s, "stock.hold") /\ Lockable(s, l) /\ Lockable(s, Product)
  /\ IF held[l] # NoHold
     THEN Refuse(s)
     ELSE /\ held' = [held EXCEPT ![l] = [at |-> w, quantity |-> slot[s].quantity]]
          /\ reserved' = [reserved EXCEPT ![w] = @ + slot[s].quantity]
          /\ Lock(s, l)
          /\ GoTo(s, "stock.commit")
          /\ UNCHANGED <<onHand, average, committed>>

\* release_order: all that the line holds.
BeginRelease(s, l) ==
  /\ Begin(s, "stock.free",
           [step |-> "stock.release",
            hold |-> [NoLine EXCEPT !.line = l, !.quantity = MaxQuantity, !.next = "stock.commit"]])
  /\ UNCHANGED stockVars

\* The order's own transaction deletes the line, and its hold with it.
LineDeleted(l) ==
  /\ holder[l] = {} /\ held[l] # NoHold
  /\ Happens("stock.cascade")
  /\ held' = [held EXCEPT ![l] = NoHold]
  /\ committed' = [committed EXCEPT !.held[l] = NoHold]
  /\ UNCHANGED <<onHand, reserved, average, holder>>

-----------------------------------------------------------------------------
\* The rows a transaction's next statement needs.
Wants(s) ==
  CASE At(s, "stock.release") -> {slot[s].hold.line}
    [] At(s, "stock.giveBack") -> {slot[s].hold.at}
    [] slot[s].step \in {"stock.check", "stock.adjust"} -> {slot[s].move.from}
    [] At(s, "stock.cost") -> {Product}
    [] At(s, "stock.arrive") -> {slot[s].move.to}
    [] At(s, "stock.reserve") -> {slot[s].at}
    [] At(s, "stock.hold") -> {slot[s].line, Product}
    [] OTHER -> {}

WaitsFor(s, r) == s # r /\ \E row \in Wants(s) : r \in holder[row]

\* The database ends one of two transactions that wait for each other.
EndDeadlock(s) ==
  /\ \E r \in Slots : WaitsFor(s, r) /\ WaitsFor(r, s)
  /\ Refuse(s)

StockInit ==
  /\ average = Uncosted
  /\ holder = [row \in Rows |-> {}]
  /\ committed = [Written EXCEPT !.average = Uncosted]

\* Deliveries name their cost in the behaviours that are about costs.
DeliveryCosts == {NamesNoCost} \cup (IF "stock.costs" \in agenda THEN UnitCosts ELSE {})

StockRequest(s) ==
  \E w \in Warehouses, n \in Quantities :
    \/ \E l \in StockLines : BeginShip(s, l, w, n) \/ BeginReserve(s, l, w, n)
    \/ BeginRemove(s, w, n)
    \/ \E cost \in UnitCosts : BeginReturn(s, w, n, cost)
    \/ \E cost \in DeliveryCosts : BeginReceive(s, w, n, cost)
    \/ \E v \in Warehouses : BeginTransfer(s, w, v, n)

StockStep(s) ==
  \/ ReleaseLine(s) \/ GiveBack(s)
  \/ Check(s) \/ SumOnHand(s) \/ MoveAverage(s)
  \/ AdjustLevel(s) \/ AdjustDestination(s)
  \/ LockToReserve(s) \/ InsertHold(s)
  \/ Commit(s) \/ EndDeadlock(s)

StockRequests ==
  {"stock.ship", "stock.remove", "stock.return", "stock.receive", "stock.transfer",
   "stock.reserve", "stock.free", "stock.cascade"}

StockNext ==
  /\ Concerns(StockRequests)
  /\ \/ \E l \in StockLines : LineDeleted(l)
     \/ \E s \in Slots :
          \/ Free(s) /\ (StockRequest(s) \/ \E l \in StockLines : BeginRelease(s, l))
          \/ StockStep(s)

\* A handler that is dropped ends its transaction.
TransactionsNext ==
  \/ StockNext
  \/ \E s \in Slots : Abandon(s) /\ RollBack(s)

TransactionsSpec ==
  RequestsInit /\ ShelfInit /\ StockInit /\ [][TransactionsNext]_<<requestVars, stockVars>>

-----------------------------------------------------------------------------
(* Correctness *)

StockTypeOK ==
  /\ average \in Nat \cup {Uncosted}
  /\ \A row \in Rows : Cardinality(holder[row]) <= 1
  /\ Quiet => committed = Written

\* However their statements interleave, wait for each other, deadlock or are
\* dropped, each transaction of the stock repository is one step of Shelf: it
\* takes effect when it commits, and then as if it had run alone.
TransactionsAreSteps == Committed!ShelfSpec

Value(rows) == TotalOf(rows.onHand) * CurrentCost(rows.average)
Between(x, a, b) == (a <= x /\ x <= b) \/ (b <= x /\ x <= a)
Moves(s) == At(s, "stock.commit") /\ "move" \in DOMAIN slot[s]

\* A delivery moves the average toward its own price and never past it,
\* whatever it overlaps with, and a transfer leaves it alone.  In turn, each
\* movement changes the stock valuation by what its row says it was worth, to
\* within half a unit of COST_SCALE for each item on the shelf, unless what a
\* supplier takes back is all there is or worth more than that.  (Movements that
\* overlap sum what is on hand before they wait for the product, and lose this.)
MovementsKeepTheirWorth ==
  [][committed' # committed => \A s \in Slots : Moves(s) /\ slot'[s] = Idle =>
       LET move == slot[s].move
           cost == IF move.cost = NamesNoCost THEN committed.average ELSE move.cost
           worth == move.delta * CurrentCost(cost)
           left == TotalOf(committed'.onHand)
           off == Value(committed') - Value(committed) - worth IN
       /\ move.to # NoWarehouse => committed'.average = committed.average
       /\ move.delta > 0 =>
            Between(CurrentCost(committed'.average), CurrentCost(committed.average), CurrentCost(cost))
       /\ InTurn' /\ move.to = NoWarehouse /\ left > 0 /\ Value(committed) + worth > 0 =>
            -left <= 2 * off /\ 2 * off <= left]_committed
=============================================================================
