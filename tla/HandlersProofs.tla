--------------------------- MODULE HandlersProofs ---------------------------
(***************************************************************************)
(* What the handlers of the service do to each other.                      *)
(*                                                                         *)
(* First those that move stock.  The transactions of the stock repository, *)
(* taken statement by statement, implement module Shelf for any            *)
(* warehouses, lines, quantities and handlers.  The argument is one        *)
(* invariant.  A row is written by at most one transaction at a time;      *)
(* where nobody has written it is as committed; and where a transaction    *)
(* has, it is what the statements made so far make of the committed row.   *)
(* When it commits, that is what a step of Shelf makes of the committed    *)
(* rows.                                                                   *)
(*                                                                         *)
(* Then what the parts of the service rely on in each other: each moves    *)
(* only handlers that are at steps of its own, or takes a slot that is     *)
(* free; a handler names the step it is at; and as long as nothing has     *)
(* disturbed another, at most one is in flight.  The theorems about one    *)
(* part of the service rest on this, because its specification has all of  *)
(* the others take steps in between.                                       *)
(***************************************************************************)
EXTENDS Service, Sums, TLAPS

-----------------------------------------------------------------------------
(* Stock transactions: the invariant *)

ShelfRows(rows) ==
  /\ rows.onHand \in [Warehouses -> Int]
  /\ rows.reserved \in [Warehouses -> Nat]
  /\ rows.held \in [Lines -> Hold]

RowsTyped ==
  /\ ShelfTypeOK
  /\ committed = [onHand |-> committed.onHand, reserved |-> committed.reserved,
                  held |-> committed.held, average |-> committed.average]
  /\ ShelfRows(committed)
  /\ holder \in [Rows -> SUBSET Slots]
  /\ slot = [s \in Slots |-> slot[s]]

OneHolder == \A row \in Rows : \A s, r \in holder[row] : s = r

FreeRowsAreCommitted ==
  /\ \A w \in Warehouses : holder[w] = {} =>
       onHand[w] = committed.onHand[w] /\ reserved[w] = committed.reserved[w]
  /\ \A l \in Lines : l \notin StockLines \/ holder[l] = {} => held[l] = committed.held[l]

\* A hold to give back, before and after its row is found.
HoldRecords ==
  [line : StockLines \cup {NoWarehouse}, quantity : Nat,
   at : Warehouses \cup {NoWarehouse}, next : {"stock.check", "stock.commit"}]

Released(hold) == hold.at # NoWarehouse

\* The line that s has found holding something, of which it gives back n at
\* most.
LineReleased(s, step, hold, n) ==
  LET l == hold.line
      row == committed.held[l] IN
  /\ l \in StockLines /\ s \in holder[l] /\ hold.at \in Warehouses
  /\ row # NoHold /\ row.at = hold.at
  /\ hold.quantity = Lesser(n, row.quantity)
  /\ held[l] = IF row.quantity > n THEN [at |-> row.at, quantity |-> row.quantity - n] ELSE NoHold
  /\ step # "stock.giveBack" => s \in holder[hold.at]

\* What a release does to the rows that s has written, and to no other line.
RowsReleased(s, step, hold) ==
  /\ step \in {"stock.release", "stock.giveBack"} => \A w \in Warehouses : s \notin holder[w]
  /\ \A l \in StockLines : s \in holder[l] => Released(hold) /\ l = hold.line
  /\ \A w \in Warehouses : s \in holder[w] =>
       reserved[w] = IF w = hold.at THEN AtLeastZero(committed.reserved[w] - hold.quantity)
                                    ELSE committed.reserved[w]

MoveRecords ==
  [from : Warehouses, to : Warehouses \cup {NoWarehouse}, delta : Int,
   cost : UnitCosts \cup {NamesNoCost}]

MoveSteps ==
  {"stock.release", "stock.giveBack", "stock.check", "stock.total", "stock.cost",
   "stock.adjust", "stock.arrive", "stock.commit"}

\* What a movement has added to a level so far.
Moved(step, move, w) ==
  IF w = move.from /\ step \in {"stock.arrive", "stock.commit"} THEN move.delta
  ELSE IF w = move.to /\ step = "stock.commit" THEN -move.delta ELSE 0

\* Goods going out are there, as committed and less what s releases.
GoodsAreThere(s, move) ==
  /\ s \in holder[move.from]
  /\ committed.onHand[move.from] - reserved[move.from] + move.delta >= 0

\* A movement carries one of these, whatever it has done so far.
MoveLocals(step, hold, move) ==
  /\ step \in MoveSteps /\ hold \in HoldRecords /\ move \in MoveRecords
  /\ hold.next = "stock.check"
  /\ move.delta \in Quantities \/ -move.delta \in Quantities
  /\ move.to # NoWarehouse => move.to # move.from /\ move.delta < 0 /\ ~Released(hold)
  /\ Released(hold) => move.delta < 0
  /\ step = "stock.release" =>
       ~Released(hold) /\ hold.line \in StockLines /\ hold.quantity = -move.delta
         /\ move.to = NoWarehouse
  /\ step = "stock.giveBack" => Released(hold)
  /\ step = "stock.arrive" => move.to # NoWarehouse
  /\ step \in {"stock.release", "stock.giveBack", "stock.check"} => move.delta < 0

MovementAt(s, step, hold, move) ==
  /\ MoveLocals(step, hold, move)
  /\ Released(hold) => LineReleased(s, step, hold, -move.delta)
  /\ RowsReleased(s, step, hold)
  /\ step \in {"stock.total", "stock.cost", "stock.adjust", "stock.arrive", "stock.commit"}
       /\ move.delta < 0 => GoodsAreThere(s, move)
  /\ step \in {"stock.arrive", "stock.commit"} => s \in holder[move.from]
  /\ step = "stock.commit" /\ move.to # NoWarehouse => s \in holder[move.to]
  /\ \A w \in Warehouses : s \in holder[w] =>
       onHand[w] = committed.onHand[w] + Moved(step, move, w)

Movement(s) ==
  /\ DOMAIN slot[s] = {"step", "hold", "move", "total"}
  /\ slot[s] = [step |-> slot[s].step, hold |-> slot[s].hold,
                move |-> slot[s].move, total |-> slot[s].total]
  /\ MovementAt(s, slot[s].step, slot[s].hold, slot[s].move)

\* release_order gives back all there is.
ReleaseLocals(step, hold) ==
  /\ step \in {"stock.release", "stock.giveBack", "stock.commit"} /\ hold \in HoldRecords
  /\ hold.next = "stock.commit"
  /\ step = "stock.release" =>
       ~Released(hold) /\ hold.line \in StockLines /\ hold.quantity = MaxQuantity
  /\ step = "stock.giveBack" => Released(hold)

ReleaseAt(s, step, hold) ==
  /\ ReleaseLocals(step, hold)
  /\ Released(hold) => LineReleased(s, step, hold, MaxQuantity)
  /\ RowsReleased(s, step, hold)
  /\ \A w \in Warehouses : s \in holder[w] => onHand[w] = committed.onHand[w]

Release(s) ==
  /\ DOMAIN slot[s] = {"step", "hold"}
  /\ slot[s] = [step |-> slot[s].step, hold |-> slot[s].hold]
  /\ ReleaseAt(s, slot[s].step, slot[s].hold)

ReservationAt(s, step, l, w, n) ==
  /\ step \in {"stock.reserve", "stock.hold", "stock.commit"}
  /\ l \in StockLines /\ w \in Warehouses /\ n \in Quantities
  /\ step # "stock.reserve" =>
       s \in holder[w] /\ n <= committed.onHand[w] - committed.reserved[w]
  /\ step = "stock.commit" =>
       /\ s \in holder[l]
       /\ committed.held[l] = NoHold /\ held[l] = [at |-> w, quantity |-> n]
  /\ \A k \in StockLines : s \in holder[k] => step = "stock.commit" /\ k = l
  /\ \A v \in Warehouses : s \in holder[v] =>
       /\ step # "stock.reserve" /\ v = w
       /\ onHand[v] = committed.onHand[v]
       /\ reserved[v] = committed.reserved[v] + IF step = "stock.commit" THEN n ELSE 0

Reservation(s) ==
  /\ DOMAIN slot[s] = {"step", "line", "at", "quantity"}
  /\ slot[s] = [step |-> slot[s].step, line |-> slot[s].line,
                at |-> slot[s].at, quantity |-> slot[s].quantity]
  /\ ReservationAt(s, slot[s].step, slot[s].line, slot[s].at, slot[s].quantity)

\* The steps at which a handler is in a transaction; at any other it holds no row.
StockSteps ==
  {"stock.release", "stock.giveBack", "stock.check", "stock.total", "stock.cost",
   "stock.adjust", "stock.arrive", "stock.reserve", "stock.hold", "stock.commit"}

AtRest(s) == slot[s].step \notin StockSteps /\ \A row \in Rows : s \notin holder[row]

OnItsWay(s) == AtRest(s) \/ Movement(s) \/ Release(s) \/ Reservation(s)

TransactionsInv ==
  RowsTyped /\ OneHolder /\ FreeRowsAreCommitted /\ \A s \in Slots : OnItsWay(s)

-----------------------------------------------------------------------------
(* Stock transactions: locals of a handler *)

\* The locals of a movement, taken from its slot and put there.
LEMMA MovementIs ==
  ASSUME NEW s, Movement(s), NEW step, NEW hold, step = slot[s].step, hold = slot[s].hold
  PROVE  \E move, total :
           /\ slot[s] = [step |-> step, hold |-> hold, move |-> move, total |-> total]
           /\ MovementAt(s, step, hold, move)
BY DEF Movement

\* A slot with such locals is in the middle of a movement.
LEMMA IsMovement ==
  ASSUME NEW s, NEW step, NEW hold, NEW move, NEW total,
         slot'[s] = [step |-> step, hold |-> hold, move |-> move, total |-> total],
         MovementAt(s, step, hold, move)'
  PROVE  Movement(s)' /\ OnItsWay(s)'
<1>1. slot'[s] = [step |-> slot'[s].step, hold |-> slot'[s].hold,
                  move |-> slot'[s].move, total |-> slot'[s].total]
        /\ DOMAIN slot'[s] = {"step", "hold", "move", "total"}
  OBVIOUS
<1>2. MovementAt(s, slot[s].step, slot[s].hold, slot[s].move)'
  BY DEF MovementAt
<1> QED
  BY <1>1, <1>2 DEF Movement, OnItsWay

\* The locals of a release, taken from its slot and put there.
LEMMA ReleaseIs ==
  ASSUME NEW s, Release(s), NEW step, NEW hold, step = slot[s].step, hold = slot[s].hold
  PROVE  slot[s] = [step |-> step, hold |-> hold] /\ ReleaseAt(s, step, hold)
BY DEF Release

\* A slot with such locals is in the middle of a release.
LEMMA IsRelease ==
  ASSUME NEW s, NEW step, NEW hold,
         slot'[s] = [step |-> step, hold |-> hold],
         ReleaseAt(s, step, hold)'
  PROVE  Release(s)' /\ OnItsWay(s)'
<1>1. slot'[s] = [step |-> slot'[s].step, hold |-> slot'[s].hold]
        /\ DOMAIN slot'[s] = {"step", "hold"}
  OBVIOUS
<1>2. ReleaseAt(s, slot[s].step, slot[s].hold)'
  BY DEF ReleaseAt
<1> QED
  BY <1>1, <1>2 DEF Release, OnItsWay

\* The locals of a reservation, taken from its slot and put there.
LEMMA ReservationIs ==
  ASSUME NEW s, Reservation(s), NEW step, step = slot[s].step
  PROVE  \E l, w, n :
           /\ slot[s] = [step |-> step, line |-> l, at |-> w, quantity |-> n]
           /\ ReservationAt(s, step, l, w, n)
BY DEF Reservation

\* A slot with such locals is in the middle of a reservation.
LEMMA IsReservation ==
  ASSUME NEW s, NEW step, NEW l, NEW w, NEW n,
         slot'[s] = [step |-> step, line |-> l, at |-> w, quantity |-> n],
         ReservationAt(s, step, l, w, n)'
  PROVE  Reservation(s)' /\ OnItsWay(s)'
<1>1. slot'[s] = [step |-> slot'[s].step, line |-> slot'[s].line,
                  at |-> slot'[s].at, quantity |-> slot'[s].quantity]
        /\ DOMAIN slot'[s] = {"step", "line", "at", "quantity"}
  OBVIOUS
<1>2. ReservationAt(s, slot[s].step, slot[s].line, slot[s].at, slot[s].quantity)'
  BY DEF ReservationAt
<1> QED
  BY <1>1, <1>2 DEF Reservation, OnItsWay
-----------------------------------------------------------------------------
(* Stock transactions: one leaves the others alone *)

\* A transaction that keeps its place, its locks and the rows it has locked is
\* as far on its way as before.
LEMMA OthersUndisturbed ==
  ASSUME NEW r \in Slots, OnItsWay(r), slot'[r] = slot[r],
         \A row \in Rows : r \in holder'[row] <=> r \in holder[row],
         \A w \in Warehouses : r \in holder[w] =>
           /\ onHand'[w] = onHand[w] /\ reserved'[w] = reserved[w]
           /\ committed'.onHand[w] = committed.onHand[w]
           /\ committed'.reserved[w] = committed.reserved[w],
         \A l \in StockLines : r \in holder[l] =>
           held'[l] = held[l] /\ committed'.held[l] = committed.held[l]
  PROVE  OnItsWay(r)'
<1>1. Warehouses \subseteq Rows /\ StockLines \subseteq Rows
  BY DEF Rows
<1>2. CASE AtRest(r)
  BY <1>2 DEF AtRest, OnItsWay
<1>3. ASSUME NEW step, NEW hold, RowsReleased(r, step, hold)
      PROVE  RowsReleased(r, step, hold)'
  BY <1>1, <1>3 DEF RowsReleased
<1>4. ASSUME NEW step, NEW hold, NEW n, LineReleased(r, step, hold, n)
      PROVE  LineReleased(r, step, hold, n)'
  BY <1>1, <1>4 DEF LineReleased
<1> PICK step, hold : step = slot[r].step /\ hold = slot[r].hold
  OBVIOUS
<1>5. CASE Movement(r)
  <2>1. PICK move, total :
          /\ slot[r] = [step |-> step, hold |-> hold, move |-> move, total |-> total]
          /\ MovementAt(r, step, hold, move)
    BY <1>5, MovementIs
  <2>2. GoodsAreThere(r, move) => GoodsAreThere(r, move)'
    BY <1>1, <2>1 DEF GoodsAreThere, MovementAt, MoveLocals, MoveRecords
  <2>3. MovementAt(r, step, hold, move)'
    BY <1>1, <1>3, <1>4, <2>1, <2>2 DEF MovementAt, MoveLocals, MoveRecords
  <2> QED
    BY <2>1, <2>3, IsMovement
<1>6. CASE Release(r)
  <2>1. slot[r] = [step |-> step, hold |-> hold] /\ ReleaseAt(r, step, hold)
    BY <1>6, ReleaseIs
  <2>2. ReleaseAt(r, step, hold)'
    BY <1>1, <1>3, <1>4, <2>1 DEF ReleaseAt
  <2> QED
    BY <2>1, <2>2, IsRelease
<1>7. CASE Reservation(r)
  <2>1. PICK l, w, n :
          /\ slot[r] = [step |-> step, line |-> l, at |-> w, quantity |-> n]
          /\ ReservationAt(r, step, l, w, n)
    BY <1>7, ReservationIs
  <2>2. ReservationAt(r, step, l, w, n)'
    BY <1>1, <2>1 DEF ReservationAt
  <2> QED
    BY <2>1, <2>2, IsReservation
<1> QED
  BY <1>2, <1>5, <1>6, <1>7 DEF OnItsWay

\* A statement of s: it locks one free row at most, writes only what s has
\* locked by then, and commits nothing.
StatementOf(s) ==
  /\ holder' = holder \/ \E row \in Rows : Lockable(s, row) /\ Lock(s, row)
  /\ committed' = committed
  /\ ShelfTypeOK'
  /\ \A w \in Warehouses : s \notin holder'[w] =>
       onHand'[w] = onHand[w] /\ reserved'[w] = reserved[w]
  /\ \A l \in Lines : l \notin StockLines \/ s \notin holder'[l] => held'[l] = held[l]
  /\ slot' = [slot EXCEPT ![s] = slot'[s]]

\* A statement that keeps its own transaction on its way keeps the invariant.
LEMMA StatementInv ==
  ASSUME TransactionsInv, NEW s \in Slots, StatementOf(s), OnItsWay(s)'
  PROVE  TransactionsInv'
<1>1. RowsTyped /\ OneHolder /\ FreeRowsAreCommitted /\ Warehouses \subseteq Rows /\ StockLines \subseteq Rows
  BY DEF TransactionsInv, Rows
<1>2. holder' = holder \/ \E row \in Rows : holder[row] \subseteq {s} /\ holder' = [holder EXCEPT ![row] = {s}]
  BY DEF StatementOf, Lockable, Lock
<1>3. /\ \A row \in Rows, r \in Slots : r # s => (r \in holder'[row] <=> r \in holder[row])
      /\ \A row \in Rows : holder[row] \subseteq holder'[row]
      /\ \A row \in Rows : s \in holder'[row] => holder'[row] = {s}
      /\ holder' \in [Rows -> SUBSET Slots]
  BY <1>1, <1>2 DEF RowsTyped, OneHolder
<1>4. RowsTyped'
  BY <1>1, <1>3 DEF RowsTyped, StatementOf
<1>5. OneHolder'
  BY <1>1, <1>3 DEF RowsTyped, OneHolder
<1>6. FreeRowsAreCommitted'
  BY <1>1, <1>3 DEF FreeRowsAreCommitted, StatementOf, RowsTyped
<1>7. ASSUME NEW r \in Slots, r # s
      PROVE  OnItsWay(r)'
  <2>1. OnItsWay(r) /\ slot'[r] = slot[r]
    BY <1>1, <1>7 DEF TransactionsInv, StatementOf, RowsTyped
  <2>2. \A row \in Rows : r \in holder[row] => s \notin holder'[row]
    BY <1>3, <1>7
  <2> QED
    BY <1>1, <1>3, <1>7, <2>1, <2>2, StockLinesAssumption, OthersUndisturbed DEF StatementOf
<1> QED
  BY <1>4, <1>5, <1>6, <1>7 DEF TransactionsInv

\* A transaction that ends, whether its rows stay or go, leaves its rows as
\* committed and those of the others as they are.
LEMMA EndInv ==
  ASSUME TransactionsInv, NEW s \in Slots,
         slot' = [slot EXCEPT ![s] = Idle], holder' = Unlocked(s),
         \/ RollBack(s)
         \/ committed' = Chosen(s, Written, committed) /\ UNCHANGED <<shelfVars, average>>
  PROVE  TransactionsInv'
<1>1. RowsTyped /\ OneHolder /\ FreeRowsAreCommitted /\ Warehouses \subseteq Rows /\ StockLines \subseteq Rows
  BY DEF TransactionsInv, Rows
<1>2. /\ holder' \in [Rows -> SUBSET Slots]
      /\ \A row \in Rows : holder'[row] = holder[row] \ {s}
  BY <1>1 DEF Unlocked, RowsTyped
<1>3. \A row \in Rows : s \in holder[row] => holder[row] = {s}
  BY <1>1 DEF OneHolder, RowsTyped
<1>4. /\ \A w \in Warehouses :
           IF s \in holder[w]
           THEN /\ onHand'[w] = committed'.onHand[w] /\ reserved'[w] = committed'.reserved[w]
                /\ onHand'[w] \in {onHand[w], committed.onHand[w]}
                /\ reserved'[w] \in {reserved[w], committed.reserved[w]}
           ELSE /\ onHand'[w] = onHand[w] /\ reserved'[w] = reserved[w]
                /\ committed'.onHand[w] = committed.onHand[w]
                /\ committed'.reserved[w] = committed.reserved[w]
      /\ \A l \in Lines :
           IF l \in StockLines /\ s \in holder[l]
           THEN held'[l] = committed'.held[l] /\ held'[l] \in {held[l], committed.held[l]}
           ELSE held'[l] = held[l] /\ committed'.held[l] = committed.held[l]
  <2>1. CASE RollBack(s)
    BY <1>1, <2>1 DEF RollBack, Chosen, Written, RowsTyped, ShelfRows
  <2>2. CASE committed' = Chosen(s, Written, committed) /\ UNCHANGED <<shelfVars, average>>
    BY <1>1, <2>2 DEF Chosen, Written, RowsTyped, ShelfTypeOK, shelfVars
  <2> QED
    BY <2>1, <2>2
<1>5. RowsTyped'
  <2>1. CASE RollBack(s)
    <3>1. ShelfTypeOK'
      BY <1>1, <1>4, <2>1 DEF RollBack, Chosen, RowsTyped, ShelfTypeOK, ShelfRows
    <3> QED
      BY <1>1, <1>2, <2>1, <3>1 DEF RollBack, RowsTyped, ShelfRows
  <2>2. CASE committed' = Chosen(s, Written, committed) /\ UNCHANGED <<shelfVars, average>>
    <3>1. ShelfRows(committed')
      BY <1>1, <2>2 DEF Chosen, Written, RowsTyped, ShelfTypeOK, ShelfRows
    <3>2. ShelfTypeOK'
      BY <1>1, <2>2 DEF RowsTyped, ShelfTypeOK, shelfVars
    <3> QED
      BY <1>1, <1>2, <2>2, <3>1, <3>2 DEF Chosen, RowsTyped, ShelfRows
  <2> QED
    BY <2>1, <2>2
<1>6. OneHolder'
  BY <1>1, <1>2 DEF OneHolder
<1>7. FreeRowsAreCommitted'
  BY <1>1, <1>2, <1>3, <1>4 DEF FreeRowsAreCommitted
<1>8. ASSUME NEW r \in Slots
      PROVE  OnItsWay(r)'
  <2>1. CASE r = s
    BY <1>1, <1>2, <2>1 DEF OnItsWay, AtRest, StockSteps, Idle, RowsTyped
  <2>2. CASE r # s
    <3>1. OnItsWay(r) /\ slot'[r] = slot[r]
      BY <2>2 DEF TransactionsInv
    <3>2. \A row \in Rows : r \in holder[row] => s \notin holder[row]
      BY <1>3, <2>2
    <3> QED
      BY <1>1, <1>2, <1>4, <2>2, <3>1, <3>2, StockLinesAssumption, OthersUndisturbed
  <2> QED
    BY <2>1, <2>2
<1> QED
  BY <1>5, <1>6, <1>7, <1>8 DEF TransactionsInv

-----------------------------------------------------------------------------
(* Stock transactions: the invariant, action by action *)

\* No transaction has begun: the rows are as committed.
LEMMA InitInv == RequestsInit /\ ShelfInit /\ StockInit => TransactionsInv
<1> SUFFICES ASSUME RequestsInit, ShelfInit, StockInit PROVE TransactionsInv
  OBVIOUS
<1>1. RowsTyped
  BY DEF RequestsInit, ShelfInit, StockInit, Written, RowsTyped, ShelfTypeOK, ShelfRows, Hold
<1>2. OneHolder /\ FreeRowsAreCommitted
  BY DEF StockInit, Written, OneHolder, FreeRowsAreCommitted
<1>3. \A s \in Slots : AtRest(s)
  BY DEF RequestsInit, StockInit, AtRest, StockSteps, Idle
<1> QED
  BY <1>1, <1>2, <1>3 DEF TransactionsInv, OnItsWay

\* A slot that takes a request holds nothing.
LEMMA FreeIsAtRest ==
  ASSUME TransactionsInv, NEW s \in Slots, Free(s)
  PROVE  AtRest(s)
BY DEF TransactionsInv, OnItsWay, Free, At,
       Movement, MovementAt, MoveLocals, MoveSteps, Release, ReleaseAt, ReleaseLocals, Reservation, ReservationAt

\* A request that has only been taken has changed nothing.
LEMMA TakenIsAStatement ==
  ASSUME TransactionsInv, NEW s \in Slots, UNCHANGED stockVars,
         NEW x, slot' = [slot EXCEPT ![s] = x]
  PROVE  StatementOf(s) /\ slot'[s] = x
BY DEF TransactionsInv, RowsTyped, StatementOf, stockVars, shelfVars, ShelfTypeOK

\* A movement begins with nothing locked.
LEMMA BeginMoveInv ==
  ASSUME TransactionsInv, NEW s \in Slots, Free(s), NEW request, NEW begins,
         NEW line \in HoldRecords, NEW move \in MoveRecords,
         BeginMove(s, request, begins, line, move),
         line.next = "stock.check", line.at = NoWarehouse,
         move.delta \in Quantities \/ -move.delta \in Quantities,
         move.to # NoWarehouse => move.to # move.from /\ move.delta < 0,
         \/ /\ begins = "stock.release" /\ line.line \in StockLines
            /\ line.quantity = -move.delta /\ move.to = NoWarehouse /\ move.delta < 0
         \/ begins = "stock.check" /\ move.delta < 0
         \/ begins = "stock.total" /\ move.delta > 0
  PROVE  TransactionsInv'
<1> DEFINE x == [step |-> begins, hold |-> line, move |-> move, total |-> 0]
<1>1. StatementOf(s) /\ slot'[s] = x /\ UNCHANGED stockVars
  BY TakenIsAStatement DEF BeginMove, Begin
<1>2. \A row \in Rows : s \notin holder'[row]
  BY <1>1, FreeIsAtRest DEF AtRest, stockVars
<1>3. MovementAt(s, begins, line, move)'
  <2>1. ~Released(line)
    BY DEF Released
  <2>2. \A w \in Warehouses : s \notin holder'[w]
    BY <1>2 DEF Rows
  <2>3. RowsReleased(s, begins, line)'
    BY <1>2 DEF RowsReleased, Rows
  <2>4. MoveLocals(begins, line, move)
    BY <2>1, MaxQuantityAssumption DEF MoveLocals, MoveSteps, MoveRecords, Quantities
  <2> QED
    BY <2>1, <2>2, <2>3, <2>4, MaxQuantityAssumption DEF MovementAt, Quantities, MoveRecords
<1> QED
  BY <1>1, <1>3, StatementInv, IsMovement

\* Every movement of the service begins as one that takes goods out, brings
\* some in, or moves them from one shelf to another.
LEMMA StockRequestInv ==
  ASSUME TransactionsInv, NEW s \in Slots, Free(s), StockRequest(s)
  PROVE  TransactionsInv'
<1> USE DEF Move, MoveRecords, NoLine, HoldRecords
<1>1. PICK w \in Warehouses, n \in Quantities :
        \/ \E l \in StockLines : BeginShip(s, l, w, n) \/ BeginReserve(s, l, w, n)
        \/ BeginRemove(s, w, n)
        \/ \E cost \in UnitCosts : BeginReturn(s, w, n, cost)
        \/ \E cost \in DeliveryCosts : BeginReceive(s, w, n, cost)
        \/ \E v \in Warehouses : BeginTransfer(s, w, v, n)
  BY DEF StockRequest
<1>2. n \in Nat /\ n > 0 /\ -n \in Int /\ -n < 0 /\ -(-n) = n
  BY MaxQuantityAssumption DEF Quantities
<1>3. NoLine \in HoldRecords /\ NoLine.next = "stock.check" /\ NoLine.at = NoWarehouse
  OBVIOUS
<1>4. CASE \E l \in StockLines : BeginShip(s, l, w, n)
  <2>1. PICK l \in StockLines : BeginShip(s, l, w, n)
    BY <1>4
  <2> DEFINE line == [NoLine EXCEPT !.line = l, !.quantity = n]
             move == Move(w, NoWarehouse, -n, NamesNoCost)
  <2>2. line \in HoldRecords /\ line.line = l /\ line.quantity = n
        /\ line.next = "stock.check" /\ line.at = NoWarehouse
    BY <1>2
  <2>3. move \in MoveRecords /\ move.delta = -n /\ move.to = NoWarehouse
    BY <1>2
  <2>4. BeginMove(s, "stock.ship", "stock.release", line, move)
    BY <2>1 DEF BeginShip
  <2> HIDE DEF line, move
  <2> QED
    BY <1>2, <2>2, <2>3, <2>4, BeginMoveInv
<1>5. CASE BeginRemove(s, w, n) \/ \E cost \in UnitCosts : BeginReturn(s, w, n, cost)
  <2>1. PICK request \in {"stock.remove", "stock.return"}, cost \in UnitCosts \cup {NamesNoCost} :
          BeginMove(s, request, "stock.check", NoLine, Move(w, NoWarehouse, -n, cost))
    BY <1>5 DEF BeginRemove, BeginReturn
  <2> DEFINE move == Move(w, NoWarehouse, -n, cost)
  <2>2. move \in MoveRecords /\ move.delta = -n /\ move.to = NoWarehouse
    BY <1>2
  <2> HIDE DEF move
  <2> QED
    BY <1>2, <1>3, <2>1, <2>2, BeginMoveInv DEF move
<1>6. CASE \E cost \in DeliveryCosts : BeginReceive(s, w, n, cost)
  <2>1. PICK cost \in UnitCosts \cup {NamesNoCost} :
          BeginMove(s, "stock.receive", "stock.total", NoLine, Move(w, NoWarehouse, n, cost))
    BY <1>6 DEF BeginReceive, DeliveryCosts
  <2> DEFINE move == Move(w, NoWarehouse, n, cost)
  <2>2. move \in MoveRecords /\ move.delta = n /\ move.to = NoWarehouse
    BY <1>2
  <2> HIDE DEF move
  <2> QED
    BY <1>2, <1>3, <2>1, <2>2, BeginMoveInv DEF move
<1>7. CASE \E v \in Warehouses : BeginTransfer(s, w, v, n)
  <2>1. PICK v \in Warehouses : BeginTransfer(s, w, v, n)
    BY <1>7
  <2> DEFINE move == Move(w, v, -n, NamesNoCost)
  <2>2. move \in MoveRecords /\ move.delta = -n /\ move.to = v /\ move.from = w
    BY <1>2
  <2>3. v # w /\ BeginMove(s, "stock.transfer", "stock.check", NoLine, move)
    BY <2>1 DEF BeginTransfer
  <2> HIDE DEF move
  <2> QED
    BY <1>2, <1>3, <2>2, <2>3, BeginMoveInv
<1>8. CASE \E l \in StockLines : BeginReserve(s, l, w, n)
  <2>1. PICK l \in StockLines : BeginReserve(s, l, w, n)
    BY <1>8
  <2> DEFINE x == [step |-> "stock.reserve", line |-> l, at |-> w, quantity |-> n]
  <2>2. StatementOf(s) /\ slot'[s] = x /\ UNCHANGED stockVars
    BY <2>1, TakenIsAStatement DEF BeginReserve, Begin
  <2>3. \A row \in Rows : s \notin holder'[row]
    BY <2>2, FreeIsAtRest DEF AtRest, stockVars
  <2>4. ReservationAt(s, "stock.reserve", l, w, n)'
    BY <2>3 DEF ReservationAt, Rows
  <2> QED
    BY <2>2, <2>4, StatementInv, IsReservation
<1> QED
  BY <1>1, <1>4, <1>5, <1>6, <1>7, <1>8

\* So does the release of a line.
LEMMA BeginReleaseInv ==
  ASSUME TransactionsInv, NEW s \in Slots, Free(s), NEW l \in StockLines, BeginRelease(s, l)
  PROVE  TransactionsInv'
<1> DEFINE hold == [NoLine EXCEPT !.line = l, !.quantity = MaxQuantity, !.next = "stock.commit"]
<1>1. StatementOf(s) /\ slot'[s] = [step |-> "stock.release", hold |-> hold] /\ UNCHANGED stockVars
  BY TakenIsAStatement DEF BeginRelease, Begin
<1>2. \A row \in Rows : s \notin holder'[row]
  BY <1>1, FreeIsAtRest DEF AtRest, stockVars
<1>3. hold \in HoldRecords /\ hold.line = l /\ hold.quantity = MaxQuantity
      /\ hold.next = "stock.commit" /\ hold.at = NoWarehouse
  BY MaxQuantityAssumption DEF HoldRecords, NoLine
<1> HIDE DEF hold
<1>4. ReleaseAt(s, "stock.release", hold)'
  BY <1>2, <1>3 DEF ReleaseAt, ReleaseLocals, Released, RowsReleased, Rows
<1> QED
  BY <1>1, <1>4, StatementInv, IsRelease

\* The step of a handler tells which of the three it is.
LEMMA KindOf ==
  ASSUME TransactionsInv, NEW s \in Slots
  PROVE  /\ slot[s].step \in {"stock.release", "stock.giveBack"} => Movement(s) \/ Release(s)
         /\ slot[s].step \in {"stock.check", "stock.total", "stock.cost", "stock.adjust", "stock.arrive"}
              => Movement(s)
         /\ slot[s].step \in {"stock.reserve", "stock.hold"} => Reservation(s)
         /\ slot[s].step = "stock.commit" => Movement(s) \/ Release(s) \/ Reservation(s)
<1>1. Movement(s) \/ Release(s) \/ Reservation(s) \/ slot[s].step \notin StockSteps
  BY DEF TransactionsInv, OnItsWay, AtRest
<1>2. Release(s) => slot[s].step \in {"stock.release", "stock.giveBack", "stock.commit"}
  BY DEF Release, ReleaseAt, ReleaseLocals
<1>3. Reservation(s) => slot[s].step \in {"stock.reserve", "stock.hold", "stock.commit"}
  BY DEF Reservation, ReservationAt
<1>4. Movement(s) => slot[s].step \in MoveSteps
  BY DEF Movement, MovementAt, MoveLocals
<1> QED
  BY <1>1, <1>2, <1>3, <1>4 DEF MoveSteps, StockSteps

\* What a lock tells: the row is as committed, unless s has written it.
LEMMA LockedRow ==
  ASSUME TransactionsInv, NEW s \in Slots, NEW row \in Rows, Lockable(s, row)
  PROVE  /\ s \notin holder[row] => holder[row] = {}
         /\ Lock(s, row) =>
              /\ holder'[row] = {s}
              /\ \A other \in Rows : other # row => holder'[other] = holder[other]
BY DEF TransactionsInv, RowsTyped, Lockable, Lock

\* The release of a line finds its row as committed, or finds none.
LEMMA ReleaseLineInv ==
  ASSUME TransactionsInv, NEW s \in Slots, ReleaseLine(s)
  PROVE  TransactionsInv'
<1>1. RowsTyped /\ FreeRowsAreCommitted /\ Warehouses \subseteq Rows /\ StockLines \subseteq Rows
  BY DEF TransactionsInv, Rows
<1>2. slot[s].step = "stock.release" /\ (Movement(s) \/ Release(s))
  BY KindOf DEF ReleaseLine, At
<1>3. PICK hold, l, n, next :
        hold = slot[s].hold /\ l = hold.line /\ n = hold.quantity /\ next = hold.next
  OBVIOUS
<1>4. /\ l \in StockLines /\ n \in Nat /\ next \in {"stock.check", "stock.commit"}
      /\ ~Released(hold) /\ hold \in HoldRecords
      /\ \A w \in Warehouses : s \notin holder[w]
      /\ \A k \in StockLines : s \notin holder[k]
  BY <1>2, <1>3 DEF Movement, MovementAt, MoveLocals, Release, ReleaseAt, ReleaseLocals,
                    RowsReleased, HoldRecords
<1>5. holder[l] = {} /\ held[l] = committed.held[l] /\ held[l] \in Hold /\ l \in Lines
  BY <1>1, <1>3, <1>4, LockedRow, StockLinesAssumption
     DEF ReleaseLine, FreeRowsAreCommitted, RowsTyped, ShelfTypeOK
<1>6. CASE held[l] = NoHold
  <2>1. slot'[s] = [slot[s] EXCEPT !.step = next] /\ UNCHANGED <<onHand, reserved, held, holder, committed>>
    BY <1>1, <1>3, <1>6 DEF ReleaseLine, GoTo, Continue, RowsTyped
  <2>2. StatementOf(s)
    BY <1>1, <1>3, <1>6, <2>1 DEF ReleaseLine, GoTo, Continue, StatementOf, RowsTyped, ShelfTypeOK
  <2>3. RowsReleased(s, next, hold)'
    BY <1>4, <2>1 DEF RowsReleased
  <2>4. CASE Movement(s)
    <3>1. PICK move, total :
            /\ slot[s] = [step |-> "stock.release", hold |-> hold, move |-> move, total |-> total]
            /\ MovementAt(s, "stock.release", hold, move)
      BY <1>2, <1>3, <2>4, MovementIs
    <3>2. next = "stock.check"
      BY <1>3, <3>1 DEF MovementAt, MoveLocals
    <3>3. slot'[s] = [step |-> "stock.check", hold |-> hold, move |-> move, total |-> total]
      BY <2>1, <3>1, <3>2
    <3>4. MovementAt(s, "stock.check", hold, move)'
      BY <1>4, <2>1, <2>3, <3>1, <3>2 DEF MovementAt, MoveLocals, MoveSteps
    <3> QED
      BY <2>2, <3>3, <3>4, StatementInv, IsMovement
  <2>5. CASE Release(s)
    <3>1. /\ slot[s] = [step |-> "stock.release", hold |-> hold]
          /\ ReleaseAt(s, "stock.release", hold)
      BY <1>2, <1>3, <2>5, ReleaseIs
    <3>2. next = "stock.commit"
      BY <1>3, <3>1 DEF ReleaseAt, ReleaseLocals
    <3>3. slot'[s] = [step |-> "stock.commit", hold |-> hold]
      BY <2>1, <3>1, <3>2
    <3>4. ReleaseAt(s, "stock.commit", hold)'
      BY <1>4, <2>1, <2>3, <3>1, <3>2 DEF ReleaseAt, ReleaseLocals
    <3> QED
      BY <2>2, <3>3, <3>4, StatementInv, IsRelease
  <2> QED
    BY <1>2, <2>4, <2>5
<1>7. CASE held[l] # NoHold
  <2>1. PICK new : new = [hold EXCEPT !.quantity = GivenBack(l, n), !.at = held[l].at]
    OBVIOUS
  <2>2. new \in HoldRecords /\ new.line = l /\ new.at = held[l].at /\ new.at \in Warehouses
        /\ new.quantity = GivenBack(l, n) /\ new.next = next
    <3>1. held[l].at \in Warehouses /\ held[l].quantity \in Nat
      BY <1>5, <1>7, MaxQuantityAssumption DEF Hold, NoHold, Quantities
    <3>2. GivenBack(l, n) \in Nat
      BY <1>4, <3>1 DEF GivenBack, Lesser
    <3>3. PICK q : q = GivenBack(l, n)
      OBVIOUS
    <3> QED
      BY <1>3, <1>4, <2>1, <3>1, <3>2, <3>3 DEF HoldRecords
  <2>3. /\ held' = [held EXCEPT ![l] = HoldAfter(l, n)] /\ Lock(s, l)
        /\ slot' = [slot EXCEPT ![s] = [slot[s] EXCEPT !.step = "stock.giveBack",
                      !.hold.quantity = GivenBack(l, n), !.hold.at = held[l].at]]
        /\ UNCHANGED <<onHand, reserved, committed>>
    BY <1>3, <1>7 DEF ReleaseLine, Continue
  <2>4. slot'[s] = [slot[s] EXCEPT !.step = "stock.giveBack", !.hold = new]
    BY <1>1, <1>2, <1>3, <2>1, <2>3 DEF RowsTyped, Movement, Release
  <2>5. holder'[l] = {s} /\ \A row \in Rows : row # l => holder'[row] = holder[row]
    BY <1>1, <1>3, <1>4, <2>3, LockedRow DEF ReleaseLine
  <2>6. /\ HoldAfter(l, n) \in Hold
        /\ HoldAfter(l, n) = IF held[l].quantity > n
             THEN [at |-> held[l].at, quantity |-> held[l].quantity - n] ELSE NoHold
    BY <1>4, <1>5, <1>7, MaxQuantityAssumption DEF HoldAfter, Hold, NoHold, Quantities
  <2>7. StatementOf(s)
    BY <1>1, <1>3, <1>4, <1>5, <2>3, <2>4, <2>5, <2>6
       DEF ReleaseLine, StatementOf, RowsTyped, ShelfTypeOK
  <2>8. LineReleased(s, "stock.giveBack", new, n)'
    BY <1>1, <1>4, <1>5, <1>7, <2>2, <2>3, <2>5, <2>6
       DEF LineReleased, GivenBack, RowsTyped, ShelfTypeOK
  <2>9. \A w \in Warehouses : s \notin holder'[w]
    BY <1>1, <1>4, <2>5, RowsAssumption
  <2>10. RowsReleased(s, "stock.giveBack", new)' /\ Released(new)
    BY <1>1, <1>4, <2>2, <2>5, <2>9, NoWarehouseAssumption DEF RowsReleased, Released
  <2>11. CASE Movement(s)
    <3>1. PICK move, total :
            /\ slot[s] = [step |-> "stock.release", hold |-> hold, move |-> move, total |-> total]
            /\ MovementAt(s, "stock.release", hold, move)
      BY <1>2, <1>3, <2>11, MovementIs
    <3>2. slot'[s] = [step |-> "stock.giveBack", hold |-> new, move |-> move, total |-> total]
      <4>1. PICK q : q = [slot[s] EXCEPT !.step = "stock.giveBack"]
        OBVIOUS
      <4>2. q = [step |-> "stock.giveBack", hold |-> hold, move |-> move, total |-> total]
        BY <3>1, <4>1
      <4>3. slot'[s] = [q EXCEPT !.hold = new]
        BY <2>4, <4>1
      <4> QED
        BY <4>2, <4>3
    <3>3. MovementAt(s, "stock.giveBack", new, move)'
      BY <1>3, <2>2, <2>8, <2>9, <2>10, <3>1 DEF MovementAt, MoveLocals, MoveSteps
    <3> QED
      BY <2>7, <3>2, <3>3, StatementInv, IsMovement
  <2>12. CASE Release(s)
    <3>1. /\ slot[s] = [step |-> "stock.release", hold |-> hold]
          /\ ReleaseAt(s, "stock.release", hold)
      BY <1>2, <1>3, <2>12, ReleaseIs
    <3>2. slot'[s] = [step |-> "stock.giveBack", hold |-> new]
      <4>1. PICK q : q = [slot[s] EXCEPT !.step = "stock.giveBack"]
        OBVIOUS
      <4>2. q = [step |-> "stock.giveBack", hold |-> hold]
        BY <3>1, <4>1
      <4>3. slot'[s] = [q EXCEPT !.hold = new]
        BY <2>4, <4>1
      <4> QED
        BY <4>2, <4>3
    <3>3. ReleaseAt(s, "stock.giveBack", new)'
      BY <1>3, <2>2, <2>8, <2>9, <2>10, <3>1 DEF ReleaseAt, ReleaseLocals
    <3> QED
      BY <2>7, <3>2, <3>3, StatementInv, IsRelease
  <2> QED
    BY <1>2, <2>11, <2>12
<1> QED
  BY <1>6, <1>7

\* Giving back goes to a level as committed: a release holds no other.
LEMMA GiveBackInv ==
  ASSUME TransactionsInv, NEW s \in Slots, GiveBack(s)
  PROVE  TransactionsInv'
<1>1. RowsTyped /\ FreeRowsAreCommitted /\ Warehouses \subseteq Rows /\ StockLines \subseteq Rows
  BY DEF TransactionsInv, Rows
<1>2. slot[s].step = "stock.giveBack" /\ (Movement(s) \/ Release(s))
  BY KindOf DEF GiveBack, At
<1>3. PICK hold, w, n, next :
        hold = slot[s].hold /\ w = hold.at /\ n = hold.quantity /\ next = hold.next
  OBVIOUS
<1>4. /\ w \in Warehouses /\ n \in Nat /\ next \in {"stock.check", "stock.commit"}
      /\ Released(hold) /\ hold \in HoldRecords
      /\ \A v \in Warehouses : s \notin holder[v]
      /\ \A k \in StockLines : s \in holder[k] => k = hold.line
  BY <1>2, <1>3 DEF Movement, MovementAt, MoveLocals, Release, ReleaseAt, ReleaseLocals,
                    RowsReleased, HoldRecords, Released
<1>5. holder[w] = {} /\ reserved[w] = committed.reserved[w] /\ onHand[w] = committed.onHand[w]
      /\ reserved[w] \in Nat
  BY <1>1, <1>3, <1>4, LockedRow DEF GiveBack, FreeRowsAreCommitted, RowsTyped, ShelfTypeOK
<1>6. /\ reserved' = [reserved EXCEPT ![w] = AtLeastZero(@ - n)] /\ Lock(s, w)
      /\ slot'[s] = [slot[s] EXCEPT !.step = next]
      /\ UNCHANGED <<onHand, held, committed>>
  BY <1>1, <1>3 DEF GiveBack, GoTo, Continue, RowsTyped
<1>7. holder'[w] = {s} /\ \A row \in Rows : row # w => holder'[row] = holder[row]
  BY <1>1, <1>3, <1>4, <1>6, LockedRow DEF GiveBack
<1>8. AtLeastZero(reserved[w] - n) \in Nat
  BY <1>4, <1>5 DEF AtLeastZero
<1>9. StatementOf(s)
  BY <1>1, <1>3, <1>4, <1>6, <1>7, <1>8
     DEF GiveBack, GoTo, Continue, StatementOf, RowsTyped, ShelfTypeOK
<1>10. /\ s \in holder'[w] /\ onHand' = onHand /\ committed' = committed
       /\ \A v \in Warehouses : s \in holder'[v] => v = w
       /\ \A k \in StockLines : holder'[k] = holder[k]
       /\ reserved'[w] = AtLeastZero(committed.reserved[w] - n)
  BY <1>1, <1>4, <1>5, <1>6, <1>7, RowsAssumption DEF RowsTyped, ShelfTypeOK
<1>11. RowsReleased(s, next, hold)'
  BY <1>3, <1>4, <1>10 DEF RowsReleased
<1>12. ASSUME NEW m, LineReleased(s, "stock.giveBack", hold, m)
       PROVE  LineReleased(s, next, hold, m)'
  BY <1>3, <1>6, <1>10, <1>12 DEF LineReleased
<1>13. CASE Movement(s)
  <2>1. PICK move, total :
          /\ slot[s] = [step |-> "stock.giveBack", hold |-> hold, move |-> move, total |-> total]
          /\ MovementAt(s, "stock.giveBack", hold, move)
    BY <1>2, <1>3, <1>13, MovementIs
  <2>2. next = "stock.check"
    BY <1>3, <2>1 DEF MovementAt, MoveLocals
  <2>3. slot'[s] = [step |-> "stock.check", hold |-> hold, move |-> move, total |-> total]
    BY <1>6, <2>1, <2>2
  <2>4. \A v \in Warehouses : s \in holder'[v] =>
          onHand'[v] = committed'.onHand[v] + Moved("stock.check", move, v)
    BY <1>1, <1>5, <1>10 DEF Moved, RowsTyped, ShelfTypeOK
  <2>5. MovementAt(s, "stock.check", hold, move)'
    BY <1>4, <1>11, <1>12, <2>1, <2>2, <2>4 DEF MovementAt, MoveLocals, MoveSteps
  <2> QED
    BY <1>9, <2>3, <2>5, StatementInv, IsMovement
<1>14. CASE Release(s)
  <2>1. /\ slot[s] = [step |-> "stock.giveBack", hold |-> hold]
        /\ ReleaseAt(s, "stock.giveBack", hold)
    BY <1>2, <1>3, <1>14, ReleaseIs
  <2>2. next = "stock.commit"
    BY <1>3, <2>1 DEF ReleaseAt, ReleaseLocals
  <2>3. slot'[s] = [step |-> "stock.commit", hold |-> hold]
    BY <1>6, <2>1, <2>2
  <2>4. ReleaseAt(s, "stock.commit", hold)'
    BY <1>4, <1>5, <1>10, <1>11, <1>12, <2>1, <2>2 DEF ReleaseAt, ReleaseLocals
  <2> QED
    BY <1>9, <2>3, <2>4, StatementInv, IsRelease
<1> QED
  BY <1>2, <1>13, <1>14

\* A movement out goes on only when the level it has locked can cover it.
LEMMA CheckInv ==
  ASSUME TransactionsInv, NEW s \in Slots, Check(s), ~Refuse(s)
  PROVE  TransactionsInv'
<1>1. RowsTyped /\ FreeRowsAreCommitted /\ Warehouses \subseteq Rows /\ StockLines \subseteq Rows
  BY DEF TransactionsInv, Rows
<1>2. slot[s].step = "stock.check" /\ Movement(s)
  BY KindOf DEF Check, At
<1>3. PICK hold : hold = slot[s].hold
  OBVIOUS
<1>4. PICK move, total :
        /\ slot[s] = [step |-> "stock.check", hold |-> hold, move |-> move, total |-> total]
        /\ MovementAt(s, "stock.check", hold, move)
  BY <1>2, <1>3, MovementIs
<1>5. PICK w : w = move.from
  OBVIOUS
<1>6. w \in Warehouses /\ move.delta \in Int /\ move.delta < 0
  BY <1>4, <1>5 DEF MovementAt, MoveLocals, MoveRecords
<1>7. /\ Lockable(s, w) /\ Lock(s, w) /\ Available(w) + move.delta >= 0
      /\ slot'[s] = [slot[s] EXCEPT !.step = "stock.total"]
      /\ UNCHANGED <<onHand, reserved, held, committed>>
  BY <1>1, <1>4, <1>5 DEF Check, GoTo, Continue, RowsTyped, shelfVars
<1>8. holder'[w] = {s} /\ \A row \in Rows : row # w => holder'[row] = holder[row]
  BY <1>1, <1>6, <1>7, LockedRow
<1>9. StatementOf(s)
  BY <1>1, <1>4, <1>5, <1>6, <1>7, <1>8
     DEF Check, GoTo, Continue, StatementOf, RowsTyped, ShelfTypeOK, shelfVars
<1>10. /\ \A v \in Warehouses : v # w => holder'[v] = holder[v]
       /\ \A k \in StockLines : holder'[k] = holder[k]
  BY <1>1, <1>6, <1>8, RowsAssumption
<1>11. s \notin holder[w] => /\ onHand[w] = committed.onHand[w]
                            /\ reserved[w] = committed.reserved[w] /\ ~(Released(hold) /\ w = hold.at)
  <2>1. s \notin holder[w] => holder[w] = {}
    BY <1>1, <1>6, <1>7, LockedRow
  <2>2. Released(hold) => s \in holder[hold.at]
    BY <1>4 DEF MovementAt, LineReleased
  <2> QED
    BY <1>1, <1>6, <2>1, <2>2 DEF FreeRowsAreCommitted
<1>12. \A v \in Warehouses : Moved("stock.check", move, v) = 0 /\ Moved("stock.total", move, v) = 0
  BY DEF Moved
<1>13. RowsReleased(s, "stock.total", hold)'
  BY <1>4, <1>6, <1>7, <1>8, <1>10, <1>11, NoWarehouseAssumption
     DEF MovementAt, MoveLocals, RowsReleased, Released
<1>14. Released(hold) => LineReleased(s, "stock.total", hold, -move.delta)'
  BY <1>4, <1>7, <1>8, <1>10 DEF MovementAt, LineReleased
<1>15. \A v \in Warehouses : s \in holder'[v] =>
         onHand'[v] = committed'.onHand[v] + Moved("stock.total", move, v)
  BY <1>1, <1>4, <1>6, <1>7, <1>10, <1>11, <1>12 DEF MovementAt, RowsTyped, ShelfRows
<1>16. GoodsAreThere(s, move)'
  <2>1. onHand[w] = committed.onHand[w]
    BY <1>1, <1>4, <1>6, <1>11, <1>12 DEF MovementAt, RowsTyped, ShelfRows
  <2> QED
    BY <1>5, <1>7, <1>8, <2>1 DEF GoodsAreThere, Available
<1>17. MovementAt(s, "stock.total", hold, move)'
  BY <1>4, <1>13, <1>14, <1>15, <1>16 DEF MovementAt, MoveLocals, MoveSteps
<1>18. slot'[s] = [step |-> "stock.total", hold |-> hold, move |-> move, total |-> total]
  BY <1>4, <1>7
<1> QED
  BY <1>9, <1>17, <1>18, StatementInv, IsMovement

\* Summing what is on hand touches no row.
LEMMA SumOnHandInv ==
  ASSUME TransactionsInv, NEW s \in Slots, SumOnHand(s)
  PROVE  TransactionsInv'
<1>1. RowsTyped
  BY DEF TransactionsInv
<1>2. slot[s].step = "stock.total" /\ Movement(s)
  BY KindOf DEF SumOnHand, At
<1>3. PICK hold : hold = slot[s].hold
  OBVIOUS
<1>4. PICK move, total :
        /\ slot[s] = [step |-> "stock.total", hold |-> hold, move |-> move, total |-> total]
        /\ MovementAt(s, "stock.total", hold, move)
  BY <1>2, <1>3, MovementIs
<1>5. PICK sum : sum = TotalOf(committed.onHand)
  OBVIOUS
<1>6. slot'[s] = [slot[s] EXCEPT !.step = "stock.cost", !.total = sum] /\ UNCHANGED stockVars
  BY <1>1, <1>5 DEF SumOnHand, Continue, RowsTyped
<1>7. StatementOf(s)
  BY <1>1, <1>6 DEF SumOnHand, Continue, StatementOf, RowsTyped, ShelfTypeOK, stockVars, shelfVars
<1>8. slot'[s] = [step |-> "stock.cost", hold |-> hold, move |-> move, total |-> sum]
  <2>1. PICK q : q = [slot[s] EXCEPT !.step = "stock.cost"]
    OBVIOUS
  <2>2. q = [step |-> "stock.cost", hold |-> hold, move |-> move, total |-> total]
    BY <1>4, <2>1
  <2>3. slot'[s] = [q EXCEPT !.total = sum]
    BY <1>6, <2>1
  <2> QED
    BY <2>2, <2>3
<1>9. MovementAt(s, "stock.cost", hold, move)'
  BY <1>4, <1>6 DEF MovementAt, MoveLocals, MoveSteps, LineReleased, RowsReleased, GoodsAreThere,
                    Moved, stockVars, shelfVars
<1> QED
  BY <1>7, <1>8, <1>9, StatementInv, IsMovement

\* Moving the average locks the product, which no level depends on.
LEMMA MoveAverageInv ==
  ASSUME TransactionsInv, NEW s \in Slots, MoveAverage(s)
  PROVE  TransactionsInv'
<1>1. RowsTyped /\ Warehouses \subseteq Rows /\ StockLines \subseteq Rows /\ Product \in Rows
  BY DEF TransactionsInv, Rows
<1>2. slot[s].step = "stock.cost" /\ Movement(s)
  BY KindOf DEF MoveAverage, At
<1>3. PICK hold : hold = slot[s].hold
  OBVIOUS
<1>4. PICK move, total :
        /\ slot[s] = [step |-> "stock.cost", hold |-> hold, move |-> move, total |-> total]
        /\ MovementAt(s, "stock.cost", hold, move)
  BY <1>2, <1>3, MovementIs
<1>5. /\ slot'[s] = [slot[s] EXCEPT !.step = "stock.adjust"]
      /\ UNCHANGED <<onHand, reserved, held, committed>>
      /\ Lockable(s, Product) /\ Lock(s, Product)
  BY <1>1 DEF MoveAverage, GoTo, Continue, RowsTyped, shelfVars
<1>6. /\ \A w \in Warehouses : holder'[w] = holder[w]
      /\ \A l \in StockLines : holder'[l] = holder[l]
  BY <1>1, <1>5, LockedRow, RowsAssumption
<1>7. StatementOf(s)
  BY <1>1, <1>5 DEF MoveAverage, GoTo, Continue, StatementOf, RowsTyped, ShelfTypeOK
<1>8. slot'[s] = [step |-> "stock.adjust", hold |-> hold, move |-> move, total |-> total]
  BY <1>4, <1>5
<1>9. hold.at \in Warehouses \/ hold.at = NoWarehouse
  BY <1>4 DEF MovementAt, MoveLocals, HoldRecords
<1>10. Released(hold) => LineReleased(s, "stock.adjust", hold, -move.delta)'
  BY <1>4, <1>5, <1>6 DEF MovementAt, LineReleased
<1>11. RowsReleased(s, "stock.adjust", hold)'
  BY <1>4, <1>5, <1>6 DEF MovementAt, RowsReleased
<1>12. MovementAt(s, "stock.adjust", hold, move)'
  BY <1>4, <1>5, <1>6, <1>10, <1>11
     DEF MovementAt, MoveLocals, MoveSteps, GoodsAreThere, Moved, MoveRecords
<1> QED
  BY <1>7, <1>8, <1>12, StatementInv, IsMovement

\* A level that is about to be written is as committed, but for a release of s.
LEMMA LevelBeforeMove ==
  ASSUME TransactionsInv, NEW s \in Slots, NEW hold, NEW move, NEW step, NEW w \in Warehouses,
         MovementAt(s, step, hold, move), step \in {"stock.adjust", "stock.arrive"},
         w = move.from => step = "stock.adjust", Lockable(s, w)
  PROVE  /\ onHand[w] = committed.onHand[w]
         /\ reserved[w] = IF w = hold.at THEN AtLeastZero(committed.reserved[w] - hold.quantity)
                                         ELSE committed.reserved[w]
<1>1. RowsTyped /\ FreeRowsAreCommitted /\ w \in Rows
  BY DEF TransactionsInv, Rows
<1>2. CASE s \in holder[w]
  BY <1>1, <1>2 DEF MovementAt, Moved, RowsReleased, RowsTyped, ShelfRows
<1>3. CASE s \notin holder[w]
  <2>1. holder[w] = {}
    BY <1>1, <1>3, LockedRow
  <2>2. w # hold.at
    BY <1>3, NoWarehouseAssumption DEF MovementAt, LineReleased, Released
  <2> QED
    BY <1>1, <2>1, <2>2 DEF FreeRowsAreCommitted
<1> QED
  BY <1>2, <1>3

\* The level a movement is about takes what it moves.
LEMMA AdjustLevelInv ==
  ASSUME TransactionsInv, NEW s \in Slots, AdjustLevel(s)
  PROVE  TransactionsInv'
<1>1. RowsTyped /\ Warehouses \subseteq Rows /\ StockLines \subseteq Rows
  BY DEF TransactionsInv, Rows
<1>2. slot[s].step = "stock.adjust" /\ Movement(s)
  BY KindOf DEF AdjustLevel, At
<1>3. PICK hold : hold = slot[s].hold
  OBVIOUS
<1>4. PICK move, total :
        /\ slot[s] = [step |-> "stock.adjust", hold |-> hold, move |-> move, total |-> total]
        /\ MovementAt(s, "stock.adjust", hold, move)
  BY <1>2, <1>3, MovementIs
<1>5. PICK w, next : w = move.from /\ next = IF move.to = NoWarehouse THEN "stock.commit" ELSE "stock.arrive"
  OBVIOUS
<1>6. w \in Warehouses /\ move.delta \in Int /\ move \in MoveRecords
  BY <1>4, <1>5 DEF MovementAt, MoveLocals, MoveRecords
<1>7. /\ Lockable(s, w) /\ Lock(s, w)
      /\ onHand' = [onHand EXCEPT ![w] = @ + move.delta]
      /\ slot'[s] = [slot[s] EXCEPT !.step = next]
      /\ UNCHANGED <<reserved, held, committed>>
  <2>1. slot[s].move = move
    BY <1>4
  <2>2. slot' = [slot EXCEPT ![s] = [slot[s] EXCEPT !.step = next]]
    BY <1>5, <2>1 DEF AdjustLevel, GoTo, Continue
  <2> QED
    BY <1>1, <1>5, <2>1, <2>2 DEF AdjustLevel, RowsTyped
<1>8. /\ holder'[w] = {s} /\ \A v \in Warehouses : v # w => holder'[v] = holder[v]
      /\ \A k \in StockLines : holder'[k] = holder[k]
  BY <1>1, <1>6, <1>7, LockedRow, RowsAssumption
<1>9. StatementOf(s)
  BY <1>1, <1>4, <1>5, <1>6, <1>7, <1>8
     DEF AdjustLevel, GoTo, Continue, StatementOf, RowsTyped, ShelfTypeOK
<1>10. /\ onHand[w] = committed.onHand[w]
       /\ reserved[w] = IF w = hold.at THEN AtLeastZero(committed.reserved[w] - hold.quantity)
                                       ELSE committed.reserved[w]
  BY <1>4, <1>6, <1>7, LevelBeforeMove
<1>11. RowsReleased(s, next, hold)'
  BY <1>4, <1>5, <1>7, <1>8, <1>10 DEF MovementAt, RowsReleased
<1>12. Released(hold) => LineReleased(s, next, hold, -move.delta)'
  BY <1>4, <1>5, <1>7, <1>8 DEF MovementAt, LineReleased
<1>13. \A v \in Warehouses : s \in holder'[v] =>
         onHand'[v] = committed'.onHand[v] + Moved(next, move, v)
  BY <1>1, <1>4, <1>5, <1>6, <1>7, <1>8, <1>10, NoWarehouseAssumption
     DEF MovementAt, MoveLocals, Moved, RowsTyped, ShelfRows, ShelfTypeOK
<1>14. move.delta < 0 => GoodsAreThere(s, move)'
  BY <1>4, <1>5, <1>7, <1>8 DEF MovementAt, GoodsAreThere
<1>15. MoveLocals(next, hold, move)
  BY <1>4, <1>5 DEF MovementAt, MoveLocals, MoveSteps
<1>16. MovementAt(s, next, hold, move)'
  BY <1>5, <1>8, <1>11, <1>12, <1>13, <1>14, <1>15 DEF MovementAt
<1>17. slot'[s] = [step |-> next, hold |-> hold, move |-> move, total |-> total]
  BY <1>4, <1>7
<1> QED
  BY <1>9, <1>16, <1>17, StatementInv, IsMovement

\* The destination of a transfer takes the opposite.
LEMMA AdjustDestinationInv ==
  ASSUME TransactionsInv, NEW s \in Slots, AdjustDestination(s)
  PROVE  TransactionsInv'
<1>1. RowsTyped /\ Warehouses \subseteq Rows /\ StockLines \subseteq Rows
  BY DEF TransactionsInv, Rows
<1>2. slot[s].step = "stock.arrive" /\ Movement(s)
  BY KindOf DEF AdjustDestination, At
<1>3. PICK hold : hold = slot[s].hold
  OBVIOUS
<1>4. PICK move, total :
        /\ slot[s] = [step |-> "stock.arrive", hold |-> hold, move |-> move, total |-> total]
        /\ MovementAt(s, "stock.arrive", hold, move)
  BY <1>2, <1>3, MovementIs
<1>5. PICK w : w = move.to
  OBVIOUS
<1>6. /\ w \in Warehouses /\ w # move.from /\ move.delta \in Int /\ move \in MoveRecords
      /\ ~Released(hold)
  BY <1>4, <1>5 DEF MovementAt, MoveLocals, MoveRecords
<1>7. /\ Lockable(s, w) /\ Lock(s, w)
      /\ onHand' = [onHand EXCEPT ![w] = @ - move.delta]
      /\ slot'[s] = [slot[s] EXCEPT !.step = "stock.commit"]
      /\ UNCHANGED <<reserved, held, committed>>
  <2>1. slot[s].move = move
    BY <1>4
  <2>2. slot' = [slot EXCEPT ![s] = [slot[s] EXCEPT !.step = "stock.commit"]]
    BY <1>5, <2>1 DEF AdjustDestination, GoTo, Continue
  <2> QED
    BY <1>1, <1>5, <2>1, <2>2 DEF AdjustDestination, RowsTyped
<1>8. /\ holder'[w] = {s} /\ \A v \in Warehouses : v # w => holder'[v] = holder[v]
      /\ \A k \in StockLines : holder'[k] = holder[k]
  BY <1>1, <1>6, <1>7, LockedRow, RowsAssumption
<1>9. StatementOf(s)
  BY <1>1, <1>4, <1>5, <1>6, <1>7, <1>8
     DEF AdjustDestination, GoTo, Continue, StatementOf, RowsTyped, ShelfTypeOK
<1>10. /\ onHand[w] = committed.onHand[w]
       /\ reserved[w] = IF w = hold.at THEN AtLeastZero(committed.reserved[w] - hold.quantity)
                                       ELSE committed.reserved[w]
  BY <1>4, <1>6, <1>7, LevelBeforeMove
<1>11. RowsReleased(s, "stock.commit", hold)'
  BY <1>4, <1>7, <1>8, <1>10 DEF MovementAt, RowsReleased
<1>12. \A v \in Warehouses : s \in holder'[v] =>
         onHand'[v] = committed'.onHand[v] + Moved("stock.commit", move, v)
  BY <1>1, <1>4, <1>5, <1>6, <1>7, <1>8, <1>10
     DEF MovementAt, Moved, RowsTyped, ShelfRows, ShelfTypeOK
<1>13. move.delta < 0 => GoodsAreThere(s, move)'
  BY <1>4, <1>6, <1>7, <1>8 DEF MovementAt, GoodsAreThere, MoveRecords
<1>14. MoveLocals("stock.commit", hold, move)
  BY <1>4 DEF MovementAt, MoveLocals, MoveSteps
<1>15. s \in holder'[move.from]
  BY <1>4, <1>6, <1>8 DEF MovementAt, MoveRecords
<1>16. MovementAt(s, "stock.commit", hold, move)'
  BY <1>5, <1>6, <1>8, <1>11, <1>12, <1>13, <1>14, <1>15 DEF MovementAt
<1>17. slot'[s] = [step |-> "stock.commit", hold |-> hold, move |-> move, total |-> total]
  BY <1>4, <1>7
<1> QED
  BY <1>9, <1>16, <1>17, StatementInv, IsMovement

\* What a reservation may promise is on the level it has just locked.
LEMMA LockToReserveInv ==
  ASSUME TransactionsInv, NEW s \in Slots, LockToReserve(s), ~Refuse(s)
  PROVE  TransactionsInv'
<1>1. RowsTyped /\ FreeRowsAreCommitted /\ Warehouses \subseteq Rows /\ StockLines \subseteq Rows
  BY DEF TransactionsInv, Rows
<1>2. slot[s].step = "stock.reserve" /\ Reservation(s)
  BY KindOf DEF LockToReserve, At
<1>3. PICK l, w, n :
        /\ slot[s] = [step |-> "stock.reserve", line |-> l, at |-> w, quantity |-> n]
        /\ ReservationAt(s, "stock.reserve", l, w, n)
  BY <1>2, ReservationIs
<1>4. slot[s].at = w /\ slot[s].quantity = n
  BY <1>3
<1>5. PICK k : k = Reservable(w, n)
  OBVIOUS
<1>6. /\ l \in StockLines /\ w \in Warehouses /\ n \in Quantities
      /\ \A v \in Warehouses : s \notin holder[v]
      /\ \A j \in StockLines : s \notin holder[j]
  BY <1>3 DEF ReservationAt
<1>7. /\ Lockable(s, w) /\ Lock(s, w) /\ k # 0
      /\ slot' = [slot EXCEPT ![s] = [slot[s] EXCEPT !.step = "stock.hold", !.quantity = k]]
      /\ UNCHANGED <<onHand, reserved, held, committed>>
  BY <1>4, <1>5 DEF LockToReserve, Continue, shelfVars
<1>8. holder[w] = {} /\ onHand[w] = committed.onHand[w] /\ reserved[w] = committed.reserved[w]
  BY <1>1, <1>6, <1>7, LockedRow DEF FreeRowsAreCommitted
<1>9. k \in Quantities /\ k <= onHand[w] - reserved[w]
  BY <1>1, <1>5, <1>6, <1>7, MaxQuantityAssumption
     DEF RowsTyped, ShelfTypeOK, Reservable, AtLeastZero, Lesser, Available, Quantities
<1>10. /\ holder'[w] = {s} /\ \A v \in Warehouses : v # w => holder'[v] = holder[v]
       /\ \A j \in StockLines : holder'[j] = holder[j]
  BY <1>1, <1>6, <1>7, LockedRow, RowsAssumption
<1>11. StatementOf(s)
  BY <1>1, <1>6, <1>7, <1>10 DEF StatementOf, RowsTyped, ShelfTypeOK
<1>12. ReservationAt(s, "stock.hold", l, w, k)'
  BY <1>6, <1>7, <1>8, <1>9, <1>10, <1>1 DEF ReservationAt, RowsTyped, ShelfRows
<1>13. slot'[s] = [step |-> "stock.hold", line |-> l, at |-> w, quantity |-> k]
  <2>1. PICK q : q = [slot[s] EXCEPT !.step = "stock.hold"]
    OBVIOUS
  <2>2. q = [step |-> "stock.hold", line |-> l, at |-> w, quantity |-> n]
    BY <1>3, <2>1
  <2>3. slot'[s] = [q EXCEPT !.quantity = k]
    BY <1>1, <1>7, <2>1 DEF RowsTyped
  <2> QED
    BY <2>2, <2>3
<1> QED
  BY <1>11, <1>12, <1>13, StatementInv, IsReservation

\* The hold that is inserted is the one the level was locked for.
LEMMA InsertHoldInv ==
  ASSUME TransactionsInv, NEW s \in Slots, InsertHold(s), ~Refuse(s)
  PROVE  TransactionsInv'
<1>1. RowsTyped /\ FreeRowsAreCommitted /\ Warehouses \subseteq Rows /\ StockLines \subseteq Rows
  BY DEF TransactionsInv, Rows
<1>2. slot[s].step = "stock.hold" /\ Reservation(s)
  BY KindOf DEF InsertHold, At
<1>3. PICK l, w, n :
        /\ slot[s] = [step |-> "stock.hold", line |-> l, at |-> w, quantity |-> n]
        /\ ReservationAt(s, "stock.hold", l, w, n)
  BY <1>2, ReservationIs
<1>4. slot[s].line = l /\ slot[s].at = w /\ slot[s].quantity = n
  BY <1>3
<1>5. /\ l \in StockLines /\ l \in Lines /\ w \in Warehouses /\ n \in Quantities
      /\ s \in holder[w] /\ \A v \in Warehouses : s \in holder[v] => v = w
      /\ \A j \in StockLines : s \notin holder[j]
      /\ onHand[w] = committed.onHand[w] /\ reserved[w] = committed.reserved[w] + 0
      /\ n <= committed.onHand[w] - committed.reserved[w]
  BY <1>3, StockLinesAssumption DEF ReservationAt
<1>6. /\ Lockable(s, l) /\ Lock(s, l) /\ held[l] = NoHold
      /\ held' = [held EXCEPT ![l] = [at |-> w, quantity |-> n]]
      /\ reserved' = [reserved EXCEPT ![w] = @ + n]
      /\ slot' = [slot EXCEPT ![s] = [slot[s] EXCEPT !.step = "stock.commit"]]
      /\ UNCHANGED <<onHand, committed>>
  BY <1>4 DEF InsertHold, GoTo, Continue
<1>7. holder[l] = {} /\ held[l] = committed.held[l]
  BY <1>1, <1>5, <1>6, LockedRow DEF FreeRowsAreCommitted
<1>8. /\ holder'[l] = {s} /\ \A j \in StockLines : j # l => holder'[j] = holder[j]
      /\ \A v \in Warehouses : holder'[v] = holder[v]
  BY <1>1, <1>5, <1>6, LockedRow, RowsAssumption
<1>9. StatementOf(s)
  BY <1>1, <1>5, <1>6, <1>8, MaxQuantityAssumption
     DEF StatementOf, RowsTyped, ShelfTypeOK, Hold, Quantities
<1>10. ReservationAt(s, "stock.commit", l, w, n)'
  <2>1. held'[l] = [at |-> w, quantity |-> n] /\ reserved'[w] = committed'.reserved[w] + n
    BY <1>1, <1>5, <1>6, MaxQuantityAssumption DEF RowsTyped, ShelfTypeOK, ShelfRows, Quantities
  <2> QED
    BY <1>5, <1>6, <1>7, <1>8, <2>1 DEF ReservationAt
<1>11. slot'[s] = [step |-> "stock.commit", line |-> l, at |-> w, quantity |-> n]
  BY <1>1, <1>3, <1>6 DEF RowsTyped
<1> QED
  BY <1>9, <1>10, <1>11, StatementInv, IsReservation

\* A line is deleted only while nobody holds its row.
LEMMA LineDeletedInv ==
  ASSUME TransactionsInv, NEW l \in StockLines, LineDeleted(l)
  PROVE  TransactionsInv'
<1>1. RowsTyped /\ OneHolder /\ FreeRowsAreCommitted
  BY DEF TransactionsInv
<1>2. l \in Lines /\ l \in Rows /\ NoHold \in Hold
  BY StockLinesAssumption DEF Rows, Hold
<1>3. /\ holder[l] = {} /\ held' = [held EXCEPT ![l] = NoHold]
      /\ UNCHANGED <<onHand, reserved, holder, slot>>
  BY DEF LineDeleted, Happens
<1>4. /\ committed' = [onHand |-> committed.onHand, reserved |-> committed.reserved,
                       held |-> [committed.held EXCEPT ![l] = NoHold], average |-> committed.average]
      /\ committed'.onHand = committed.onHand /\ committed'.reserved = committed.reserved
      /\ committed'.held = [committed.held EXCEPT ![l] = NoHold]
      /\ committed'.average = committed.average
  <2>1. PICK a, b, c, d : committed = [onHand |-> a, reserved |-> b, held |-> c, average |-> d]
    BY <1>1 DEF RowsTyped
  <2>2. committed' = [onHand |-> a, reserved |-> b, held |-> [c EXCEPT ![l] = NoHold], average |-> d]
    BY <2>1 DEF LineDeleted
  <2> QED
    BY <2>1, <2>2
<1>5. RowsTyped'
  BY <1>1, <1>2, <1>3, <1>4 DEF RowsTyped, ShelfTypeOK, ShelfRows
<1>6. OneHolder' /\ FreeRowsAreCommitted'
  BY <1>1, <1>2, <1>3, <1>4 DEF OneHolder, FreeRowsAreCommitted, RowsTyped, ShelfTypeOK, ShelfRows
<1>7. ASSUME NEW r \in Slots
      PROVE  OnItsWay(r)'
  <2>1. OnItsWay(r)
    BY DEF TransactionsInv
  <2>2. \A k \in StockLines : r \in holder[k] => held'[k] = held[k] /\ committed'.held[k] = committed.held[k]
    BY <1>1, <1>2, <1>3, <1>4, StockLinesAssumption DEF RowsTyped, ShelfTypeOK, ShelfRows
  <2> QED
    BY <1>3, <1>4, <2>1, <2>2, OthersUndisturbed
<1> QED
  BY <1>5, <1>6, <1>7 DEF TransactionsInv

\* A transaction that is refused, deadlocked or dropped.
LEMMA RefuseInv ==
  ASSUME TransactionsInv, NEW s \in Slots, Refuse(s) \/ (Abandon(s) /\ RollBack(s))
  PROVE  TransactionsInv'
BY EndInv DEF Refuse, Finish, Continue, Abandon, RollBack

\* A commit makes what its transaction wrote the committed rows.
LEMMA CommitInv ==
  ASSUME TransactionsInv, NEW s \in Slots, Commit(s)
  PROVE  TransactionsInv'
BY EndInv DEF Commit, Finish, Continue

\* Every step keeps the invariant.
LEMMA NextInv ==
  TransactionsInv /\ [TransactionsNext]_<<requestVars, stockVars>> => TransactionsInv'
<1> SUFFICES ASSUME TransactionsInv, [TransactionsNext]_<<requestVars, stockVars>>
             PROVE  TransactionsInv'
  OBVIOUS
<1>1. CASE \E l \in StockLines : LineDeleted(l)
  BY <1>1, LineDeletedInv
<1>2. CASE \E s \in Slots : Free(s) /\ (StockRequest(s) \/ \E l \in StockLines : BeginRelease(s, l))
  BY <1>2, StockRequestInv, BeginReleaseInv
<1>3. CASE \E s \in Slots : ReleaseLine(s) \/ GiveBack(s)
  BY <1>3, ReleaseLineInv, GiveBackInv
<1>4. CASE \E s \in Slots : Check(s)
  BY <1>4, CheckInv, RefuseInv
<1>5. CASE \E s \in Slots : SumOnHand(s) \/ MoveAverage(s)
  BY <1>5, SumOnHandInv, MoveAverageInv
<1>6. CASE \E s \in Slots : AdjustLevel(s) \/ AdjustDestination(s)
  BY <1>6, AdjustLevelInv, AdjustDestinationInv
<1>7. CASE \E s \in Slots : LockToReserve(s) \/ InsertHold(s)
  BY <1>7, LockToReserveInv, InsertHoldInv, RefuseInv
<1>8. CASE \E s \in Slots : Commit(s) \/ EndDeadlock(s)
  BY <1>8, CommitInv, RefuseInv DEF EndDeadlock
<1>9. CASE \E s \in Slots : Abandon(s) /\ RollBack(s)
  BY <1>9, RefuseInv
<1>10. CASE UNCHANGED <<requestVars, stockVars>>
  <2>1. UNCHANGED <<onHand, reserved, held, holder, committed, slot>>
    BY <1>10 DEF requestVars, stockVars, shelfVars
  <2>2. RowsTyped' /\ OneHolder' /\ FreeRowsAreCommitted'
    BY <2>1 DEF TransactionsInv, RowsTyped, OneHolder, FreeRowsAreCommitted, ShelfTypeOK
  <2> QED
    BY <2>1, <2>2, OthersUndisturbed DEF TransactionsInv
<1> QED
  BY <1>1, <1>2, <1>3, <1>4, <1>5, <1>6, <1>7, <1>8, <1>9, <1>10
     DEF TransactionsNext, StockNext, StockStep

\* So it holds throughout.
LEMMA InvAlways == TransactionsSpec => []TransactionsInv
BY InitInv, NextInv, PTL DEF TransactionsSpec

-----------------------------------------------------------------------------
(* Stock transactions: what is committed moves by the steps of Shelf *)

\* A commit publishes the rows its transaction holds, and no other.
LEMMA Published ==
  ASSUME TransactionsInv, NEW s \in Slots, Commit(s)
  PROVE  /\ slot[s].step = "stock.commit"
         /\ committed'.onHand =
              [w \in Warehouses |-> IF s \in holder[w] THEN onHand[w] ELSE committed.onHand[w]]
         /\ committed'.reserved =
              [w \in Warehouses |-> IF s \in holder[w] THEN reserved[w] ELSE committed.reserved[w]]
         /\ committed'.held =
              [l \in Lines |-> IF l \in StockLines /\ s \in holder[l] THEN held[l] ELSE committed.held[l]]
BY DEF Commit, At, Chosen, Written

\* A movement commits what one step of Shelf does.
LEMMA MovementCommits ==
  ASSUME TransactionsInv, NEW s \in Slots, Commit(s), Movement(s)
  PROVE  Committed!ShelfNext
<1>0. /\ committed'.onHand =
           [w \in Warehouses |-> IF s \in holder[w] THEN onHand[w] ELSE committed.onHand[w]]
      /\ committed'.reserved =
           [w \in Warehouses |-> IF s \in holder[w] THEN reserved[w] ELSE committed.reserved[w]]
      /\ committed'.held =
           [l \in Lines |-> IF l \in StockLines /\ s \in holder[l] THEN held[l] ELSE committed.held[l]]
  BY Published
<1>1. RowsTyped /\ StockLines \subseteq Lines
  BY StockLinesAssumption DEF TransactionsInv
<1>2. PICK hold : hold = slot[s].hold
  OBVIOUS
<1>3. PICK move, total :
        /\ slot[s] = [step |-> "stock.commit", hold |-> hold, move |-> move, total |-> total]
        /\ MovementAt(s, "stock.commit", hold, move)
  BY <1>2, Published, MovementIs
<1>4. PICK from, to, d : from = move.from /\ to = move.to /\ d = move.delta
  OBVIOUS
<1>5. /\ from \in Warehouses /\ to \in Warehouses \cup {NoWarehouse} /\ d \in Int
      /\ d \in Quantities \/ -d \in Quantities
      /\ to # NoWarehouse => to # from /\ d < 0 /\ ~Released(hold)
      /\ Released(hold) => d < 0
      /\ s \in holder[from] /\ (to # NoWarehouse => s \in holder[to])
  BY <1>3, <1>4 DEF MovementAt, MoveLocals, MoveRecords
<1>6. committed.onHand \in [Warehouses -> Int] /\ committed.reserved \in [Warehouses -> Nat]
      /\ committed.held \in [Lines -> Hold]
  BY <1>1 DEF RowsTyped, ShelfRows
<1>7. committed'.onHand = [w \in Warehouses |-> committed.onHand[w] +
                             (IF w = from THEN d ELSE IF w = to THEN -d ELSE 0)]
  <2>1. \A w \in Warehouses : s \in holder[w] =>
          onHand[w] = committed.onHand[w] + (IF w = from THEN d ELSE IF w = to THEN -d ELSE 0)
    BY <1>3, <1>4 DEF MovementAt, Moved
  <2>2. \A w \in Warehouses : s \notin holder[w] =>
          committed.onHand[w] = committed.onHand[w] + (IF w = from THEN d ELSE IF w = to THEN -d ELSE 0)
    BY <1>5, <1>6, NoWarehouseAssumption
  <2> QED
    BY <1>0, <2>1, <2>2
<1>8. committed'.reserved = [w \in Warehouses |->
        IF w = hold.at THEN AtLeastZero(committed.reserved[w] - hold.quantity) ELSE committed.reserved[w]]
  <2>1. \A w \in Warehouses : w = hold.at => s \in holder[w]
    BY <1>3, NoWarehouseAssumption DEF MovementAt, Released, LineReleased
  <2>2. \A w \in Warehouses : s \in holder[w] => reserved[w] =
          IF w = hold.at THEN AtLeastZero(committed.reserved[w] - hold.quantity) ELSE committed.reserved[w]
    BY <1>3 DEF MovementAt, RowsReleased
  <2> QED
    BY <1>0, <2>1, <2>2
<1>9. d < 0 => committed.onHand[from] - committed'.reserved[from] + d >= 0
  <2>1. committed'.reserved[from] = reserved[from]
    BY <1>0, <1>5
  <2> QED
    BY <1>3, <1>4, <2>1 DEF MovementAt, GoodsAreThere
<1>10. CASE Released(hold)
  <2>1. PICK l, n : l = hold.line /\ n = -d
    OBVIOUS
  <2>2. /\ l \in StockLines /\ s \in holder[l] /\ committed.held[l].at = hold.at
        /\ hold.quantity = Lesser(n, committed.held[l].quantity)
        /\ held[l] = IF committed.held[l].quantity > n
             THEN [at |-> committed.held[l].at, quantity |-> committed.held[l].quantity - n] ELSE NoHold
        /\ committed.held[l] # NoHold
    BY <1>3, <1>4, <1>10, <2>1 DEF MovementAt, LineReleased
  <2>3. n \in Quantities /\ to = NoWarehouse /\ d = -n
    BY <1>5, <1>10, <2>1, MaxQuantityAssumption DEF Quantities
  <2>4. held[l] = Committed!HoldAfter(l, n)
    BY <1>1, <1>6, <2>2 DEF Committed!HoldAfter, Committed!NoHold, NoHold, Hold
  <2>5. \A k \in StockLines : s \in holder[k] => k = l
    BY <1>3, <2>1 DEF MovementAt, RowsReleased
  <2>6. committed'.held = [committed.held EXCEPT ![l] = Committed!HoldAfter(l, n)]
    BY <1>1, <1>6, <2>2, <2>4, <2>5, <1>0
  <2>7. committed'.reserved = Committed!ReservedAfter(l, n)
    BY <1>8, <2>2 DEF Committed!ReservedAfter, Committed!GivenBack, Committed!Lesser, Lesser,
                      Committed!AtLeastZero, AtLeastZero
  <2>8. committed'.onHand = [committed.onHand EXCEPT ![from] = @ - n]
    BY <1>5, <1>6, <1>7, <2>3, NoWarehouseAssumption, MaxQuantityAssumption DEF Quantities
  <2>9. Committed!CanShip(l, from, n)
    <3>1. committed'.reserved[from] \in Int
      BY <1>3, <1>5, <1>6, <1>8 DEF MovementAt, MoveLocals, HoldRecords, AtLeastZero
    <3> QED
      BY <1>5, <1>6, <1>9, <2>3, <2>7, <3>1, MaxQuantityAssumption DEF Committed!CanShip, Quantities
  <2>10. Committed!Ship(l, from, n)
    BY <2>6, <2>7, <2>8, <2>9 DEF Committed!Ship
  <2> QED
    BY <1>1, <1>5, <2>2, <2>3, <2>10 DEF Committed!ShelfNext, Committed!Quantities, Quantities
<1>11. CASE ~Released(hold)
  <2>1. committed'.reserved = committed.reserved
    BY <1>6, <1>8, <1>11, NoWarehouseAssumption DEF Released
  <2>2. committed'.held = committed.held
    BY <1>0, <1>1, <1>3, <1>6, <1>11 DEF MovementAt, RowsReleased
  <2>3. CASE to # NoWarehouse
    <3>1. PICK n : n = -d
      OBVIOUS
    <3>2. n \in Quantities /\ d = -n /\ to \in Warehouses /\ from # to
      BY <1>5, <2>3, <3>1, MaxQuantityAssumption DEF Quantities
    <3>3. committed'.onHand = [committed.onHand EXCEPT ![from] = @ - n, ![to] = @ + n]
      BY <1>5, <1>6, <1>7, <3>2, MaxQuantityAssumption DEF Quantities
    <3>4. Committed!Transfer(from, to, n)
      BY <1>5, <1>6, <1>9, <2>1, <2>2, <3>1, <3>2, <3>3, MaxQuantityAssumption
         DEF Committed!Transfer, Committed!Available, Quantities
    <3> QED
      BY <1>5, <3>2, <3>4 DEF Committed!ShelfNext, Committed!Quantities, Quantities
  <2>4. CASE to = NoWarehouse /\ d < 0
    <3>1. PICK n : n = -d
      OBVIOUS
    <3>2. n \in Quantities /\ d = -n
      BY <1>5, <2>4, <3>1, MaxQuantityAssumption DEF Quantities
    <3>3. committed'.onHand = [committed.onHand EXCEPT ![from] = @ - n]
      BY <1>5, <1>6, <1>7, <2>4, <3>2, NoWarehouseAssumption, MaxQuantityAssumption DEF Quantities
    <3>4. Committed!Remove(from, n)
      BY <1>5, <1>6, <1>9, <2>1, <2>2, <2>4, <3>1, <3>2, <3>3, MaxQuantityAssumption
         DEF Committed!Remove, Committed!Available, Quantities
    <3> QED
      BY <1>5, <3>2, <3>4 DEF Committed!ShelfNext, Committed!Quantities, Quantities
  <2>5. CASE to = NoWarehouse /\ ~(d < 0)
    <3>1. d \in Quantities
      BY <1>5, <2>5, MaxQuantityAssumption DEF Quantities
    <3>2. committed'.onHand = [committed.onHand EXCEPT ![from] = @ + d]
      BY <1>5, <1>6, <1>7, <2>5, NoWarehouseAssumption
    <3>3. Committed!Receive(from, d)
      BY <2>1, <2>2, <3>2 DEF Committed!Receive
    <3> QED
      BY <1>5, <3>1, <3>3 DEF Committed!ShelfNext, Committed!Quantities, Quantities
  <2> QED
    BY <2>3, <2>4, <2>5
<1> QED
  BY <1>10, <1>11

\* A release commits ReleaseOrder, or nothing when the line held nothing.
LEMMA ReleaseCommits ==
  ASSUME TransactionsInv, NEW s \in Slots, Commit(s), Release(s)
  PROVE  [Committed!ShelfNext]_(Committed!shelfVars)
<1>0. /\ committed'.onHand =
           [w \in Warehouses |-> IF s \in holder[w] THEN onHand[w] ELSE committed.onHand[w]]
      /\ committed'.reserved =
           [w \in Warehouses |-> IF s \in holder[w] THEN reserved[w] ELSE committed.reserved[w]]
      /\ committed'.held =
           [l \in Lines |-> IF l \in StockLines /\ s \in holder[l] THEN held[l] ELSE committed.held[l]]
  BY Published
<1>1. RowsTyped /\ StockLines \subseteq Lines
  BY StockLinesAssumption DEF TransactionsInv
<1>2. PICK hold : hold = slot[s].hold
  OBVIOUS
<1>3. ReleaseAt(s, "stock.commit", hold)
  BY <1>2, Published, ReleaseIs
<1>4. committed.onHand \in [Warehouses -> Int] /\ committed.reserved \in [Warehouses -> Nat]
      /\ committed.held \in [Lines -> Hold]
  BY <1>1 DEF RowsTyped, ShelfRows
<1>5. committed'.onHand = committed.onHand
  BY <1>0, <1>3, <1>4 DEF ReleaseAt
<1>6. committed'.reserved = [w \in Warehouses |->
        IF w = hold.at THEN AtLeastZero(committed.reserved[w] - hold.quantity) ELSE committed.reserved[w]]
  <2>1. \A w \in Warehouses : w = hold.at => s \in holder[w]
    BY <1>3, NoWarehouseAssumption DEF ReleaseAt, Released, LineReleased
  <2>2. \A w \in Warehouses : s \in holder[w] => reserved[w] =
          IF w = hold.at THEN AtLeastZero(committed.reserved[w] - hold.quantity) ELSE committed.reserved[w]
    BY <1>3 DEF ReleaseAt, RowsReleased
  <2> QED
    BY <1>0, <2>1, <2>2
<1>7. CASE Released(hold)
  <2>1. PICK l, q : l = hold.line /\ q = committed.held[l].quantity
    OBVIOUS
  <2>2. /\ l \in StockLines /\ s \in holder[l] /\ committed.held[l].at = hold.at
        /\ hold.quantity = Lesser(MaxQuantity, q)
        /\ held[l] = IF q > MaxQuantity
             THEN [at |-> committed.held[l].at, quantity |-> q - MaxQuantity] ELSE NoHold
        /\ committed.held[l] # NoHold
    BY <1>3, <1>7, <2>1 DEF ReleaseAt, LineReleased
  <2>3. q \in Quantities
    BY <1>1, <1>4, <2>1, <2>2 DEF Hold
  <2>4. hold.quantity = q /\ held[l] = NoHold
    BY <2>2, <2>3, MaxQuantityAssumption DEF Quantities, Lesser
  <2>5. \A k \in StockLines : s \in holder[k] => k = l
    BY <1>3, <2>1 DEF ReleaseAt, RowsReleased
  <2>6. committed'.held = [committed.held EXCEPT ![l] = NoHold]
    BY <1>1, <1>4, <2>2, <2>4, <2>5, <1>0
  <2>7. Committed!GivenBack(l, q) = q
    BY <2>1, <2>3, MaxQuantityAssumption DEF Committed!GivenBack, Committed!Lesser, Quantities
  <2>8. committed'.reserved = Committed!ReservedAfter(l, q)
    BY <1>6, <2>2, <2>4, <2>7 DEF Committed!ReservedAfter, Committed!AtLeastZero, AtLeastZero
  <2>9. Committed!ReleaseOrder(l)
    BY <1>5, <2>1, <2>2, <2>6, <2>8 DEF Committed!ReleaseOrder, Committed!NoHold, NoHold
  <2> QED
    BY <1>1, <2>2, <2>9 DEF Committed!ShelfNext
<1>8. CASE ~Released(hold)
  <2>1. committed'.reserved = committed.reserved
    BY <1>4, <1>6, <1>8, NoWarehouseAssumption DEF Released
  <2>2. committed'.held = committed.held
    BY <1>0, <1>1, <1>3, <1>4, <1>8 DEF ReleaseAt, RowsReleased
  <2> QED
    BY <1>5, <2>1, <2>2 DEF Committed!shelfVars
<1> QED
  BY <1>7, <1>8

\* A reservation commits Reserve of what it found available.
LEMMA ReservationCommits ==
  ASSUME TransactionsInv, NEW s \in Slots, Commit(s), Reservation(s)
  PROVE  Committed!ShelfNext
<1>0. /\ committed'.onHand =
           [w \in Warehouses |-> IF s \in holder[w] THEN onHand[w] ELSE committed.onHand[w]]
      /\ committed'.reserved =
           [w \in Warehouses |-> IF s \in holder[w] THEN reserved[w] ELSE committed.reserved[w]]
      /\ committed'.held =
           [l \in Lines |-> IF l \in StockLines /\ s \in holder[l] THEN held[l] ELSE committed.held[l]]
  BY Published
<1>1. RowsTyped /\ StockLines \subseteq Lines
  BY StockLinesAssumption DEF TransactionsInv
<1>2. PICK l, w, n : ReservationAt(s, "stock.commit", l, w, n)
  BY Published, ReservationIs
<1>3. /\ l \in StockLines /\ l \in Lines /\ w \in Warehouses /\ n \in Quantities
      /\ s \in holder[w] /\ s \in holder[l]
      /\ n <= committed.onHand[w] - committed.reserved[w]
      /\ committed.held[l] = NoHold /\ held[l] = [at |-> w, quantity |-> n]
      /\ \A k \in StockLines : s \in holder[k] => k = l
      /\ \A v \in Warehouses : s \in holder[v] =>
           v = w /\ onHand[v] = committed.onHand[v] /\ reserved[v] = committed.reserved[v] + n
  BY <1>1, <1>2 DEF ReservationAt
<1>4. committed.onHand \in [Warehouses -> Int] /\ committed.reserved \in [Warehouses -> Nat]
      /\ committed.held \in [Lines -> Hold]
  BY <1>1 DEF RowsTyped, ShelfRows
<1>5. Committed!Reservable(w, n) = n /\ n > 0
  BY <1>3, <1>4, MaxQuantityAssumption
     DEF Committed!Reservable, Committed!AtLeastZero, Committed!Lesser, Committed!Available, Quantities
<1>6. committed'.onHand = committed.onHand
  BY <1>0, <1>3, <1>4
<1>7. committed'.reserved = [committed.reserved EXCEPT ![w] = @ + n]
  BY <1>0, <1>3, <1>4
<1>8. committed'.held = [committed.held EXCEPT ![l] = [at |-> w, quantity |-> n]]
  BY <1>0, <1>3, <1>4
<1>9. Committed!Reserve(l, w, n)
  BY <1>3, <1>5, <1>6, <1>7, <1>8
     DEF Committed!Reserve, Committed!CanReserve, Committed!NoHold, NoHold
<1> QED
  BY <1>3, <1>9 DEF Committed!ShelfNext, Committed!Quantities, Quantities

\* A deleted line is CascadeHold; everything else that is not a commit leaves
\* what is committed alone.
LEMMA StepIsAStep ==
  ASSUME TransactionsInv, [TransactionsNext]_<<requestVars, stockVars>>
  PROVE  [Committed!ShelfNext]_(Committed!shelfVars)
<1>1. CASE \E l \in StockLines : LineDeleted(l)
  <2>1. PICK l \in StockLines : LineDeleted(l)
    BY <1>1
  <2>2. RowsTyped /\ FreeRowsAreCommitted /\ l \in Lines
    BY StockLinesAssumption DEF TransactionsInv
  <2>3. committed.held[l] # NoHold
    BY <2>1, <2>2 DEF LineDeleted, FreeRowsAreCommitted
  <2>4. committed'.onHand = committed.onHand /\ committed'.reserved = committed.reserved
        /\ committed'.held = [committed.held EXCEPT ![l] = NoHold]
    <3>1. PICK a, b, c, d : committed = [onHand |-> a, reserved |-> b, held |-> c, average |-> d]
      BY <2>2 DEF RowsTyped
    <3>2. committed' = [onHand |-> a, reserved |-> b, held |-> [c EXCEPT ![l] = NoHold], average |-> d]
      BY <2>1, <3>1 DEF LineDeleted
    <3> QED
      BY <3>1, <3>2
  <2>5. Committed!CascadeHold(l)
    BY <2>3, <2>4 DEF Committed!CascadeHold, Committed!NoHold, NoHold
  <2> QED
    BY <2>2, <2>5 DEF Committed!ShelfNext
<1>2. CASE \E s \in Slots : Commit(s)
  <2>1. PICK s \in Slots : Commit(s)
    BY <1>2
  <2>2. Movement(s) \/ Release(s) \/ Reservation(s)
    BY <2>1, Published, KindOf
  <2> QED
    BY <2>1, <2>2, MovementCommits, ReleaseCommits, ReservationCommits
<1>3. CASE UNCHANGED committed
  BY <1>3 DEF Committed!shelfVars
<1>4. ASSUME NEW s \in Slots, Free(s) /\ (StockRequest(s) \/ \E l \in StockLines : BeginRelease(s, l))
      PROVE  UNCHANGED committed
  BY <1>4 DEF StockRequest, BeginShip, BeginRemove, BeginReturn, BeginReceive, BeginTransfer,
              BeginReserve, BeginRelease, BeginMove, stockVars
<1>5. ASSUME NEW s \in Slots,
             \/ ReleaseLine(s) \/ GiveBack(s) \/ Check(s) \/ SumOnHand(s) \/ MoveAverage(s)
             \/ AdjustLevel(s) \/ AdjustDestination(s) \/ LockToReserve(s) \/ InsertHold(s)
             \/ EndDeadlock(s) \/ (Abandon(s) /\ RollBack(s))
      PROVE  UNCHANGED committed
  BY <1>5 DEF ReleaseLine, GiveBack, Check, SumOnHand, MoveAverage, AdjustLevel, AdjustDestination,
              LockToReserve, InsertHold, EndDeadlock, Refuse, RollBack, stockVars
<1>6. CASE UNCHANGED <<requestVars, stockVars>>
  BY <1>3, <1>6 DEF stockVars
<1> QED
  BY <1>1, <1>2, <1>3, <1>4, <1>5, <1>6 DEF TransactionsNext, StockNext, StockStep

-----------------------------------------------------------------------------
(* Stock transactions: the properties *)

\* However their statements interleave, wait for each other, deadlock or are
\* dropped, the transactions of the stock repository take effect as the single
\* steps of Shelf.
THEOREM TransactionsImplementShelf == TransactionsSpec => TransactionsAreSteps
<1>1. RequestsInit /\ ShelfInit /\ StockInit => Committed!ShelfInit
  BY DEF ShelfInit, StockInit, Written, Committed!ShelfInit, Committed!NoHold, NoHold
<1>2. TransactionsInv /\ [TransactionsNext]_<<requestVars, stockVars>>
        => [Committed!ShelfNext]_(Committed!shelfVars)
  BY StepIsAStep
<1> QED
  BY <1>1, <1>2, InvAlways, PTL DEF TransactionsSpec, TransactionsAreSteps, Committed!ShelfSpec

\* What ShelfProofs proves, of the rows as committed.
CommittedShelf == INSTANCE ShelfProofs WITH
  onHand <- committed.onHand, reserved <- committed.reserved, held <- committed.held

\* What is committed behaves as the Shelf of module Shelf.
LEMMA CommittedIsAShelf == TransactionsSpec => CommittedShelf!ShelfSpec
<1>1. RequestsInit /\ ShelfInit /\ StockInit => CommittedShelf!ShelfInit
  BY DEF ShelfInit, StockInit, Written, CommittedShelf!ShelfInit, CommittedShelf!NoHold, NoHold
<1>2. Committed!ShelfNext => CommittedShelf!ShelfNext
  BY DEF Committed!ShelfNext, Committed!Reserve, Committed!Ship, Committed!Remove, Committed!Receive,
         Committed!Transfer, Committed!ReleaseOrder, Committed!CascadeHold, Committed!CanReserve,
         Committed!Reservable, Committed!Available, Committed!CanShip, Committed!ReservedAfter,
         Committed!HoldAfter, Committed!GivenBack, Committed!Lesser, Committed!AtLeastZero,
         Committed!NoHold, Committed!Quantities,
         CommittedShelf!ShelfNext, CommittedShelf!Reserve, CommittedShelf!Ship, CommittedShelf!Remove,
         CommittedShelf!Receive, CommittedShelf!Transfer, CommittedShelf!ReleaseOrder,
         CommittedShelf!CascadeHold, CommittedShelf!CanReserve, CommittedShelf!Reservable,
         CommittedShelf!Available, CommittedShelf!CanShip, CommittedShelf!ReservedAfter,
         CommittedShelf!HoldAfter, CommittedShelf!GivenBack, CommittedShelf!Lesser,
         CommittedShelf!AtLeastZero, CommittedShelf!NoHold, CommittedShelf!Quantities
<1>3. TransactionsInv /\ [TransactionsNext]_<<requestVars, stockVars>>
        => [CommittedShelf!ShelfNext]_(CommittedShelf!shelfVars)
  BY <1>2, StepIsAStep DEF Committed!shelfVars, CommittedShelf!shelfVars
<1> QED
  BY <1>1, <1>3, InvAlways, PTL DEF TransactionsSpec, CommittedShelf!ShelfSpec

\* The transactions never commit a promise of goods the shelf does not have.
THEOREM CommittedPromises == TransactionsSpec => []Committed!NeverOversold
<1>1. CommittedShelf!IsFiniteSet(Lines)
  <2>1. \A S : IsFiniteSet(S) = CommittedShelf!IsFiniteSet(S)
    BY Zenon DEF IsFiniteSet, CommittedShelf!IsFiniteSet
  <2> QED
    BY <2>1, LinesAssumption
<1>2. CommittedShelf!ShelfSpec => []CommittedShelf!NeverOversold
  BY CommittedShelf!Promises, <1>1, NoWarehouseAssumption, MaxQuantityAssumption
<1>3. CommittedShelf!NeverOversold => Committed!NeverOversold
  BY DEF CommittedShelf!NeverOversold, Committed!NeverOversold
<1> QED
  BY <1>2, <1>3, CommittedIsAShelf, PTL

-----------------------------------------------------------------------------
(* What a part may do to the handlers *)

StockHolding == {"stock.release", "stock.giveBack"}

\* Locals name the step they are carried to, and those of a release where it
\* goes on.
Carried(x) ==
  /\ "step" \in DOMAIN x
  /\ x.step \in StockHolding =>
       /\ "hold" \in DOMAIN x /\ "next" \in DOMAIN x.hold
       /\ x.hold.next \in {"stock.check", "stock.commit"}

OneBusy == \A s, r \in Slots : At(s, "idle") \/ At(r, "idle") \/ s = r

HandlersInv ==
  /\ slot = [s \in Slots |-> slot[s]]
  /\ \A s \in Slots : Carried(slot[s])
  /\ InTurn => OneBusy

\* The part whose handlers are at these steps takes a request, goes on with one
\* of its own, or does something that takes no handler.
Handles(steps) ==
  /\ agenda' = agenda
  /\ disturbed => disturbed'
  /\ \/ slot' = slot /\ (disturbed' \/ Quiet)
     \/ \E s \in Slots :
          /\ slot' = [slot EXCEPT ![s] = slot'[s]]
          /\ Carried(slot'[s]) /\ slot'[s].step \in steps \cup {"idle"}
          /\ \/ At(s, "idle") /\ (disturbed' \/ \A r \in Slots \ {s} : At(r, "idle"))
             \/ slot[s].step \in steps /\ (disturbed' <=> disturbed)

\* What takes one call leaves the handlers where they are.
LEMMA Happening ==
  ASSUME NEW steps, NEW event, Happens(event)
  PROVE  Handles(steps)
BY DEF Happens, Handles

\* A request takes a free slot to a step of its part.
LEMMA Beginning ==
  ASSUME NEW steps, NEW s \in Slots, NEW request, NEW locals, HandlersInv,
         At(s, "idle"), Begin(s, request, locals),
         Carried(locals), locals.step \in steps
  PROVE  Handles(steps)
<1>1. slot' = [slot EXCEPT ![s] = slot'[s]] /\ slot'[s] = locals
  BY DEF Begin, HandlersInv
<1>2. disturbed' \/ \A r \in Slots \ {s} : At(r, "idle")
  BY DEF Begin
<1> QED
  BY <1>1, <1>2 DEF Begin, Handles

\* A handler at a step of its part goes on to another, or ends.
LEMMA Continuing ==
  ASSUME NEW steps, NEW s \in Slots, NEW locals, HandlersInv,
         slot[s].step \in steps, Continue(s, locals),
         Carried(locals), locals.step \in steps \cup {"idle"}
  PROVE  Handles(steps)
<1>1. slot' = [slot EXCEPT ![s] = slot'[s]] /\ slot'[s] = locals
  BY DEF Continue, HandlersInv
<1> QED
  BY <1>1 DEF Continue, Handles

\* A handler at a step of its part ends.
LEMMA Finishing ==
  ASSUME NEW steps, NEW s \in Slots, HandlersInv, slot[s].step \in steps, Finish(s)
  PROVE  Handles(steps)
<1>1. Carried(Idle) /\ Idle.step = "idle"
  BY DEF Carried, Idle, StockHolding
<1> QED
  BY <1>1, Continuing DEF Finish

\* A record is carried on with its step changed.
LEMMA WithStep ==
  ASSUME NEW x, Carried(x), NEW step, step \notin StockHolding
  PROVE  /\ Carried([x EXCEPT !.step = step])
         /\ [x EXCEPT !.step = step].step = step
BY DEF Carried

\* A handler goes on with the locals it has.
LEMMA GoingOn ==
  ASSUME NEW steps, NEW s \in Slots, NEW step \in steps, HandlersInv,
         slot[s].step \in steps, step \notin StockHolding,
         Continue(s, [slot[s] EXCEPT !.step = step])
  PROVE  Handles(steps)
<1>1. Carried(slot[s])
  BY DEF HandlersInv
<1>2. /\ Carried([slot[s] EXCEPT !.step = step])
      /\ [slot[s] EXCEPT !.step = step].step = step
  BY <1>1, WithStep
<1> QED
  BY <1>2, Continuing

QuoteSteps ==
  {"quote.update", "quote.writeStatus", "quote.delete", "quote.lines", "quote.insert"}

\* Quotes and the orders raised from them.
LEMMA QuotesHandle == HandlersInv /\ QuotesNext => Handles(QuoteSteps)
<1> SUFFICES ASSUME HandlersInv, QuotesNext PROVE Handles(QuoteSteps)
  OBVIOUS
<1>1. ASSUME NEW s \in Slots, At(s, "idle"), QuotesRequest(s) PROVE Handles(QuoteSteps)
  <2>1. ASSUME NEW n, ReadQuoteToUpdate(s, n) PROVE Handles(QuoteSteps)
    BY <1>1, <2>1, Beginning DEF ReadQuoteToUpdate, QuoteSteps, Carried, StockHolding
  <2>2. ASSUME NEW status, ReadQuoteToSetStatus(s, status) PROVE Handles(QuoteSteps)
    BY <1>1, <2>2, Beginning DEF ReadQuoteToSetStatus, QuoteSteps, Carried, StockHolding
  <2>3. CASE ReadQuoteToDelete(s) \/ ReadQuoteToConvert(s)
    BY <1>1, <2>3, Beginning
       DEF ReadQuoteToDelete, ReadQuoteToConvert, QuoteSteps, Carried, StockHolding
  <2> QED
    BY <1>1, <2>1, <2>2, <2>3 DEF QuotesRequest
<1>2. ASSUME NEW s \in Slots, QuotesStep(s) PROVE Handles(QuoteSteps)
  BY <1>2, Continuing, Finishing
     DEF QuotesStep, UpdateQuote, WriteQuoteStatus, DeleteQuote, ReadQuoteLines,
         InsertConverted, FailQuote, At, QuoteSteps, Carried, StockHolding
<1>3. ASSUME NEW o, NEW n, CreateQuote(n) \/ DeleteRaised(o) \/ EnterOrder(o, n)
      PROVE  Handles(QuoteSteps)
  BY <1>3, Happening DEF CreateQuote, DeleteRaised, EnterOrder
<1> QED
  BY <1>1, <1>2, <1>3 DEF QuotesNext, Free

PurchasingSteps ==
  {"po.write", "po.writeStatus", "po.delete", "receipt.insert", "receipt.move",
   "return.insert", "return.move", "po.readPaid", "po.readReturned",
   "po.insertPayment", "po.deletePayment", "po.settle"}

\* Purchase orders, receipts, returns and the payments of vendors.
LEMMA PurchasingHandles == HandlersInv /\ PurchasingNext => Handles(PurchasingSteps)
<1> SUFFICES ASSUME HandlersInv, PurchasingNext PROVE Handles(PurchasingSteps)
  OBVIOUS
<1>1. ASSUME NEW s \in Slots, At(s, "idle"), PurchasingRequest(s) PROVE Handles(PurchasingSteps)
  <2>1. ASSUME NEW n, ReadPurchaseToUpdate(s, n) PROVE Handles(PurchasingSteps)
    BY <1>1, <2>1, Beginning
       DEF ReadPurchaseToUpdate, PurchasingSteps, Carried, StockHolding
  <2>2. ASSUME NEW x,
               ReadPurchaseToSetStatus(s, x) \/ ReadToPayVendor(s, x) \/ ReadToUnpayVendor(s, x)
       PROVE  Handles(PurchasingSteps)
    BY <1>1, <2>2, Beginning
       DEF ReadPurchaseToSetStatus, ReadToPayVendor, ReadToUnpayVendor,
           PurchasingSteps, Carried, StockHolding
  <2>3. CASE ReadPurchaseToDelete(s)
    BY <1>1, <2>3, Beginning
       DEF ReadPurchaseToDelete, PurchasingSteps, Carried, StockHolding
  <2>4. ASSUME NEW w, NEW n, NEW most, ReadToReceive(s, w, n) \/ ReadToReturn(s, w, n, most)
       PROVE  Handles(PurchasingSteps)
    BY <1>1, <2>4, Beginning
       DEF ReadToReceive, ReadToReturn, PurchasingSteps, Carried, StockHolding
  <2> QED
    BY <1>1, <2>1, <2>2, <2>3, <2>4
       DEF PurchasingRequest
<1>2. ASSUME NEW s \in Slots, PurchasingStep(s) PROVE Handles(PurchasingSteps)
  <2>1. CASE WritePurchase(s) \/ WritePurchaseStatus(s) \/ DeletePurchase(s)
    BY <1>2, <2>1, Continuing, Finishing
       DEF WritePurchase, WritePurchaseStatus, DeletePurchase, At, PurchasingSteps,
           Carried, StockHolding
  <2>2. CASE InsertReceipt(s) \/ MoveReceived(s) \/ InsertReturn(s)
    BY <1>2, <2>2, Continuing, Finishing
       DEF InsertReceipt, MoveReceived, InsertReturn, At, PurchasingSteps, Carried,
           StockHolding
  <2>3. CASE MoveReturned(s) \/ RefuseReturn(s)
    BY <1>2, <2>3, Continuing, Finishing
       DEF MoveReturned, RefuseReturn, At, PurchasingSteps, Carried, StockHolding
  <2>4. CASE InsertVendorPayment(s) \/ DeleteVendorPayment(s)
    BY <1>2, <2>4, Continuing, Finishing
       DEF InsertVendorPayment, DeleteVendorPayment, At, PurchasingSteps, Carried,
           StockHolding
  <2>5. CASE ReadVendorPaid(s) \/ ReadReturned(s) \/ SettlePurchase(s)
    BY <1>2, <2>5, Continuing, Finishing
       DEF ReadVendorPaid, ReadReturned, SettlePurchase, At, PurchasingSteps, Carried,
           StockHolding
  <2>6. CASE FailPurchasing(s)
    BY <1>2, <2>6, Continuing, Finishing
       DEF FailPurchasing, At, PurchasingSteps, Carried, StockHolding
  <2> QED
    BY <1>2, <2>1, <2>2, <2>3, <2>4, <2>5, <2>6
       DEF PurchasingStep
<1>3. ASSUME NEW w, NEW n, CreatePurchase(n) \/ SellReceived(w, n)
     PROVE  Handles(PurchasingSteps)
  BY <1>3, Happening
     DEF CreatePurchase, SellReceived
<1> QED
  BY <1>1, <1>2, <1>3
     DEF PurchasingNext, Free

LeaveSteps ==
  {"leave.insert", "leave.update", "leave.delete", "employee.update", "employee.delete"}

\* Leave and employees.
LEMMA LeaveHandles == HandlersInv /\ LeaveNext => Handles(LeaveSteps)
<1> SUFFICES ASSUME HandlersInv, LeaveNext PROVE Handles(LeaveSteps)
  OBVIOUS
<1>1. ASSUME NEW s \in Slots, At(s, "idle"), LeaveRequest(s) PROVE Handles(LeaveSteps)
  <2>1. ASSUME NEW type, NEW start, NEW end, NEW days,
               ReadToRequestLeave(s, type, start, end, days)
       PROVE  Handles(LeaveSteps)
    BY <1>1, <2>1, Beginning
       DEF ReadToRequestLeave, LeaveSteps, Carried, StockHolding
  <2>2. ASSUME NEW r, ReadToWithdrawLeave(s, r) PROVE Handles(LeaveSteps)
    BY <1>1, <2>2, Beginning
       DEF ReadToWithdrawLeave, LeaveSteps, Carried, StockHolding
  <2>3. ASSUME NEW r, NEW x, ReadToDecideLeave(s, r, x) \/ ReadToUpdateEmployee(s, r, x)
       PROVE  Handles(LeaveSteps)
    BY <1>1, <2>3, Beginning
       DEF ReadToDecideLeave, ReadToUpdateEmployee, LeaveSteps, Carried, StockHolding
  <2>4. CASE ReadToDeleteEmployee(s)
    BY <1>1, <2>4, Beginning
       DEF ReadToDeleteEmployee, LeaveSteps, Carried, StockHolding
  <2> QED
    BY <1>1, <2>1, <2>2, <2>3, <2>4
       DEF LeaveRequest
<1>2. ASSUME NEW s \in Slots, LeaveStep(s) PROVE Handles(LeaveSteps)
  <2>1. CASE InsertLeave(s) \/ UpdateLeave(s) \/ DeleteLeave(s)
    BY <1>2, <2>1, Continuing, Finishing
       DEF InsertLeave, UpdateLeave, DeleteLeave, At, LeaveSteps, Carried,
           StockHolding
  <2>2. CASE UpdateEmployee(s) \/ DeleteEmployee(s) \/ FailLeave(s)
    BY <1>2, <2>2, Continuing, Finishing
       DEF UpdateEmployee, DeleteEmployee, FailLeave, At, LeaveSteps, Carried,
           StockHolding
  <2> QED
    BY <1>2, <2>1, <2>2
       DEF LeaveStep
<1> QED
  BY <1>1, <1>2
     DEF LeaveNext, Free

ExpenseSteps ==
  {"expense.update", "expense.writeStatus", "expense.post", "expense.delete"}

\* Expense reports.
LEMMA ExpensesHandle == HandlersInv /\ ExpensesNext => Handles(ExpenseSteps)
<1> SUFFICES ASSUME HandlersInv, ExpensesNext PROVE Handles(ExpenseSteps)
  OBVIOUS
<1>1. ASSUME NEW s \in Slots, At(s, "idle"), ExpensesRequest(s) PROVE Handles(ExpenseSteps)
  <2>1. ASSUME NEW x, ReadReportToUpdate(s, x) \/ ReadReportToSetStatus(s, x)
       PROVE  Handles(ExpenseSteps)
    BY <1>1, <2>1, Beginning
       DEF ReadReportToUpdate, ReadReportToSetStatus, ExpenseSteps, Carried,
           StockHolding
  <2>2. CASE ReadReportToDelete(s)
    BY <1>1, <2>2, Beginning
       DEF ReadReportToDelete, ExpenseSteps, Carried, StockHolding
  <2> QED
    BY <1>1, <2>1, <2>2
       DEF ExpensesRequest
<1>2. ASSUME NEW s \in Slots, ExpensesStep(s) PROVE Handles(ExpenseSteps)
  <2>1. CASE UpdateReport(s) \/ WriteReportStatus(s) \/ PostExpense(s)
    BY <1>2, <2>1, Continuing, Finishing
       DEF UpdateReport, WriteReportStatus, PostExpense, At, ExpenseSteps, Carried,
           StockHolding
  <2>2. CASE DeleteReport(s) \/ FailExpense(s)
    BY <1>2, <2>2, Continuing, Finishing
       DEF DeleteReport, FailExpense, At, ExpenseSteps, Carried, StockHolding
  <2> QED
    BY <1>2, <2>1, <2>2
       DEF ExpensesStep
<1>3. ASSUME NEW n, CreateReport(n) PROVE Handles(ExpenseSteps)
  BY <1>3, Happening
     DEF CreateReport
<1> QED
  BY <1>1, <1>2, <1>3
     DEF ExpensesNext, Free

FileSteps ==
  {"file.put", "file.row", "file.insertClaim", "file.replaceLines", "file.owner",
   "file.link"}

\* Attachments.
LEMMA FilesHandle == HandlersInv /\ AttachmentsNext => Handles(FileSteps)
<1> SUFFICES ASSUME HandlersInv, AttachmentsNext PROVE Handles(FileSteps)
  OBVIOUS
<1>1. ASSUME NEW s \in Slots, At(s, "idle"), FilesRequest(s) PROVE Handles(FileSteps)
  <2>1. ASSUME NEW person, NEW f, BeginUpload(s, person, f) \/ ReadRow(s, person, f)
       PROVE  Handles(FileSteps)
    BY <1>1, <2>1, Beginning
       DEF BeginUpload, ReadRow, FileSteps, Carried, StockHolding
  <2>2. ASSUME NEW person, NEW c, NEW receipts,
               ReadToFile(s, person, c, receipts) \/ ReadToEdit(s, person, c, receipts)
       PROVE  Handles(FileSteps)
    BY <1>1, <2>2, Beginning
       DEF ReadToFile, ReadToEdit, FileSteps, Carried, StockHolding
  <2> QED
    BY <1>1, <2>1, <2>2
       DEF FilesRequest
<1>2. ASSUME NEW s \in Slots, FilesStep(s) PROVE Handles(FileSteps)
  <2>1. CASE Put(s)
    BY <1>2, <2>1, GoingOn, Finishing DEF Put, At, FileSteps, StockHolding
  <2>2. CASE InsertRow(s) \/ ReplaceLines(s) \/ SignLink(s)
    BY <1>2, <2>2, Continuing, Finishing
       DEF InsertRow, ReplaceLines, SignLink, At, FileSteps, Carried, StockHolding
  <2>3. ASSUME NEW c, InsertClaim(s, c) PROVE Handles(FileSteps)
    BY <1>2, <2>3, Continuing, Finishing
       DEF InsertClaim, At, FileSteps, Carried, StockHolding
  <2>4. CASE FindOwner(s)
    BY <1>2, <2>4, GoingOn, Finishing DEF FindOwner, At, FileSteps, StockHolding
  <2> QED
    BY <1>2, <2>1, <2>2, <2>3, <2>4
       DEF FilesStep
<1>3. ASSUME NEW c, DeleteClaim(c) PROVE Handles(FileSteps)
  BY <1>3, Happening
     DEF DeleteClaim
<1> QED
  BY <1>1, <1>2, <1>3
     DEF AttachmentsNext, Free

ProjectSteps ==
  {"project.write", "task.insert", "task.write", "task.delete", "task.rollUp",
   "task.progress", "hours.insert", "hours.write", "hours.sync", "hours.store"}

\* Projects, tasks and hours.
LEMMA ProjectsHandle == HandlersInv /\ ProjectsNext => Handles(ProjectSteps)
<1> SUFFICES ASSUME HandlersInv, ProjectsNext PROVE Handles(ProjectSteps)
  OBVIOUS
<1>1. ASSUME NEW s \in Slots, At(s, "idle"), ProjectsRequest(s) PROVE Handles(ProjectSteps)
  <2>1. ASSUME NEW j, NEW x, ReadProjectToUpdate(s, j, x) \/ ReadProjectToSetStatus(s, j, x)
       PROVE  Handles(ProjectSteps)
    BY <1>1, <2>1, Beginning
       DEF ReadProjectToUpdate, ReadProjectToSetStatus, ProjectSteps, Carried,
           StockHolding
  <2>2. ASSUME NEW x, NEW y, ReadToCreateTask(s, x, y) \/ ReadTaskToMove(s, x, y)
       PROVE  Handles(ProjectSteps)
    BY <1>1, <2>2, Beginning
       DEF ReadToCreateTask, ReadTaskToMove, ProjectSteps, Carried, StockHolding
  <2>3. ASSUME NEW t, NEW x, ReadTaskToReport(s, t, x) \/ ReadTaskToSetStatus(s, t, x)
       PROVE  Handles(ProjectSteps)
    BY <1>1, <2>3, Beginning
       DEF ReadTaskToReport, ReadTaskToSetStatus, ProjectSteps, Carried, StockHolding
  <2>4. ASSUME NEW x, ReadTaskToDelete(s, x) \/ ReadEntryToDelete(s, x)
       PROVE  Handles(ProjectSteps)
    BY <1>1, <2>4, Beginning
       DEF ReadTaskToDelete, ReadEntryToDelete, ProjectSteps, Carried, StockHolding
  <2>5. ASSUME NEW x, NEW n, ReadToLogHours(s, x, n) \/ ReadEntryToUpdate(s, x, n)
       PROVE  Handles(ProjectSteps)
    BY <1>1, <2>5, Beginning
       DEF ReadToLogHours, ReadEntryToUpdate, ProjectSteps, Carried, StockHolding
  <2> QED
    BY <1>1, <2>1, <2>2, <2>3, <2>4, <2>5
       DEF ProjectsRequest, ProjectRequest, TaskRequest, HoursRequest
<1>2. ASSUME NEW s \in Slots, ProjectsStep(s) PROVE Handles(ProjectSteps)
  <2>1. CASE WriteProject(s) \/ UpdateTask(s) \/ DeleteTask(s)
    BY <1>2, <2>1, Continuing, Finishing
       DEF WriteProject, UpdateTask, DeleteTask, At, ProjectSteps, Carried,
           StockHolding
  <2>2. ASSUME NEW x, InsertTask(s, x) \/ InsertEntry(s, x) PROVE Handles(ProjectSteps)
    BY <1>2, <2>2, Continuing, Finishing
       DEF InsertTask, InsertEntry, At, ProjectSteps, Carried, StockHolding
  <2>3. CASE ReadProgress(s) \/ WriteProgress(s)
    BY <1>2, <2>3, Continuing, Finishing
       DEF ReadProgress, WriteProgress, At, ProjectSteps, Carried, StockHolding
  <2>4. CASE WriteEntry(s) \/ SyncHours(s) \/ StoreHours(s)
    BY <1>2, <2>4, Continuing, Finishing
       DEF WriteEntry, SyncHours, StoreHours, At, ProjectSteps, Carried, StockHolding
  <2> QED
    BY <1>2, <2>1, <2>2, <2>3, <2>4
       DEF ProjectsStep
<1>3. ASSUME NEW j, CreateProject(j) \/ DeleteProject(j) PROVE Handles(ProjectSteps)
  BY <1>3, Happening
     DEF CreateProject, DeleteProject
<1> QED
  BY <1>1, <1>2, <1>3
     DEF ProjectsNext, Free

ChartSteps ==
  {"account.insert", "account.write", "account.delete", "account.enter"}

\* The chart of accounts.
LEMMA ChartHandles == HandlersInv /\ ChartNext => Handles(ChartSteps)
<1> SUFFICES ASSUME HandlersInv, ChartNext PROVE Handles(ChartSteps)
  OBVIOUS
<1>1. ASSUME NEW s \in Slots, At(s, "idle"), ChartRequest(s) PROVE Handles(ChartSteps)
  <2>1. ASSUME NEW x, ReadToOpenAccount(s, x) \/ ReadToCloseAccount(s, x)
       PROVE  Handles(ChartSteps)
    BY <1>1, <2>1, Beginning
       DEF ReadToOpenAccount, ReadToCloseAccount, ChartSteps, Carried, StockHolding
  <2>2. ASSUME NEW a, NEW x,
               ReadToMoveAccount(s, a, x) \/ ReadToEnter(s, a, x) \/ ReadToSetActive(s, a, x)
       PROVE  Handles(ChartSteps)
    BY <1>1, <2>2, Beginning
       DEF ReadToMoveAccount, ReadToEnter, ReadToSetActive, ChartSteps, Carried,
           StockHolding
  <2> QED
    BY <1>1, <2>1, <2>2
       DEF ChartRequest
<1>2. ASSUME NEW s \in Slots, ChartStep(s) PROVE Handles(ChartSteps)
  <2>1. ASSUME NEW a, InsertAccount(s, a) PROVE Handles(ChartSteps)
    BY <1>2, <2>1, Continuing, Finishing
       DEF InsertAccount, At, ChartSteps, Carried, StockHolding
  <2>2. CASE UpdateAccount(s) \/ DeleteAccount(s) \/ InsertLedgerEntry(s)
    BY <1>2, <2>2, Continuing, Finishing
       DEF UpdateAccount, DeleteAccount, InsertLedgerEntry, At, ChartSteps, Carried,
           StockHolding
  <2> QED
    BY <1>2, <2>1, <2>2
       DEF ChartStep
<1> QED
  BY <1>1, <1>2
     DEF ChartNext, Free

RateSteps == {"rate.delete"}

\* Documents in other currencies, and the rates they are restated at.
LEMMA AmountsHandle == HandlersInv /\ AmountsNext => Handles(RateSteps)
<1> SUFFICES ASSUME HandlersInv, AmountsNext PROVE Handles(RateSteps)
  OBVIOUS
<1>1. ASSUME NEW s \in Slots, At(s, "idle"), RateRequest(s) PROVE Handles(RateSteps)
  BY <1>1, Beginning DEF RateRequest, ReadToDeleteRate, RateSteps, Carried, StockHolding
<1>2. ASSUME NEW s \in Slots, DeleteRate(s) PROVE Handles(RateSteps)
  BY <1>2, Finishing DEF DeleteRate, At, RateSteps
<1>3. CASE Documents
  <2>1. ASSUME NEW foreign, NEW terms, NEW d, RaiseOrder(foreign, terms, d)
        PROVE  Handles(RateSteps)
    BY <2>1, Happening DEF RaiseOrder
  <2>2. ASSUME NEW i, NEW quantity, Credit(i, quantity) PROVE Handles(RateSteps)
    BY <2>2, Happening DEF Credit
  <2>3. ASSUME NEW quantity, NEW d, NEW rate, RaiseInvoice(quantity, d, rate)
        PROVE  Handles(RateSteps)
    BY <2>3, Happening DEF RaiseInvoice
  <2>4. ASSUME NEW i, NEW amount, NEW d, NEW rate, Pay(i, amount, d, rate)
        PROVE  Handles(RateSteps)
    BY <2>4, Happening DEF Pay
  <2>5. ASSUME NEW p, Unpay(p) PROVE Handles(RateSteps)
    BY <2>5, Happening DEF Unpay
  <2> QED
    BY <1>3, <2>1, <2>2, <2>3, <2>4, <2>5 DEF Documents
<1>4. ASSUME NEW d, NEW rate, UpsertRate(d, rate) PROVE Handles(RateSteps)
  BY <1>4, Happening DEF UpsertRate
<1> QED
  BY <1>1, <1>2, <1>3, <1>4 DEF AmountsNext, Free

\* A movement or a release begins with a line to release, or with none.
LEMMA BeginMoveHandles ==
  ASSUME NEW s \in Slots, NEW request, NEW begun \in StockSteps, NEW line, NEW move,
         HandlersInv, At(s, "idle"), BeginMove(s, request, begun, line, move),
         "next" \in DOMAIN line, line.next = "stock.check"
  PROVE  Handles(StockSteps)
BY Beginning DEF BeginMove, Carried

\* The locals that are carried from a line that was found holding something.
LEMMA HoldingGoesOn ==
  ASSUME NEW x, Carried(x), x.step = "stock.release", NEW quantity, NEW w
  PROVE  LET y == [x EXCEPT !.step = "stock.giveBack", !.hold.quantity = quantity,
                            !.hold.at = w]
         IN  Carried(y) /\ y.step = "stock.giveBack"
<1>1. PICK a : a = [x EXCEPT !.step = "stock.giveBack"]
  OBVIOUS
<1>2. PICK b : b = [a EXCEPT !.hold.quantity = quantity]
  OBVIOUS
<1>3. PICK c : c = [b EXCEPT !.hold.at = w]
  OBVIOUS
<1>4. [x EXCEPT !.step = "stock.giveBack", !.hold.quantity = quantity, !.hold.at = w] = c
  BY <1>1, <1>2, <1>3, Zenon
<1>5. a.step = "stock.giveBack" /\ Carried(a)
  BY <1>1 DEF Carried, StockHolding
<1>6. b.step = "stock.giveBack" /\ Carried(b)
  BY <1>2, <1>5 DEF Carried, StockHolding
<1>7. c.step = "stock.giveBack" /\ Carried(c)
  BY <1>3, <1>6 DEF Carried, StockHolding
<1> QED
  BY <1>4, <1>7, Zenon

\* The transactions of the stock repository.
LEMMA StockHandles == HandlersInv /\ StockNext => Handles(StockSteps)
<1> SUFFICES ASSUME HandlersInv, StockNext PROVE Handles(StockSteps)
  OBVIOUS
<1>1. ASSUME NEW s \in Slots, At(s, "idle"), StockRequest(s) PROVE Handles(StockSteps)
  <2>1. "next" \in DOMAIN NoLine /\ NoLine.next = "stock.check"
    BY DEF NoLine
  <2>2. ASSUME NEW l, NEW w, NEW n, BeginShip(s, l, w, n) PROVE Handles(StockSteps)
    <3>1. PICK a : a = [NoLine EXCEPT !.line = l]
      OBVIOUS
    <3>2. PICK b : b = [a EXCEPT !.quantity = n]
      OBVIOUS
    <3>3. b = [NoLine EXCEPT !.line = l, !.quantity = n]
      BY <3>1, <3>2, Zenon
    <3>4. "next" \in DOMAIN b /\ b.next = "stock.check"
      BY <2>1, <3>1, <3>2
    <3>5. BeginMove(s, "stock.ship", "stock.release", b, Move(w, NoWarehouse, -n, NamesNoCost))
      BY <2>2, <3>3, Zenon DEF BeginShip
    <3> QED
      BY <1>1, <3>4, <3>5, BeginMoveHandles DEF StockSteps
  <2>3. ASSUME NEW w, NEW n, NEW x,
               \/ BeginRemove(s, w, n) \/ BeginReturn(s, w, n, x)
               \/ BeginReceive(s, w, n, x) \/ BeginTransfer(s, w, x, n)
        PROVE  Handles(StockSteps)
    BY <1>1, <2>1, <2>3, BeginMoveHandles
       DEF BeginRemove, BeginReturn, BeginReceive, BeginTransfer, StockSteps
  <2>4. ASSUME NEW l, NEW w, NEW n, BeginReserve(s, l, w, n) PROVE Handles(StockSteps)
    BY <1>1, <2>4, Beginning DEF BeginReserve, StockSteps, Carried, StockHolding
  <2> QED
    BY <1>1, <2>2, <2>3, <2>4 DEF StockRequest
<1>2. ASSUME NEW s \in Slots, At(s, "idle"), NEW l, BeginRelease(s, l)
      PROVE  Handles(StockSteps)
  <2>1. PICK a : a = [NoLine EXCEPT !.line = l]
    OBVIOUS
  <2>2. PICK b : b = [a EXCEPT !.quantity = MaxQuantity]
    OBVIOUS
  <2>3. PICK c : c = [b EXCEPT !.next = "stock.commit"]
    OBVIOUS
  <2>4. c = [NoLine EXCEPT !.line = l, !.quantity = MaxQuantity, !.next = "stock.commit"]
    BY <2>1, <2>2, <2>3, Zenon
  <2>5. "next" \in DOMAIN c /\ c.next = "stock.commit"
    BY <2>1, <2>2, <2>3 DEF NoLine
  <2>6. Begin(s, "stock.free", [step |-> "stock.release", hold |-> c])
    BY <1>2, <2>4, Zenon DEF BeginRelease
  <2> QED
    BY <1>2, <2>5, <2>6, Beginning DEF StockSteps, Carried, StockHolding
<1>3. ASSUME NEW s \in Slots, StockStep(s) PROVE Handles(StockSteps)
  <2>1. ASSUME At(s, "stock.release") \/ At(s, "stock.giveBack"), GoTo(s, slot[s].hold.next)
        PROVE  Handles(StockSteps)
    <3>1. slot[s].hold.next \in {"stock.check", "stock.commit"}
      BY <2>1 DEF HandlersInv, Carried, At, StockHolding
    <3> QED
      BY <2>1, <3>1, GoingOn DEF GoTo, At, StockSteps, StockHolding
  <2>2. CASE ReleaseLine(s)
    <3>1. CASE GoTo(s, slot[s].hold.next)
      BY <2>1, <2>2, <3>1 DEF ReleaseLine
    <3>2. ASSUME NEW n, NEW w,
                 Continue(s, [slot[s] EXCEPT !.step = "stock.giveBack",
                                !.hold.quantity = n, !.hold.at = w])
          PROVE  Handles(StockSteps)
      <4>1. Carried(slot[s]) /\ slot[s].step = "stock.release"
        BY <2>2 DEF HandlersInv, ReleaseLine, At
      <4> QED
        BY <3>2, <4>1, HoldingGoesOn, Continuing DEF StockSteps
    <3> QED
      BY <2>2, <3>1, <3>2 DEF ReleaseLine
  <2>3. CASE GiveBack(s)
    BY <2>1, <2>3 DEF GiveBack
  <2>4. CASE Check(s) \/ MoveAverage(s)
    BY <2>4, GoingOn, Finishing
       DEF Check, MoveAverage, Refuse, GoTo, At, StockSteps, StockHolding
  <2>5. CASE AdjustLevel(s) \/ AdjustDestination(s)
    BY <2>5, GoingOn DEF AdjustLevel, AdjustDestination, GoTo, At, StockSteps, StockHolding
  <2>6. ASSUME NEW step,
               step \notin StockHolding, step \in StockSteps, slot[s].step \in StockSteps,
               NEW field, NEW n, field # "step",
               Continue(s, [[slot[s] EXCEPT !.step = step] EXCEPT ![field] = n])
        PROVE  Handles(StockSteps)
    <3>1. PICK a : a = [slot[s] EXCEPT !.step = step]
      OBVIOUS
    <3>2. Carried(a) /\ a.step = step
      BY <2>6, <3>1, WithStep DEF HandlersInv
    <3>3. PICK b : b = [a EXCEPT ![field] = n]
      OBVIOUS
    <3>4. Carried(b) /\ b.step = step
      BY <2>6, <3>2, <3>3 DEF Carried
    <3> QED
      BY <2>6, <3>1, <3>3, <3>4, Continuing
  <2>7. CASE SumOnHand(s)
    BY <2>6, <2>7 DEF SumOnHand, At, StockSteps, StockHolding
  <2>8. CASE LockToReserve(s)
    BY <2>6, <2>8, Finishing DEF LockToReserve, Refuse, At, StockSteps, StockHolding
  <2>9. CASE InsertHold(s) \/ Commit(s)
    BY <2>9, GoingOn, Finishing
       DEF InsertHold, Commit, Refuse, GoTo, At, StockSteps, StockHolding
  <2>10. CASE EndDeadlock(s)
    <3>1. slot[s].step \in StockSteps
      BY <2>10 DEF EndDeadlock, WaitsFor, Wants, At, StockSteps
    <3> QED
      BY <2>10, <3>1, Finishing DEF EndDeadlock, Refuse
  <2> QED
    BY <1>3, <2>2, <2>3, <2>4, <2>5, <2>7, <2>8, <2>9, <2>10 DEF StockStep
<1>4. ASSUME NEW l, LineDeleted(l) PROVE Handles(StockSteps)
  BY <1>4, Happening DEF LineDeleted
<1> QED
  BY <1>1, <1>2, <1>3, <1>4 DEF StockNext, Free

SessionSteps ==
  {"session.refresh", "password.replace", "password.issue", "reset.spend",
   "reset.replace", "reset.expireAll"}

\* Sessions and the resets of passwords.
LEMMA SessionsHandle == HandlersInv /\ SessionsNext => Handles(SessionSteps)
<1> SUFFICES ASSUME HandlersInv, SessionsNext PROVE Handles(SessionSteps)
  OBVIOUS
<1>1. ASSUME NEW s \in Slots, At(s, "idle"), SessionsRequest(s) PROVE Handles(SessionSteps)
  <2>1. ASSUME NEW x, ReadDenylist(s, x) \/ ReadToReset(s, x)
       PROVE  Handles(SessionSteps)
    BY <1>1, <2>1, Beginning
       DEF ReadDenylist, ReadToReset, SessionSteps, Carried, StockHolding
  <2>2. CASE ReadToChange(s)
    BY <1>1, <2>2, Beginning
       DEF ReadToChange, SessionSteps, Carried, StockHolding
  <2> QED
    BY <1>1, <2>1, <2>2
       DEF SessionsRequest
<1>2. ASSUME NEW s \in Slots, SessionsStep(s) PROVE Handles(SessionSteps)
  <2>1. CASE IssueRefreshed(s) \/ RefuseRefresh(s) \/ IssueChanged(s)
    BY <1>2, <2>1, Continuing, Finishing
       DEF IssueRefreshed, RefuseRefresh, IssueChanged, At, SessionSteps, Carried,
           StockHolding
  <2>2. CASE WriteChanged(s) \/ WriteReset(s) \/ MarkUsed(s)
    BY <1>2, <2>2, Continuing, Finishing
       DEF WriteChanged, WriteReset, MarkUsed, At, SessionSteps, Carried, StockHolding
  <2>3. CASE RefuseReset(s) \/ ExpireAllLinks(s)
    BY <1>2, <2>3, Continuing, Finishing
       DEF RefuseReset, ExpireAllLinks, At, SessionSteps, Carried, StockHolding
  <2> QED
    BY <1>2, <2>1, <2>2, <2>3
       DEF SessionsStep
<1>3. ASSUME NEW x, LogOut(x) \/ Forgot(x) \/ LinkLapses(x) PROVE Handles(SessionSteps)
  BY <1>3, Happening
     DEF LogOut, Forgot, LinkLapses
<1>4. CASE LogIn \/ SetActive \/ Tick
  BY <1>4, Happening DEF LogIn, SetActive, Tick
<1> QED
  BY <1>1, <1>2, <1>3, <1>4 DEF SessionsNext, Free

UserSteps ==
  {"user.insert", "user.welcome", "user.update", "verify.spend", "verify.mark",
   "verify.expireAll"}

\* Users and the verification of their addresses.
LEMMA UsersHandle == HandlersInv /\ UsersNext => Handles(UserSteps)
<1> SUFFICES ASSUME HandlersInv, UsersNext PROVE Handles(UserSteps)
  OBVIOUS
<1>1. ASSUME NEW s \in Slots, At(s, "idle"), UsersRequest(s) PROVE Handles(UserSteps)
  <2>1. ASSUME NEW p, ReadToRegister(s, p) PROVE Handles(UserSteps)
    BY <1>1, <2>1, Beginning
       DEF ReadToRegister, UserSteps, Carried, StockHolding
  <2>2. ASSUME NEW p, ReadToUpdateProfile(s, p) \/ ReadToVerify(s, p)
       PROVE  Handles(UserSteps)
    BY <1>1, <2>2, Beginning
       DEF ReadToUpdateProfile, ReadToVerify, UserSteps, Carried, StockHolding
  <2>3. ASSUME NEW a, NEW p, NEW x,
               ReadUserToSetRole(s, a, p, x) \/ ReadUserToSetStatus(s, a, p, x)
       PROVE  Handles(UserSteps)
    BY <1>1, <2>3, Beginning
       DEF ReadUserToSetRole, ReadUserToSetStatus, UserSteps, Carried, StockHolding
  <2> QED
    BY <1>1, <2>1, <2>2, <2>3
       DEF UsersRequest
<1>2. ASSUME NEW s \in Slots, UsersStep(s) PROVE Handles(UserSteps)
  <2>1. CASE InsertUser(s) \/ Welcome(s) \/ UpdateUser(s)
    BY <1>2, <2>1, Continuing, Finishing
       DEF InsertUser, Welcome, UpdateUser, At, UserSteps, Carried, StockHolding
  <2>2. CASE SpendVerification(s) \/ MarkEmailVerified(s) \/ ExpireVerifications(s)
    BY <1>2, <2>2, Continuing, Finishing
       DEF SpendVerification, MarkEmailVerified, ExpireVerifications, At, UserSteps,
           Carried, StockHolding
  <2> QED
    BY <1>2, <2>1, <2>2
       DEF UsersStep
<1>3. ASSUME NEW p, NEW x, TakeBadge(p) \/ ResendVerification(p) \/ BadgeLapses(p, x)
     PROVE  Handles(UserSteps)
  BY <1>3, Happening
     DEF TakeBadge, ResendVerification, BadgeLapses
<1> QED
  BY <1>1, <1>2, <1>3
     DEF UsersNext, Free

-----------------------------------------------------------------------------
(* What the other parts may do to the handlers of one *)

\* Handlers at these steps stay where they are, unless they are dropped, and
\* none gets there.
Elsewhere(steps) ==
  /\ disturbed => disturbed'
  /\ \A s \in Slots : slot'[s].step \in steps => slot'[s] = slot[s]
  /\ \A s \in Slots : slot[s].step \in steps => slot'[s] = slot[s] \/ disturbed'

\* A part whose steps are others is elsewhere.
LEMMA OthersElsewhere ==
  ASSUME NEW mine, NEW others, HandlersInv, Handles(others),
         \A step \in mine : step \notin others /\ step # "idle"
  PROVE  Elsewhere(mine)
<1>1. CASE slot' = slot
  BY <1>1 DEF Handles, Elsewhere
<1>2. ASSUME NEW r \in Slots, slot' = [slot EXCEPT ![r] = slot'[r]],
             slot'[r].step \in others \cup {"idle"},
             At(r, "idle") \/ slot[r].step \in others
      PROVE  Elsewhere(mine)
  <2>1. \A s \in Slots \ {r} : slot'[s] = slot[s]
    BY <1>2 DEF HandlersInv
  <2> QED
    BY <1>2, <2>1 DEF Handles, Elsewhere, At
<1> QED
  BY <1>1, <1>2 DEF Handles

\* A part that handles its own requests keeps what every part relies on.
LEMMA HandlesInv ==
  ASSUME NEW steps, HandlersInv, Handles(steps), "idle" \notin steps
  PROVE  HandlersInv'
<1>1. CASE slot' = slot
  BY <1>1 DEF Handles, HandlersInv, InTurn, OneBusy, At
<1>2. ASSUME NEW s \in Slots, slot' = [slot EXCEPT ![s] = slot'[s]], Carried(slot'[s]),
             \/ At(s, "idle") /\ (disturbed' \/ \A r \in Slots \ {s} : At(r, "idle"))
             \/ slot[s].step \in steps /\ (disturbed' <=> disturbed)
      PROVE  HandlersInv'
  <2>1. \A r \in Slots \ {s} : slot'[r] = slot[r]
    BY <1>2 DEF HandlersInv
  <2>2. slot' = [r \in Slots |-> slot'[r]]
    BY <1>2 DEF HandlersInv
  <2>3. \A r \in Slots : Carried(slot'[r])
    BY <1>2, <2>1 DEF HandlersInv
  <2>4. ~disturbed' => \A r \in Slots \ {s} : At(r, "idle")
    BY <1>2 DEF HandlersInv, Handles, InTurn, OneBusy, At
  <2>5. InTurn' => OneBusy'
    BY <2>1, <2>4 DEF InTurn, OneBusy, At
  <2> QED
    BY <2>2, <2>3, <2>5 DEF HandlersInv, Carried
<1> QED
  BY <1>1, <1>2 DEF Handles

\* A handler is dropped.
LEMMA DroppedHandler ==
  ASSUME HandlersInv, Dropped
  PROVE  HandlersInv' /\ disturbed' /\ \A steps : "idle" \notin steps => Elsewhere(steps)
<1>1. PICK s \in Slots : slot' = [slot EXCEPT ![s] = Idle] /\ disturbed' = TRUE
  BY DEF Dropped, Abandon
<1>2. /\ \A r \in Slots \ {s} : slot'[r] = slot[r]
      /\ slot'[s] = Idle
      /\ slot' = [r \in Slots |-> slot'[r]]
  BY <1>1 DEF HandlersInv
<1>3. Carried(Idle) /\ Idle.step = "idle"
  BY DEF Carried, Idle, StockHolding
<1>4. HandlersInv'
  BY <1>1, <1>2, <1>3 DEF HandlersInv, Carried, InTurn
<1> QED
  BY <1>1, <1>2, <1>3, <1>4 DEF Elsewhere

-----------------------------------------------------------------------------
(* The steps of the service *)

GoodsSteps == PurchasingSteps \cup StockSteps \cup QuoteSteps
StaffSteps == LeaveSteps \cup ExpenseSteps \cup FileSteps
WorkSteps == ProjectSteps \cup ChartSteps

\* The steps of all parts that are not about accounts.
OtherSteps == GoodsSteps \cup StaffSteps \cup WorkSteps \cup RateSteps

\* A part's handlers are among those of several.
LEMMA AmongOthers ==
  ASSUME NEW steps, NEW more, steps \subseteq more, Handles(steps)
  PROVE  Handles(more)
BY DEF Handles

\* No two parts have a step in common.
LEMMA StepsApart ==
  /\ \A step \in SessionSteps : step \notin UserSteps \cup OtherSteps /\ step # "idle"
  /\ \A step \in UserSteps : step \notin SessionSteps \cup OtherSteps /\ step # "idle"
  /\ "idle" \notin OtherSteps
BY DEF SessionSteps, UserSteps, OtherSteps, GoodsSteps, StaffSteps, WorkSteps, PurchasingSteps,
       StockSteps, QuoteSteps, LeaveSteps, ExpenseSteps, FileSteps, ProjectSteps, ChartSteps,
       RateSteps

\* What moves goods moves handlers of one of its parts.
LEMMA GoodsHandle ==
  ASSUME HandlersInv, GoodsNext
  PROVE  Handles(GoodsSteps) /\ (Handles(PurchasingSteps \cup StockSteps) \/ QuotesNext)
<1>1. CASE StockMoves
  BY <1>1, Happening DEF StockMoves
<1>2. CASE StockNext
  BY <1>2, StockHandles, AmongOthers DEF GoodsSteps
<1>3. CASE PurchasingNext
  BY <1>3, PurchasingHandles, AmongOthers DEF GoodsSteps
<1>4. CASE QuotesNext
  BY <1>4, QuotesHandle, AmongOthers DEF GoodsSteps
<1> QED
  BY <1>1, <1>2, <1>3, <1>4 DEF GoodsNext

\* So does what is about the staff.
LEMMA StaffHandle ==
  ASSUME HandlersInv, StaffNext
  PROVE  /\ Handles(StaffSteps)
         /\ Handles(ExpenseSteps \cup FileSteps) \/ LeaveNext
         /\ Handles(LeaveSteps \cup FileSteps) \/ ExpensesNext
         /\ Handles(LeaveSteps \cup ExpenseSteps) \/ AttachmentsNext
<1>1. CASE LeaveNext
  BY <1>1, LeaveHandles, AmongOthers DEF StaffSteps
<1>2. CASE ExpensesNext
  BY <1>2, ExpensesHandle, AmongOthers DEF StaffSteps
<1>3. CASE AttachmentsNext
  BY <1>3, FilesHandle, AmongOthers DEF StaffSteps
<1> QED
  BY <1>1, <1>2, <1>3 DEF StaffNext

\* And what is about projects and the chart of accounts.
LEMMA WorkHandles ==
  ASSUME HandlersInv, WorkNext
  PROVE  Handles(WorkSteps)
<1>1. CASE ProjectsNext
  BY <1>1, ProjectsHandle, AmongOthers DEF WorkSteps
<1>2. CASE ChartNext
  BY <1>2, ChartHandles, AmongOthers DEF WorkSteps
<1> QED
  BY <1>1, <1>2 DEF WorkNext

\* What is about accounts.
LEMMA AccountsHandle ==
  ASSUME HandlersInv, AccountsNext
  PROVE  Handles(SessionSteps \cup UserSteps)
BY SessionsHandle, UsersHandle, AmongOthers DEF AccountsNext

\* Whatever the other parts do, they do to handlers of their own.
LEMMA OthersHandle ==
  ASSUME HandlersInv,
         GoodsNext \/ StaffNext \/ WorkNext \/ AmountsNext
  PROVE  Handles(OtherSteps)
<1>1. CASE GoodsNext
  BY <1>1, GoodsHandle, AmongOthers DEF OtherSteps
<1>2. CASE StaffNext
  BY <1>2, StaffHandle, AmongOthers DEF OtherSteps
<1>3. CASE WorkNext
  BY <1>3, WorkHandles, AmongOthers DEF OtherSteps
<1>4. CASE AmountsNext
  BY <1>4, AmountsHandle, AmongOthers DEF OtherSteps
<1> QED
  BY <1>1, <1>2, <1>3, <1>4

\* Every step of the service keeps what its parts rely on.
LEMMA HandlersNext == HandlersInv /\ [ServiceNext]_ServiceVars => HandlersInv'
<1> SUFFICES ASSUME HandlersInv, [ServiceNext]_ServiceVars PROVE HandlersInv'
  OBVIOUS
<1>1. CASE AccountsNext
  <2>1. CASE SessionsNext
    BY <2>1, SessionsHandle, HandlesInv, StepsApart
  <2>2. CASE UsersNext
    BY <2>2, UsersHandle, HandlesInv, StepsApart
  <2> QED
    BY <1>1, <2>1, <2>2 DEF AccountsNext
<1>2. CASE GoodsNext \/ StaffNext \/ WorkNext \/ AmountsNext
  BY <1>2, OthersHandle, HandlesInv, StepsApart
<1>3. CASE Dropped
  BY <1>3, DroppedHandler
<1>4. CASE UNCHANGED ServiceVars
  BY <1>4 DEF ServiceVars, requestVars, HandlersInv, InTurn, OneBusy, At
<1> QED
  BY <1>1, <1>2, <1>3, <1>4 DEF ServiceNext

\* The service begins with no request in flight.
LEMMA HandlersAlways == ServiceSpec => []HandlersInv
<1>1. ServiceInit => HandlersInv
  BY DEF ServiceInit, RequestsInit, HandlersInv, Carried, OneBusy, At, Idle, StockHolding
<1> QED
  BY <1>1, HandlersNext, PTL DEF ServiceSpec

\* What happens to the rows of sessions, and to the handlers at their steps,
\* when it is no step of theirs.
LEMMA NotSessions ==
  ASSUME HandlersInv, [ServiceNext]_ServiceVars
  PROVE  SessionsNext \/ (UNCHANGED sessionVars /\ Elsewhere(SessionSteps))
<1>1. CASE AccountsNext
  BY <1>1, UsersHandle, OthersElsewhere, StepsApart DEF AccountsNext
<1>2. CASE /\ GoodsNext \/ StaffNext \/ WorkNext \/ AmountsNext
           /\ UNCHANGED accountRows
  BY <1>2, OthersHandle, OthersElsewhere, StepsApart DEF accountRows
<1>3. CASE Dropped
  BY <1>3, DroppedHandler, StepsApart DEF Dropped, accountRows
<1>4. CASE UNCHANGED ServiceVars
  BY <1>4 DEF ServiceVars, requestVars, accountRows, Elsewhere
<1> QED
  BY <1>1, <1>2, <1>3, <1>4 DEF ServiceNext

\* The same for users.
LEMMA NotUsers ==
  ASSUME HandlersInv, [ServiceNext]_ServiceVars
  PROVE  UsersNext \/ (UNCHANGED userVars /\ Elsewhere(UserSteps))
<1>1. CASE AccountsNext
  BY <1>1, SessionsHandle, OthersElsewhere, StepsApart DEF AccountsNext
<1>2. CASE /\ GoodsNext \/ StaffNext \/ WorkNext \/ AmountsNext
           /\ UNCHANGED accountRows
  BY <1>2, OthersHandle, OthersElsewhere, StepsApart DEF accountRows
<1>3. CASE Dropped
  BY <1>3, DroppedHandler, StepsApart DEF Dropped, accountRows
<1>4. CASE UNCHANGED ServiceVars
  BY <1>4 DEF ServiceVars, requestVars, accountRows, Elsewhere
<1> QED
  BY <1>1, <1>2, <1>3, <1>4 DEF ServiceNext

\* The same for quotes.
LEMMA NotQuotes ==
  ASSUME HandlersInv, [ServiceNext]_ServiceVars
  PROVE  QuotesNext \/ (UNCHANGED quoteVars /\ Elsewhere(QuoteSteps))
<1>1. \A step \in QuoteSteps :
        /\ step \notin PurchasingSteps \cup StockSteps /\ step \notin SessionSteps \cup UserSteps
        /\ step \notin StaffSteps /\ step \notin WorkSteps /\ step \notin RateSteps
        /\ step # "idle"
  BY DEF SessionSteps, UserSteps, StaffSteps, WorkSteps, PurchasingSteps, StockSteps, QuoteSteps,
         LeaveSteps, ExpenseSteps, FileSteps, ProjectSteps, ChartSteps, RateSteps
<1>2. CASE GoodsNext
  BY <1>1, <1>2, GoodsHandle, OthersElsewhere DEF GoodsNext, StockMoves
<1>3. CASE AccountsNext /\ UNCHANGED goodsRows
  BY <1>1, <1>3, AccountsHandle, OthersElsewhere DEF goodsRows
<1>4. CASE StaffNext /\ UNCHANGED goodsRows
  BY <1>1, <1>4, StaffHandle, OthersElsewhere DEF goodsRows
<1>5. CASE WorkNext /\ UNCHANGED goodsRows
  BY <1>1, <1>5, WorkHandles, OthersElsewhere DEF goodsRows
<1>6. CASE AmountsNext /\ UNCHANGED goodsRows
  BY <1>1, <1>6, AmountsHandle, OthersElsewhere DEF goodsRows
<1>7. CASE Dropped
  BY <1>1, <1>7, DroppedHandler DEF Dropped
<1>8. CASE UNCHANGED ServiceVars
  BY <1>8 DEF ServiceVars, requestVars, goodsRows, Elsewhere
<1> QED
  BY <1>2, <1>3, <1>4, <1>5, <1>6, <1>7, <1>8 DEF ServiceNext

\* The same for expense reports.
LEMMA NotExpenses ==
  ASSUME HandlersInv, [ServiceNext]_ServiceVars
  PROVE  ExpensesNext \/ (UNCHANGED expenseVars /\ Elsewhere(ExpenseSteps))
<1>1. \A step \in ExpenseSteps :
        /\ step \notin LeaveSteps \cup FileSteps /\ step \notin SessionSteps \cup UserSteps
        /\ step \notin GoodsSteps /\ step \notin WorkSteps /\ step \notin RateSteps
        /\ step # "idle"
  BY DEF SessionSteps, UserSteps, GoodsSteps, WorkSteps, PurchasingSteps, StockSteps, QuoteSteps,
         LeaveSteps, ExpenseSteps, FileSteps, ProjectSteps, ChartSteps, RateSteps
<1>2. CASE StaffNext
  BY <1>1, <1>2, StaffHandle, OthersElsewhere DEF StaffNext
<1>3. CASE AccountsNext /\ UNCHANGED staffRows
  BY <1>1, <1>3, AccountsHandle, OthersElsewhere DEF staffRows
<1>4. CASE GoodsNext /\ UNCHANGED staffRows
  BY <1>1, <1>4, GoodsHandle, OthersElsewhere DEF staffRows
<1>5. CASE WorkNext /\ UNCHANGED staffRows
  BY <1>1, <1>5, WorkHandles, OthersElsewhere DEF staffRows
<1>6. CASE AmountsNext /\ UNCHANGED staffRows
  BY <1>1, <1>6, AmountsHandle, OthersElsewhere DEF staffRows
<1>7. CASE Dropped
  BY <1>1, <1>7, DroppedHandler DEF Dropped, staffRows
<1>8. CASE UNCHANGED ServiceVars
  BY <1>8 DEF ServiceVars, requestVars, staffRows, Elsewhere
<1> QED
  BY <1>2, <1>3, <1>4, <1>5, <1>6, <1>7, <1>8 DEF ServiceNext

\* The same for leave.
LEMMA NotLeave ==
  ASSUME HandlersInv, [ServiceNext]_ServiceVars
  PROVE  LeaveNext \/ (UNCHANGED leaveVars /\ Elsewhere(LeaveSteps))
<1>1. \A step \in LeaveSteps :
        /\ step \notin ExpenseSteps \cup FileSteps /\ step \notin SessionSteps \cup UserSteps
        /\ step \notin GoodsSteps /\ step \notin WorkSteps /\ step \notin RateSteps
        /\ step # "idle"
  BY DEF SessionSteps, UserSteps, GoodsSteps, WorkSteps, PurchasingSteps, StockSteps, QuoteSteps,
         LeaveSteps, ExpenseSteps, FileSteps, ProjectSteps, ChartSteps, RateSteps
<1>2. CASE StaffNext
  BY <1>1, <1>2, StaffHandle, OthersElsewhere DEF StaffNext
<1>3. CASE AccountsNext /\ UNCHANGED staffRows
  BY <1>1, <1>3, AccountsHandle, OthersElsewhere DEF staffRows
<1>4. CASE GoodsNext /\ UNCHANGED staffRows
  BY <1>1, <1>4, GoodsHandle, OthersElsewhere DEF staffRows
<1>5. CASE WorkNext /\ UNCHANGED staffRows
  BY <1>1, <1>5, WorkHandles, OthersElsewhere DEF staffRows
<1>6. CASE AmountsNext /\ UNCHANGED staffRows
  BY <1>1, <1>6, AmountsHandle, OthersElsewhere DEF staffRows
<1>7. CASE Dropped
  BY <1>1, <1>7, DroppedHandler DEF Dropped, staffRows
<1>8. CASE UNCHANGED ServiceVars
  BY <1>8 DEF ServiceVars, requestVars, staffRows, Elsewhere
<1> QED
  BY <1>2, <1>3, <1>4, <1>5, <1>6, <1>7, <1>8 DEF ServiceNext

\* The same for attachments.
LEMMA NotFiles ==
  ASSUME HandlersInv, [ServiceNext]_ServiceVars
  PROVE  AttachmentsNext \/ (UNCHANGED fileVars /\ Elsewhere(FileSteps))
<1>1. \A step \in FileSteps :
        /\ step \notin LeaveSteps \cup ExpenseSteps /\ step \notin SessionSteps \cup UserSteps
        /\ step \notin GoodsSteps /\ step \notin WorkSteps /\ step \notin RateSteps
        /\ step # "idle"
  BY DEF SessionSteps, UserSteps, GoodsSteps, WorkSteps, PurchasingSteps, StockSteps, QuoteSteps,
         LeaveSteps, ExpenseSteps, FileSteps, ProjectSteps, ChartSteps, RateSteps
<1>2. CASE StaffNext
  BY <1>1, <1>2, StaffHandle, OthersElsewhere DEF StaffNext
<1>3. CASE AccountsNext /\ UNCHANGED staffRows
  BY <1>1, <1>3, AccountsHandle, OthersElsewhere DEF staffRows
<1>4. CASE GoodsNext /\ UNCHANGED staffRows
  BY <1>1, <1>4, GoodsHandle, OthersElsewhere DEF staffRows
<1>5. CASE WorkNext /\ UNCHANGED staffRows
  BY <1>1, <1>5, WorkHandles, OthersElsewhere DEF staffRows
<1>6. CASE AmountsNext /\ UNCHANGED staffRows
  BY <1>1, <1>6, AmountsHandle, OthersElsewhere DEF staffRows
<1>7. CASE Dropped
  BY <1>1, <1>7, DroppedHandler DEF Dropped, staffRows
<1>8. CASE UNCHANGED ServiceVars
  BY <1>8 DEF ServiceVars, requestVars, staffRows, Elsewhere
<1> QED
  BY <1>2, <1>3, <1>4, <1>5, <1>6, <1>7, <1>8 DEF ServiceNext

\* The same for the chart of accounts.
LEMMA NotChart ==
  ASSUME HandlersInv, [ServiceNext]_ServiceVars
  PROVE  ChartNext \/ (UNCHANGED chartVars /\ Elsewhere(ChartSteps))
<1>1. \A step \in ChartSteps :
        /\ step \notin ProjectSteps /\ step \notin SessionSteps \cup UserSteps
        /\ step \notin GoodsSteps /\ step \notin StaffSteps /\ step \notin RateSteps
        /\ step # "idle"
  BY DEF SessionSteps, UserSteps, GoodsSteps, StaffSteps, PurchasingSteps, StockSteps, QuoteSteps,
         LeaveSteps, ExpenseSteps, FileSteps, ProjectSteps, ChartSteps, RateSteps
<1>2. CASE WorkNext
  BY <1>1, <1>2, ProjectsHandle, OthersElsewhere DEF WorkNext
<1>3. CASE AccountsNext /\ UNCHANGED workRows
  BY <1>1, <1>3, AccountsHandle, OthersElsewhere DEF workRows
<1>4. CASE GoodsNext /\ UNCHANGED workRows
  BY <1>1, <1>4, GoodsHandle, OthersElsewhere DEF workRows
<1>5. CASE StaffNext /\ UNCHANGED workRows
  BY <1>1, <1>5, StaffHandle, OthersElsewhere DEF workRows
<1>6. CASE AmountsNext /\ UNCHANGED workRows
  BY <1>1, <1>6, AmountsHandle, OthersElsewhere DEF workRows
<1>7. CASE Dropped
  BY <1>1, <1>7, DroppedHandler DEF Dropped, workRows
<1>8. CASE UNCHANGED ServiceVars
  BY <1>8 DEF ServiceVars, requestVars, workRows, Elsewhere
<1> QED
  BY <1>2, <1>3, <1>4, <1>5, <1>6, <1>7, <1>8 DEF ServiceNext

\* A handler stays where it is while other parts step.
LEMMA StaysPut ==
  ASSUME NEW mine, NEW others, HandlersInv, Handles(others),
         \A step \in mine : step \notin others /\ step # "idle"
  PROVE  /\ Elsewhere(mine) /\ agenda' = agenda
         /\ \A s \in Slots : slot[s].step \in mine => slot'[s] = slot[s]
<1>1. ASSUME NEW r \in Slots, slot' = [slot EXCEPT ![r] = slot'[r]],
             At(r, "idle") \/ slot[r].step \in others,
             NEW s \in Slots, slot[s].step \in mine
      PROVE  slot'[s] = slot[s]
  <2>1. s # r
    BY <1>1 DEF At
  <2> QED
    BY <1>1, <2>1 DEF HandlersInv
<1> QED
  BY <1>1, OthersElsewhere DEF Handles

\* The same for projects; and their handlers stay where they are, unless one is
\* dropped.
LEMMA NotProjects ==
  ASSUME HandlersInv, [ServiceNext]_ServiceVars
  PROVE  \/ ProjectsNext
         \/ /\ UNCHANGED projectVars /\ Elsewhere(ProjectSteps) /\ agenda' = agenda
            /\ \/ "client.drop" \in agenda
               \/ \A s \in Slots : slot[s].step \in ProjectSteps => slot'[s] = slot[s]
<1>1. \A step \in ProjectSteps :
        /\ step \notin ChartSteps /\ step \notin SessionSteps \cup UserSteps
        /\ step \notin GoodsSteps /\ step \notin StaffSteps /\ step \notin RateSteps
        /\ step # "idle"
  BY DEF SessionSteps, UserSteps, GoodsSteps, StaffSteps, PurchasingSteps, StockSteps, QuoteSteps,
         LeaveSteps, ExpenseSteps, FileSteps, ProjectSteps, ChartSteps, RateSteps
<1>2. CASE WorkNext
  BY <1>1, <1>2, ChartHandles, StaysPut DEF WorkNext
<1>3. CASE AccountsNext /\ UNCHANGED workRows
  BY <1>1, <1>3, AccountsHandle, StaysPut DEF workRows
<1>4. CASE GoodsNext /\ UNCHANGED workRows
  BY <1>1, <1>4, GoodsHandle, StaysPut DEF workRows
<1>5. CASE StaffNext /\ UNCHANGED workRows
  BY <1>1, <1>5, StaffHandle, StaysPut DEF workRows
<1>6. CASE AmountsNext /\ UNCHANGED workRows
  BY <1>1, <1>6, AmountsHandle, StaysPut DEF workRows
<1>7. CASE Dropped
  <2>1. "client.drop" \in agenda /\ agenda' = agenda
    BY <1>7 DEF Dropped, Abandon
  <2> QED
    BY <1>1, <1>7, <2>1, DroppedHandler DEF Dropped, workRows
<1>8. CASE UNCHANGED ServiceVars
  BY <1>8 DEF ServiceVars, requestVars, workRows, Elsewhere
<1> QED
  BY <1>2, <1>3, <1>4, <1>5, <1>6, <1>7, <1>8 DEF ServiceNext

\* In turn, no other part steps while a handler is at one of these.
LEMMA OthersWait ==
  ASSUME NEW mine, NEW others, HandlersInv, Handles(others),
         \A step \in mine : step \notin others /\ step # "idle", "idle" \notin others,
         NEW s \in Slots, slot[s].step \in mine
  PROVE  ~InTurn'
<1> SUFFICES ASSUME InTurn' PROVE FALSE
  OBVIOUS
<1>1. InTurn /\ OneBusy /\ ~At(s, "idle")
  BY DEF Handles, HandlersInv, InTurn, At
<1>2. ~(slot' = slot /\ (disturbed' \/ Quiet))
  BY <1>1 DEF Quiet, InTurn
<1>3. ASSUME NEW r \in Slots, At(r, "idle"), \A t \in Slots \ {r} : At(t, "idle") PROVE FALSE
  BY <1>1, <1>3
<1>4. ASSUME NEW r \in Slots, slot[r].step \in others PROVE FALSE
  <2>1. CASE r = s
    BY <1>4, <2>1
  <2>2. CASE r # s
    BY <1>1, <1>4, <2>2 DEF OneBusy, At
  <2> QED
    BY <2>1, <2>2
<1> QED
  BY <1>2, <1>3, <1>4 DEF Handles, InTurn

\* No part is at the step of a slot that is free.
LEMMA NoneIdle ==
  /\ "idle" \notin StockSteps /\ "idle" \notin QuoteSteps /\ "idle" \notin SessionSteps \cup UserSteps
  /\ "idle" \notin StaffSteps /\ "idle" \notin WorkSteps /\ "idle" \notin RateSteps
BY DEF SessionSteps, UserSteps, StaffSteps, WorkSteps, StockSteps, QuoteSteps,
       LeaveSteps, ExpenseSteps, FileSteps, ProjectSteps, ChartSteps, RateSteps

\* The same for purchasing; and while one of its handlers is in flight in turn,
\* nobody else touches the shelf.
LEMMA NotPurchasing ==
  ASSUME HandlersInv, [ServiceNext]_ServiceVars
  PROVE  \/ PurchasingNext
         \/ /\ UNCHANGED purchaseVars /\ Elsewhere(PurchasingSteps)
            /\ \A s \in Slots : slot[s].step \in PurchasingSteps /\ InTurn'
                                => UNCHANGED shelfVars
<1>1. \A step \in PurchasingSteps :
        /\ step \notin StockSteps \cup QuoteSteps /\ step \notin SessionSteps \cup UserSteps
        /\ step \notin StaffSteps /\ step \notin WorkSteps /\ step \notin RateSteps
        /\ step # "idle"
  BY DEF SessionSteps, UserSteps, StaffSteps, WorkSteps, PurchasingSteps, StockSteps, QuoteSteps,
         LeaveSteps, ExpenseSteps, FileSteps, ProjectSteps, ChartSteps, RateSteps
<1>2. ASSUME NEW others, Handles(others), UNCHANGED purchaseVars,
             \A step \in PurchasingSteps : step \notin others /\ step # "idle",
             "idle" \notin others
      PROVE  /\ UNCHANGED purchaseVars /\ Elsewhere(PurchasingSteps)
             /\ \A s \in Slots : slot[s].step \in PurchasingSteps /\ InTurn'
                                 => UNCHANGED shelfVars
  BY <1>2, OthersElsewhere, OthersWait
<1>3. CASE GoodsNext
  <2>1. CASE StockMoves
    BY <1>1, <1>2, <2>1, Happening, NoneIdle DEF StockMoves
  <2>2. CASE StockNext /\ UNCHANGED <<purchaseVars, quoteVars>>
    BY <1>1, <1>2, <2>2, StockHandles, NoneIdle
  <2>3. CASE QuotesNext /\ UNCHANGED <<stockVars, purchaseVars>>
    BY <1>1, <1>2, <2>3, QuotesHandle, NoneIdle
  <2> QED
    BY <1>3, <2>1, <2>2, <2>3 DEF GoodsNext
<1>4. CASE AccountsNext /\ UNCHANGED goodsRows
  BY <1>1, <1>2, <1>4, AccountsHandle, NoneIdle DEF goodsRows
<1>5. CASE StaffNext /\ UNCHANGED goodsRows
  BY <1>1, <1>2, <1>5, StaffHandle, NoneIdle DEF goodsRows
<1>6. CASE WorkNext /\ UNCHANGED goodsRows
  BY <1>1, <1>2, <1>6, WorkHandles, NoneIdle DEF goodsRows
<1>7. CASE AmountsNext /\ UNCHANGED goodsRows
  BY <1>1, <1>2, <1>7, AmountsHandle, NoneIdle DEF goodsRows
<1>8. CASE Dropped
  BY <1>1, <1>8, DroppedHandler DEF Dropped, InTurn
<1>9. CASE UNCHANGED ServiceVars
  BY <1>9 DEF ServiceVars, requestVars, goodsRows, stockVars, shelfVars, Elsewhere
<1> QED
  BY <1>3, <1>4, <1>5, <1>6, <1>7, <1>8, <1>9 DEF ServiceNext

-----------------------------------------------------------------------------
(* The service as a whole: its transactions are the steps of Shelf *)

\* The handlers of other parts hold no row, before and after a step of theirs.
LEMMA RestsElsewhere ==
  ASSUME TransactionsInv, HandlersInv, NEW others, Handles(others),
         \A step \in StockSteps : step \notin others /\ step # "idle", UNCHANGED holder
  PROVE  /\ \A r \in Slots : slot'[r] = slot[r] \/ (AtRest(r) /\ AtRest(r)')
         /\ slot' = [r \in Slots |-> slot'[r]]
<1>1. ASSUME NEW s \in Slots, slot[s].step \notin StockSteps
      PROVE  AtRest(s)
  BY <1>1 DEF TransactionsInv, OnItsWay, StockSteps, MoveSteps,
       Movement, MovementAt, MoveLocals, Release, ReleaseAt, ReleaseLocals, Reservation, ReservationAt
<1>2. ASSUME NEW s \in Slots, slot' = [slot EXCEPT ![s] = slot'[s]],
             slot'[s].step \in others \cup {"idle"},
             At(s, "idle") \/ slot[s].step \in others
      PROVE  /\ \A r \in Slots : slot'[r] = slot[r] \/ (AtRest(r) /\ AtRest(r)')
             /\ slot' = [r \in Slots |-> slot'[r]]
  <2>1. AtRest(s)
    BY <1>1, <1>2 DEF At
  <2>2. AtRest(s)'
    BY <1>2, <2>1 DEF AtRest
  <2> QED
    BY <1>2, <2>1, <2>2 DEF HandlersInv
<1>3. CASE slot' = slot
  BY <1>3 DEF HandlersInv
<1> QED
  BY <1>2, <1>3 DEF Handles

\* What moves goods at once leaves the rows as the transactions need them, which
\* have written none of them by then.
LEMMA AtOnceInv ==
  ASSUME TransactionsInv, HandlersInv, NEW others, Handles(others),
         \A step \in StockSteps : step \notin others /\ step # "idle", AtOnce, ShelfTypeOK'
  PROVE  TransactionsInv'
<1>1. RowsTyped /\ OneHolder /\ FreeRowsAreCommitted /\ Warehouses \subseteq Rows /\ StockLines \subseteq Rows
  BY DEF TransactionsInv, Rows
<1>2. UNCHANGED holder
  BY DEF AtOnce
<1>3. /\ \A r \in Slots : slot'[r] = slot[r] \/ (AtRest(r) /\ AtRest(r)')
      /\ slot' = [r \in Slots |-> slot'[r]]
  BY <1>2, RestsElsewhere
<1>4. CASE UNCHANGED shelfVars
  <2>1. UNCHANGED <<onHand, reserved, held, holder, committed>>
    BY <1>4 DEF AtOnce, shelfVars
  <2>2. RowsTyped' /\ OneHolder' /\ FreeRowsAreCommitted'
    BY <1>1, <1>3, <2>1 DEF RowsTyped, OneHolder, FreeRowsAreCommitted, ShelfTypeOK
  <2>3. ASSUME NEW r \in Slots PROVE OnItsWay(r)'
    <3>1. OnItsWay(r)
      BY DEF TransactionsInv
    <3>2. CASE slot'[r] = slot[r]
      BY <2>1, <3>1, <3>2, OthersUndisturbed
    <3> QED
      BY <1>3, <3>2 DEF OnItsWay
  <2> QED
    BY <2>2, <2>3 DEF TransactionsInv
<1>5. CASE ~UNCHANGED shelfVars
  <2>1. /\ \A row \in Rows : holder[row] = {}
        /\ committed' = [committed EXCEPT !.onHand = onHand', !.reserved = reserved', !.held = held']
    BY <1>5 DEF AtOnce
  <2>2. /\ committed' = [onHand |-> onHand', reserved |-> reserved', held |-> held',
                         average |-> committed.average]
        /\ committed'.onHand = onHand' /\ committed'.reserved = reserved' /\ committed'.held = held'
    <3>1. PICK a, b, c, d : committed = [onHand |-> a, reserved |-> b, held |-> c, average |-> d]
      BY <1>1 DEF RowsTyped
    <3> QED
      BY <2>1, <3>1
  <2>3. committed' = [onHand |-> committed'.onHand, reserved |-> committed'.reserved,
                      held |-> committed'.held, average |-> committed'.average]
    BY <2>2
  <2>4. ShelfRows(committed)'
    BY <2>2 DEF ShelfTypeOK, ShelfRows
  <2>5. RowsTyped'
    BY <1>1, <1>2, <1>3, <2>3, <2>4 DEF RowsTyped
  <2>6. OneHolder' /\ FreeRowsAreCommitted'
    BY <1>1, <1>2, <2>2 DEF OneHolder, FreeRowsAreCommitted
  <2>7. ASSUME NEW r \in Slots PROVE OnItsWay(r)'
    <3>1. OnItsWay(r)
      BY DEF TransactionsInv
    <3>2. CASE slot'[r] = slot[r]
      BY <1>1, <1>2, <2>1, <3>1, <3>2, OthersUndisturbed
    <3> QED
      BY <1>3, <3>2 DEF OnItsWay
  <2> QED
    BY <2>5, <2>6, <2>7 DEF TransactionsInv
<1> QED
  BY <1>4, <1>5

\* Each transaction of the shelf keeps its rows typed.
LEMMA ShelfStaysTyped ==
  ASSUME ShelfTypeOK, [ShelfNext]_shelfVars
  PROVE  ShelfTypeOK'
<1>1. CASE UNCHANGED shelfVars
  BY <1>1 DEF shelfVars, ShelfTypeOK
<1>2. Quantities \subseteq Nat /\ NoHold \in Hold
  BY MaxQuantityAssumption DEF Quantities, Hold
<1>3. ASSUME NEW l \in Lines, NEW n \in Nat
      PROVE  ReservedAfter(l, n) \in [Warehouses -> Nat] /\ HoldAfter(l, n) \in Hold
  <2>1. held[l] \in Hold /\ \A w \in Warehouses : reserved[w] \in Nat
    BY DEF ShelfTypeOK
  <2>2. held[l].quantity \in Nat
    <3>1. CASE held[l] = NoHold
      BY <3>1 DEF NoHold
    <3>2. CASE held[l] \in [at : Warehouses, quantity : Quantities]
      BY <1>2, <3>2
    <3> QED
      BY <2>1, <3>1, <3>2 DEF Hold
  <2>3. ReservedAfter(l, n) \in [Warehouses -> Nat]
    BY <2>1, <2>2 DEF ReservedAfter, GivenBack, Lesser, AtLeastZero
  <2>4. HoldAfter(l, n) \in Hold
    <3>1. CASE held[l].quantity > n
      <4>1. held[l] \in [at : Warehouses, quantity : Quantities]
        BY <2>1, <2>2, <3>1 DEF Hold, NoHold
      <4>2. HoldAfter(l, n) = [at |-> held[l].at, quantity |-> held[l].quantity - n]
        BY <3>1, <4>1 DEF HoldAfter
      <4>3. held[l].quantity - n \in Quantities
        BY <3>1, <4>1, MaxQuantityAssumption DEF Quantities
      <4> QED
        BY <4>1, <4>2, <4>3 DEF Hold
    <3> QED
      BY <1>2, <3>1 DEF HoldAfter
  <2> QED
    BY <2>3, <2>4
<1>4. ASSUME NEW w \in Warehouses, NEW n \in Quantities, NEW l \in Lines, Reserve(l, w, n)
      PROVE  ShelfTypeOK'
  <2>1. Reservable(w, n) \in Quantities
    <3>1. onHand[w] \in Int /\ reserved[w] \in Int /\ n \in 1..MaxQuantity
      BY DEF ShelfTypeOK, Quantities
    <3>2. Reservable(w, n) \in Int /\ Reservable(w, n) > 0 /\ Reservable(w, n) <= n
      BY <1>4, <3>1 DEF Reserve, CanReserve, Reservable, Available, Lesser, AtLeastZero
    <3> QED
      BY <3>1, <3>2, MaxQuantityAssumption DEF Quantities
  <2>2. [at |-> w, quantity |-> Reservable(w, n)] \in Hold
    BY <2>1 DEF Hold
  <2>3. PICK q \in Nat : /\ [at |-> w, quantity |-> q] \in Hold /\ UNCHANGED onHand
                        /\ held' = [held EXCEPT ![l] = [at |-> w, quantity |-> q]]
                        /\ reserved' = [reserved EXCEPT ![w] = @ + q]
    BY <1>2, <1>4, <2>1, <2>2 DEF Reserve
  <2>4. PICK row \in Hold : held' = [held EXCEPT ![l] = row]
    BY <2>3
  <2> QED
    BY <2>3, <2>4 DEF ShelfTypeOK
<1>5. ASSUME NEW w \in Warehouses, NEW n \in Quantities, NEW l \in Lines, Ship(l, w, n)
      PROVE  ShelfTypeOK'
  BY <1>2, <1>3, <1>5 DEF Ship, ShelfTypeOK
<1>6. ASSUME NEW w \in Warehouses, NEW n \in Quantities,
             Remove(w, n) \/ Receive(w, n) \/ \E v \in Warehouses : Transfer(w, v, n)
      PROVE  ShelfTypeOK'
  BY <1>2, <1>6 DEF Remove, Receive, Transfer, ShelfTypeOK
<1>7. ASSUME NEW l \in Lines, ReleaseOrder(l) \/ CascadeHold(l)
      PROVE  ShelfTypeOK'
  <2>1. held[l].quantity \in Nat
    <3>1. CASE held[l] = NoHold
      BY <3>1 DEF NoHold
    <3>2. CASE held[l] \in [at : Warehouses, quantity : Quantities]
      BY <1>2, <3>2
    <3> QED
      BY <3>1, <3>2 DEF Hold, ShelfTypeOK
  <2> QED
    BY <1>2, <1>3, <1>7, <2>1 DEF ReleaseOrder, CascadeHold, ShelfTypeOK
<1> QED
  BY <1>1, <1>4, <1>5, <1>6, <1>7 DEF ShelfNext

\* Goods received or returned go to, or leave, a warehouse of the order.
Delivery(s) ==
  slot[s].step \in {"receipt.insert", "receipt.move", "return.insert", "return.move"} =>
    slot[s].at \in Depots /\ slot[s].quantity \in Quantities

\* What purchasing moves, it moves by a transaction of the shelf.
LEMMA PurchasingMoves ==
  ASSUME \A s \in Slots : Delivery(s), PurchasingNext
  PROVE  [ShelfNext]_shelfVars
<1>1. ASSUME NEW s \in Slots, MoveReceived(s) \/ MoveReturned(s)
      PROVE  ShelfNext
  <2>1. slot[s].at \in Warehouses /\ slot[s].quantity \in Quantities
    BY <1>1, DepotsAssumption DEF MoveReceived, MoveReturned, Delivery, At
  <2> QED
    BY <1>1, <2>1 DEF MoveReceived, MoveReturned, ShelfNext
<1>2. ASSUME NEW w \in Depots, NEW n \in Quantities, SellReceived(w, n)
      PROVE  ShelfNext
  BY <1>2, DepotsAssumption DEF SellReceived, ShelfNext
<1>3. ASSUME NEW s \in Slots, PurchasingRequest(s) PROVE UNCHANGED shelfVars
  BY <1>3 DEF PurchasingRequest, ReadPurchaseToUpdate, ReadPurchaseToSetStatus, ReadPurchaseToDelete,
              ReadToReceive, ReadToReturn, ReadToPayVendor, ReadToUnpayVendor, goods, shelfVars
<1>4. ASSUME NEW s \in Slots, PurchasingStep(s) PROVE [ShelfNext]_shelfVars
  BY <1>1, <1>4 DEF PurchasingStep, WritePurchase, WritePurchaseStatus, DeletePurchase, InsertReceipt,
                    InsertReturn, RefuseReturn, InsertVendorPayment, DeleteVendorPayment, ReadVendorPaid,
                    ReadReturned, SettlePurchase, FailPurchasing, goods, shelfVars
<1>5. ASSUME NEW n, CreatePurchase(n) PROVE UNCHANGED shelfVars
  BY <1>5 DEF CreatePurchase, goods, shelfVars
<1> QED
  BY <1>2, <1>3, <1>4, <1>5 DEF PurchasingNext

\* A delivery keeps where it goes and how much it is.
LEMMA DeliveriesNext ==
  ASSUME HandlersInv, \A s \in Slots : Delivery(s), [ServiceNext]_ServiceVars
  PROVE  \A s \in Slots : Delivery(s)'
<1>1. ASSUME Elsewhere(PurchasingSteps) PROVE \A s \in Slots : Delivery(s)'
  BY <1>1 DEF Elsewhere, Delivery, PurchasingSteps
<1>2. ASSUME NEW s \in Slots, NEW locals, slot' = [slot EXCEPT ![s] = locals],
             locals.step \in {"receipt.insert", "receipt.move", "return.insert", "return.move"}
               => locals.at \in Depots /\ locals.quantity \in Quantities
      PROVE  \A r \in Slots : Delivery(r)'
  BY <1>2 DEF Delivery, HandlersInv
<1>3. ASSUME NEW s \in Slots, PurchasingRequest(s)
      PROVE  \A r \in Slots : Delivery(r)'
  <2>1. ASSUME NEW w \in Depots, NEW n \in Quantities, NEW most,
               ReadToReceive(s, w, n) \/ ReadToReturn(s, w, n, most)
        PROVE  \A r \in Slots : Delivery(r)'
    <3>1. \E locals, request : Begin(s, request, locals) /\ locals.at = w /\ locals.quantity = n
      <4>1. CASE ReadToReceive(s, w, n)
        BY <4>1 DEF ReadToReceive
      <4>2. CASE ReadToReturn(s, w, n, most)
        BY <4>2 DEF ReadToReturn
      <4> QED
        BY <2>1, <4>1, <4>2
    <3>2. PICK locals : slot' = [slot EXCEPT ![s] = locals] /\ locals.at = w /\ locals.quantity = n
      BY <3>1 DEF Begin
    <3> QED
      BY <1>2, <3>2
  <2>2. ASSUME NEW n, ReadPurchaseToUpdate(s, n) PROVE \A r \in Slots : Delivery(r)'
    <3>1. PICK locals : Begin(s, "po.update", locals) /\ locals.step = "po.write"
      BY <2>2 DEF ReadPurchaseToUpdate
    <3> QED
      BY <1>2, <3>1 DEF Begin
  <2>3. ASSUME NEW status, ReadPurchaseToSetStatus(s, status) PROVE \A r \in Slots : Delivery(r)'
    <3>1. PICK locals : Begin(s, "po.status", locals) /\ locals.step = "po.writeStatus"
      BY <2>3 DEF ReadPurchaseToSetStatus
    <3> QED
      BY <1>2, <3>1 DEF Begin
  <2>4. ASSUME ReadPurchaseToDelete(s) PROVE \A r \in Slots : Delivery(r)'
    BY <1>2, <2>4 DEF ReadPurchaseToDelete, Begin
  <2>5. ASSUME NEW a, ReadToPayVendor(s, a) PROVE \A r \in Slots : Delivery(r)'
    BY <1>2, <2>5 DEF ReadToPayVendor, Begin
  <2>6. ASSUME NEW p, ReadToUnpayVendor(s, p) PROVE \A r \in Slots : Delivery(r)'
    BY <1>2, <2>6 DEF ReadToUnpayVendor, Begin
  <2> QED
    BY <1>3, <2>1, <2>2, <2>3, <2>4, <2>5, <2>6 DEF PurchasingRequest
<1>4. ASSUME NEW s \in Slots, Finish(s)
      PROVE  \A r \in Slots : Delivery(r)'
  BY <1>2, <1>4 DEF Finish, Continue, Idle
<1>5. ASSUME NEW s \in Slots, PurchasingStep(s)
      PROVE  \A r \in Slots : Delivery(r)'
  <2>1. CASE InsertReceipt(s)
    <3>1. slot[s].at \in Depots /\ slot[s].quantity \in Quantities
      BY <2>1 DEF InsertReceipt, Delivery, At
    <3> QED
      BY <1>2, <2>1, <3>1 DEF InsertReceipt, Continue
  <2>2. CASE InsertReturn(s)
    <3>1. slot[s].at \in Depots /\ slot[s].quantity \in Quantities
      BY <2>2 DEF InsertReturn, Delivery, At
    <3> QED
      BY <1>2, <2>2, <3>1 DEF InsertReturn, Continue
  <2>3. CASE MoveReturned(s) \/ InsertVendorPayment(s) \/ DeleteVendorPayment(s) \/ ReadVendorPaid(s)
             \/ ReadReturned(s)
    <3>1. \E locals : /\ Continue(s, locals)
                      /\ locals.step \in {"po.readPaid", "po.readReturned", "po.settle"}
      <4>1. CASE MoveReturned(s)
        BY <4>1 DEF MoveReturned
      <4>2. CASE InsertVendorPayment(s)
        BY <4>2 DEF InsertVendorPayment
      <4>3. CASE DeleteVendorPayment(s)
        BY <4>3 DEF DeleteVendorPayment
      <4>4. CASE ReadVendorPaid(s)
        BY <4>4 DEF ReadVendorPaid
      <4>5. CASE ReadReturned(s)
        BY <4>5 DEF ReadReturned
      <4> QED
        BY <2>3, <4>1, <4>2, <4>3, <4>4, <4>5
    <3>2. PICK locals : /\ slot' = [slot EXCEPT ![s] = locals]
                        /\ locals.step \in {"po.readPaid", "po.readReturned", "po.settle"}
      BY <3>1 DEF Continue
    <3> QED
      BY <1>2, <3>2
  <2> QED
    BY <1>4, <1>5, <2>1, <2>2, <2>3
       DEF PurchasingStep, WritePurchase, WritePurchaseStatus, DeletePurchase, MoveReceived,
           RefuseReturn, SettlePurchase, FailPurchasing
<1>6. ASSUME NEW w, NEW n, CreatePurchase(n) \/ SellReceived(w, n)
      PROVE  \A s \in Slots : Delivery(s)'
  BY <1>6 DEF CreatePurchase, SellReceived, Happens, Delivery
<1> QED
  BY <1>1, <1>3, <1>5, <1>6, NotPurchasing DEF PurchasingNext

\* Handlers of other parts are at none of the steps of a transaction.
LEMMA ApartFromStock ==
  \A step \in StockSteps :
    /\ step \notin PurchasingSteps \cup QuoteSteps /\ step \notin SessionSteps \cup UserSteps
    /\ step \notin StaffSteps /\ step \notin WorkSteps /\ step \notin RateSteps
    /\ step # "idle"
BY DEF SessionSteps, UserSteps, StaffSteps, WorkSteps, PurchasingSteps, StockSteps, QuoteSteps,
       LeaveSteps, ExpenseSteps, FileSteps, ProjectSteps, ChartSteps, RateSteps

\* A part whose handlers are in no transaction moves goods at once, if at all.
OtherGoods(others) ==
  /\ Handles(others) /\ \A step \in StockSteps : step \notin others /\ step # "idle"
  /\ AtOnce /\ [ShelfNext]_shelfVars

\* A step of the service is one of a transaction, or moves goods at once.
LEMMA StockHappens ==
  ASSUME HandlersInv, \A s \in Slots : Delivery(s), [ServiceNext]_ServiceVars
  PROVE  [TransactionsNext]_<<requestVars, stockVars>> \/ \E others : OtherGoods(others)
<1>1. UNCHANGED stockVars => AtOnce /\ UNCHANGED shelfVars
  BY DEF stockVars, AtOnce
<1>2. ASSUME NEW others, Handles(others),
             \A step \in StockSteps : step \notin others /\ step # "idle", UNCHANGED stockVars
      PROVE  \E parts : OtherGoods(parts)
  BY <1>1, <1>2 DEF OtherGoods
<1>3. CASE GoodsNext
  <2>1. CASE StockMoves
    <3>1. Handles({})
      BY <2>1, Happening DEF StockMoves
    <3> QED
      BY <2>1, <3>1, ApartFromStock DEF StockMoves, OtherGoods
  <2>2. CASE StockNext
    BY <2>2 DEF TransactionsNext
  <2>3. CASE PurchasingNext /\ AtOnce
    <3>1. Handles(PurchasingSteps) /\ [ShelfNext]_shelfVars
      BY <2>3, PurchasingHandles, PurchasingMoves
    <3> QED
      BY <2>3, <3>1, ApartFromStock DEF OtherGoods
  <2>4. CASE QuotesNext /\ UNCHANGED stockVars
    BY <1>2, <2>4, QuotesHandle, ApartFromStock
  <2> QED
    BY <1>3, <2>1, <2>2, <2>3, <2>4 DEF GoodsNext
<1>4. CASE AccountsNext /\ UNCHANGED goodsRows
  BY <1>2, <1>4, AccountsHandle, ApartFromStock DEF goodsRows
<1>5. CASE StaffNext /\ UNCHANGED goodsRows
  BY <1>2, <1>5, StaffHandle, ApartFromStock DEF goodsRows
<1>6. CASE WorkNext /\ UNCHANGED goodsRows
  BY <1>2, <1>6, WorkHandles, ApartFromStock DEF goodsRows
<1>7. CASE AmountsNext /\ UNCHANGED goodsRows
  BY <1>2, <1>7, AmountsHandle, ApartFromStock DEF goodsRows
<1>8. CASE Dropped
  BY <1>8 DEF Dropped, TransactionsNext
<1>9. CASE UNCHANGED ServiceVars
  BY <1>9 DEF ServiceVars, goodsRows
<1> QED
  BY <1>3, <1>4, <1>5, <1>6, <1>7, <1>8, <1>9 DEF ServiceNext

\* What is moved at once is moved on the rows as committed, which are those
\* that are written.
LEMMA AtOnceIsAStep ==
  ASSUME TransactionsInv, AtOnce, [ShelfNext]_shelfVars
  PROVE  [Committed!ShelfNext]_(Committed!shelfVars)
<1>1. CASE UNCHANGED shelfVars
  BY <1>1 DEF AtOnce, Committed!shelfVars
<1>2. CASE ~UNCHANGED shelfVars
  <2>1. RowsTyped /\ FreeRowsAreCommitted /\ Warehouses \subseteq Rows /\ StockLines \subseteq Rows
    BY DEF TransactionsInv, Rows
  <2>2. /\ \A row \in Rows : holder[row] = {}
        /\ committed' = [committed EXCEPT !.onHand = onHand', !.reserved = reserved', !.held = held']
    BY <1>2 DEF AtOnce
  <2>3. committed'.onHand = onHand' /\ committed'.reserved = reserved' /\ committed'.held = held'
    <3>1. PICK a, b, c, d : committed = [onHand |-> a, reserved |-> b, held |-> c, average |-> d]
      BY <2>1 DEF RowsTyped
    <3> QED
      BY <2>2, <3>1
  <2>4. committed.onHand = onHand /\ committed.reserved = reserved /\ committed.held = held
    BY <2>1, <2>2 DEF RowsTyped, ShelfTypeOK, ShelfRows, FreeRowsAreCommitted
  <2>5. ShelfNext
    BY <1>2
  <2>6. ASSUME NEW w, NEW n
        PROVE  /\ Remove(w, n) => Committed!Remove(w, n)
               /\ Receive(w, n) => Committed!Receive(w, n)
               /\ \A v : Transfer(w, v, n) => Committed!Transfer(w, v, n)
               /\ \A l : Reserve(l, w, n) => Committed!Reserve(l, w, n)
               /\ \A l : Ship(l, w, n) => Committed!Ship(l, w, n)
               /\ \A l : ReleaseOrder(l) => Committed!ReleaseOrder(l)
               /\ \A l : CascadeHold(l) => Committed!CascadeHold(l)
    BY <2>3, <2>4
       DEF Reserve, Ship, Remove, Receive, Transfer, ReleaseOrder, CascadeHold, CanReserve,
           Reservable, Available, CanShip, ReservedAfter, HoldAfter, GivenBack, Lesser, AtLeastZero, NoHold,
           Committed!Reserve, Committed!Ship, Committed!Remove, Committed!Receive,
           Committed!Transfer, Committed!ReleaseOrder, Committed!CascadeHold, Committed!CanReserve,
           Committed!Reservable, Committed!Available, Committed!CanShip, Committed!ReservedAfter,
           Committed!HoldAfter, Committed!GivenBack, Committed!Lesser, Committed!AtLeastZero,
           Committed!NoHold
  <2> QED
    BY <2>5, <2>6 DEF ShelfNext, Quantities, Committed!ShelfNext, Committed!Quantities
<1> QED
  BY <1>1, <1>2

GoodsInv == TransactionsInv /\ \A s \in Slots : Delivery(s)

\* Every step of the service keeps the transactions on their way.
LEMMA GoodsInvNext == HandlersInv /\ GoodsInv /\ [ServiceNext]_ServiceVars => GoodsInv'
<1> SUFFICES ASSUME HandlersInv, GoodsInv, [ServiceNext]_ServiceVars PROVE GoodsInv'
  OBVIOUS
<1>1. ASSUME NEW others, OtherGoods(others) PROVE TransactionsInv'
  <2>1. ShelfTypeOK
    BY DEF GoodsInv, TransactionsInv, RowsTyped
  <2>2. ShelfTypeOK'
    BY <1>1, <2>1, ShelfStaysTyped DEF OtherGoods
  <2> QED
    BY <1>1, <2>2, AtOnceInv DEF OtherGoods, GoodsInv
<1>2. TransactionsInv'
  BY <1>1, StockHappens, NextInv DEF GoodsInv
<1> QED
  BY <1>2, DeliveriesNext DEF GoodsInv

\* No goods are on their way to begin with.
LEMMA GoodsInvAlways == ServiceSpec => []GoodsInv
<1>1. ServiceInit => GoodsInv
  <2> SUFFICES ASSUME ServiceInit PROVE GoodsInv
    OBVIOUS
  <2>1. TransactionsInv
    BY InitInv DEF ServiceInit
  <2>2. \A s \in Slots : Delivery(s)
    BY DEF ServiceInit, RequestsInit, Delivery, Idle
  <2> QED
    BY <2>1, <2>2 DEF GoodsInv
<1> QED
  BY <1>1, GoodsInvNext, HandlersAlways, PTL DEF ServiceSpec

\* Among all the requests of the service, too, whichever of them move goods
\* statement by statement and whichever in one step, the stock rows change by
\* whole transactions.
THEOREM ServiceImplementsShelf == ServiceSpec => TransactionsAreSteps
<1>1. ServiceInit => Committed!ShelfInit
  BY DEF ServiceInit, ShelfInit, StockInit, Written, Committed!ShelfInit, Committed!NoHold, NoHold
<1>2. ASSUME HandlersInv, GoodsInv, [ServiceNext]_ServiceVars
      PROVE  [Committed!ShelfNext]_(Committed!shelfVars)
  <2>1. ASSUME NEW others, OtherGoods(others) PROVE [Committed!ShelfNext]_(Committed!shelfVars)
    BY <1>2, <2>1, AtOnceIsAStep DEF OtherGoods, GoodsInv
  <2> QED
    BY <1>2, <2>1, StockHappens, StepIsAStep DEF GoodsInv
<1> QED
  BY <1>1, <1>2, GoodsInvAlways, HandlersAlways, PTL
     DEF ServiceSpec, TransactionsAreSteps, Committed!ShelfSpec

-----------------------------------------------------------------------------
(* The service as a whole: costs, totals and types *)

Costs == Nat \cup {Uncosted}

\* A ratio of what is not negative is not.
LEMMA RatioTyped ==
  ASSUME NEW a \in Nat, NEW b \in Nat \ {0}
  PROVE  RoundedRatio(a, b) \in Nat
<1>1. \A x \in Nat, y \in Nat : y > 0 => /\ x \div y \in Int
                                         /\ x < y * ((x \div y) + 1)
  OBVIOUS
<1>2. PICK x \in Nat, y \in Nat : x = 2 * a + b /\ y = 2 * b /\ y > 0
  OBVIOUS
<1>3. PICK q \in Int : q = x \div y /\ x < y * (q + 1)
  BY <1>1, <1>2
<1>4. q >= 0
  <2> SUFFICES ASSUME q < 0 PROVE FALSE
    BY <1>3
  <2>1. y * (q + 1) <= 0
    BY <1>2, <1>3
  <2> QED
    BY <1>2, <1>3, <2>1
<1> QED
  BY <1>2, <1>3, <1>4 DEF RoundedRatio

\* A movement leaves a cost that is not negative, or none.
LEMMA AverageTyped ==
  ASSUME average \in Costs, NEW move \in MoveRecords, NEW total \in Int,
         move.delta \in Quantities \/ -move.delta \in Quantities
  PROVE  AverageAfter(move, total) \in Costs
<1>1. PICK cost : cost = IF move.cost = NamesNoCost THEN average ELSE move.cost
  OBVIOUS
<1>2. move.cost \in UnitCosts \cup {NamesNoCost} /\ move.delta \in Int
  BY DEF MoveRecords
<1>3. cost \in Costs /\ Uncosted \notin Nat /\ \A x \in Costs : CurrentCost(x) \in Nat
  BY <1>1, <1>2, UnitCostsAssumption DEF Costs, NamesNoCost, CurrentCost, AtLeastZero, Uncosted
<1>4. \A a \in Nat, b \in Nat : a * b \in Nat
  OBVIOUS
<1>5. PICK current \in Nat : current = CurrentCost(average)
  BY <1>3
<1>6. CASE cost = Uncosted \/ move.to # NoWarehouse
  <2>1. AverageAfter(move, total) = average
    BY <1>1, <1>6 DEF AverageAfter
  <2> QED
    BY <2>1
<1>7. CASE cost # Uncosted /\ move.to = NoWarehouse /\ move.delta > 0
  <2>1. AverageAfter(move, total) = MovingAverage(total, average, move.delta, cost)
    <3>1. ~(cost = Uncosted \/ move.to # NoWarehouse) /\ ~(move.delta < 0)
      BY <1>2, <1>7
    <3> QED
      BY <1>1, <1>7, <3>1, Zenon DEF AverageAfter
  <2>2. cost \in Nat
    BY <1>3, <1>7 DEF Costs
  <2>3. CASE total <= 0
    BY <2>1, <2>2, <2>3 DEF MovingAverage, Costs
  <2>4. CASE total > 0
    <3>1. total * current \in Nat /\ move.delta * cost \in Nat
      <4>1. total \in Nat /\ move.delta \in Nat
        BY <1>2, <1>7, <2>4
      <4> QED
        BY <1>4, <1>5, <2>2, <4>1
    <3>2. RoundedRatio(total * current + move.delta * cost, total + move.delta) \in Nat
      <4>1. PICK a \in Nat, b \in Nat : a = total * current /\ b = move.delta * cost
        BY <3>1
      <4>2. a + b \in Nat /\ total + move.delta \in Nat \ {0}
        BY <1>2, <1>7, <2>4
      <4> QED
        BY <4>1, <4>2, RatioTyped
    <3>3. ~(total <= 0)
      BY <2>4
    <3> QED
      BY <1>5, <2>1, <3>2, <3>3 DEF MovingAverage, Costs
  <2> QED
    BY <2>3, <2>4
<1>8. CASE cost # Uncosted /\ move.to = NoWarehouse /\ move.delta < 0
  <2>1. AverageAfter(move, total) = IF move.cost = NamesNoCost THEN average
                                    ELSE AverageAfterRemoval(total, average, -move.delta, cost)
    <3>1. ~(cost = Uncosted \/ move.to # NoWarehouse) /\ ~(move.delta > 0)
      BY <1>2, <1>8
    <3> QED
      BY <1>1, <1>8, <3>1, Zenon DEF AverageAfter
  <2>2. AverageAfterRemoval(total, average, -move.delta, cost) \in Nat
    <3>1. PICK removed \in Nat : removed = -move.delta
      BY <1>2, <1>8
    <3>2. cost \in Nat
      BY <1>3, <1>8 DEF Costs
    <3>3. PICK remaining : remaining = total * current - removed * cost
      OBVIOUS
    <3>4. total * current \in Int /\ removed * cost \in Int
      BY <3>1, <3>2
    <3>5. remaining \in Int
      BY <3>3, <3>4
    <3>6. CASE removed >= total
      <4>1. AverageAfterRemoval(total, average, removed, cost) = current
        BY <1>5, <3>6 DEF AverageAfterRemoval
      <4> QED
        BY <3>1, <4>1
    <3>7. CASE removed < total /\ remaining <= 0
      <4>1. ~(removed >= total) /\ ~(remaining > 0)
        BY <3>1, <3>5, <3>7
      <4>2. AverageAfterRemoval(total, average, removed, cost) = 0
        BY <1>5, <3>3, <3>7, <4>1, Zenon DEF AverageAfterRemoval
      <4> QED
        BY <3>1, <4>2
    <3>8. CASE removed < total /\ remaining > 0
      <4>1. ~(removed >= total) /\ ~(remaining <= 0)
        BY <3>1, <3>5, <3>8
      <4>2. AverageAfterRemoval(total, average, removed, cost) = RoundedRatio(remaining, total - removed)
        BY <1>5, <3>3, <3>8, <4>1, Zenon DEF AverageAfterRemoval
      <4>3. RoundedRatio(remaining, total - removed) \in Nat
        BY <3>1, <3>5, <3>8, RatioTyped
      <4> QED
        BY <3>1, <4>2, <4>3
    <3> QED
      BY <3>1, <3>5, <3>6, <3>7, <3>8
  <2> QED
    BY <2>1, <2>2 DEF Costs
<1>9. move.delta > 0 \/ move.delta < 0
  BY <1>2, MaxQuantityAssumption DEF Quantities
<1> QED
  BY <1>6, <1>7, <1>8, <1>9

\* The average is a cost or none, and as committed while nobody has the product.
CostsInv ==
  /\ average \in Costs /\ committed.average \in Costs
  /\ holder[Product] = {} => average = committed.average

TotalsTyped == \A s \in Slots : At(s, "stock.cost") => slot[s].total \in Int

\* What is on hand adds up.
LEMMA TotalTyped ==
  ASSUME RowsTyped
  PROVE  TotalOf(committed.onHand) \in Int
<1>1. TotalOf(committed.onHand) = SumOf(committed.onHand, Warehouses)
  BY DEF TotalOf, SumOf
<1>2. Warehouses \subseteq DOMAIN committed.onHand /\ \A w \in Warehouses : committed.onHand[w] \in Int
  BY DEF RowsTyped, ShelfRows
<1> QED
  BY <1>1, <1>2, WarehousesAssumption, SumSplit

\* A transaction that ends leaves the average as it was, or as committed.
LEMMA CostsEnd ==
  ASSUME TransactionsInv, CostsInv, NEW s \in Slots, holder' = Unlocked(s),
         \/ RollBack(s)
         \/ committed' = Chosen(s, Written, committed) /\ UNCHANGED <<shelfVars, average>>
  PROVE  CostsInv'
<1>1. RowsTyped /\ OneHolder /\ Product \in Rows
  BY DEF TransactionsInv, Rows
<1>2. holder'[Product] = holder[Product] \ {s}
  BY <1>1 DEF Unlocked
<1>3. s \in holder[Product] => holder[Product] = {s}
  BY <1>1 DEF OneHolder, RowsTyped
<1>4. CASE RollBack(s)
  <2>1. committed' = committed
        /\ average' = IF s \in holder[Product] THEN committed.average ELSE average
    BY <1>4 DEF RollBack, Chosen, Written
  <2> QED
    BY <1>2, <1>3, <2>1 DEF CostsInv
<1>5. CASE committed' = Chosen(s, Written, committed) /\ UNCHANGED <<shelfVars, average>>
  <2>1. average' = average
        /\ committed'.average = IF s \in holder[Product] THEN average ELSE committed.average
    BY <1>5 DEF Chosen, Written
  <2> QED
    BY <1>2, <1>3, <2>1 DEF CostsInv
<1> QED
  BY <1>4, <1>5

\* Statements that leave the product alone leave its cost alone.
LEMMA CostsStay ==
  ASSUME TransactionsInv, CostsInv, NEW s \in Slots, UNCHANGED <<average, committed>>,
         holder' = holder \/ \E row \in Rows : Lock(s, row)
  PROVE  CostsInv'
<1>1. RowsTyped /\ Product \in Rows
  BY DEF TransactionsInv, Rows
<1>2. holder'[Product] = {} => holder[Product] = {}
  BY <1>1 DEF Lock, RowsTyped
<1> QED
  BY <1>2 DEF CostsInv

\* What the average of the product is moved to.
LEMMA AverageMoved ==
  ASSUME TransactionsInv, CostsInv, TotalsTyped, NEW s \in Slots, MoveAverage(s)
  PROVE  CostsInv'
<1>1. slot[s].step = "stock.cost" /\ Movement(s)
  BY KindOf DEF MoveAverage, At
<1>2. slot[s].move \in MoveRecords /\ slot[s].total \in Int
      /\ (slot[s].move.delta \in Quantities \/ -slot[s].move.delta \in Quantities)
  BY <1>1 DEF Movement, MovementAt, MoveLocals, TotalsTyped, At
<1>3. average' \in Costs
  BY <1>2, AverageTyped DEF CostsInv, MoveAverage
<1>4. committed' = committed /\ holder'[Product] = {s}
  BY DEF MoveAverage, Lock, TransactionsInv, RowsTyped, Rows
<1> QED
  BY <1>3, <1>4 DEF CostsInv

\* No statement but one that moves the cost of the product, and no end of a
\* transaction, makes it anything but a cost.
LEMMA CostsNext ==
  ASSUME TransactionsInv, CostsInv, TotalsTyped, [TransactionsNext]_<<requestVars, stockVars>>
  PROVE  CostsInv'
<1>1. RowsTyped
  BY DEF TransactionsInv
<1>2. ASSUME NEW l \in StockLines, LineDeleted(l) PROVE CostsInv'
  <2>1. committed' = [committed EXCEPT !.held[l] = NoHold] /\ UNCHANGED <<average, holder>>
    BY <1>2 DEF LineDeleted
  <2>2. committed'.average = committed.average
    BY <2>1
  <2> QED
    BY <2>1, <2>2 DEF CostsInv
<1>3. ASSUME UNCHANGED stockVars PROVE CostsInv'
  BY <1>3 DEF stockVars, CostsInv
<1>4. ASSUME NEW s \in Slots, StockRequest(s) \/ \E l \in StockLines : BeginRelease(s, l)
      PROVE  CostsInv'
  <2>1. UNCHANGED stockVars
    BY <1>4 DEF StockRequest, BeginShip, BeginRemove, BeginReturn, BeginReceive, BeginTransfer,
                BeginReserve, BeginRelease, BeginMove
  <2> QED
    BY <1>3, <2>1
<1>5. ASSUME NEW s \in Slots, RollBack(s) PROVE CostsInv'
  BY <1>5, CostsEnd DEF RollBack
<1>6. ASSUME NEW s \in Slots, NEW row \in Rows,
             UNCHANGED <<average, committed>>, holder' = holder \/ Lock(s, row)
      PROVE  CostsInv'
  BY <1>6, CostsStay
<1>7. ASSUME NEW s \in Slots, StockStep(s) PROVE CostsInv'
  <2>1. Warehouses \subseteq Rows /\ StockLines \subseteq Rows /\ Product \in Rows
    BY DEF Rows
  <2>2. CASE ReleaseLine(s)
    <3>1. slot[s].hold.line \in Rows
      <4>1. slot[s].step = "stock.release"
        BY <2>2 DEF ReleaseLine, At
      <4>2. Movement(s) \/ Release(s)
        BY <4>1, KindOf
      <4> QED
        BY <2>1, <4>1, <4>2 DEF Movement, MovementAt, MoveLocals, Release, ReleaseAt, ReleaseLocals
    <3> QED
      BY <1>6, <2>2, <3>1 DEF ReleaseLine
  <2>3. CASE GiveBack(s)
    <3>1. slot[s].hold.at \in Rows
      <4>1. slot[s].step = "stock.giveBack"
        BY <2>3 DEF GiveBack, At
      <4>2. Movement(s) \/ Release(s)
        BY <4>1, KindOf
      <4> QED
        BY <2>1, <4>1, <4>2 DEF Movement, MovementAt, MoveLocals, Release, ReleaseAt, ReleaseLocals,
                                Released, HoldRecords
    <3> QED
      BY <1>6, <2>3, <3>1 DEF GiveBack
  <2>4. CASE Check(s)
    <3>1. CASE RollBack(s)
      BY <1>5, <3>1
    <3>2. slot[s].move.from \in Rows
      <4>1. slot[s].step = "stock.check"
        BY <2>4 DEF Check, At
      <4>2. Movement(s)
        BY <4>1, KindOf
      <4> QED
        BY <2>1, <4>2 DEF Movement, MovementAt, MoveLocals, MoveRecords
    <3> QED
      BY <1>6, <2>4, <3>1, <3>2 DEF Check, Refuse
  <2>5. CASE SumOnHand(s)
    BY <1>3, <2>5 DEF SumOnHand
  <2>6. CASE MoveAverage(s)
    BY <2>6, AverageMoved
  <2>7. CASE AdjustLevel(s) \/ AdjustDestination(s)
    <3>1. slot[s].move.from \in Rows /\ (At(s, "stock.arrive") => slot[s].move.to \in Rows)
      <4>1. slot[s].step \in {"stock.adjust", "stock.arrive"}
        BY <2>7 DEF AdjustLevel, AdjustDestination, At
      <4>2. Movement(s)
        BY <4>1, KindOf
      <4> QED
        BY <2>1, <4>2 DEF Movement, MovementAt, MoveLocals, MoveRecords, At
    <3> QED
      BY <1>6, <2>7, <3>1 DEF AdjustLevel, AdjustDestination
  <2>8. CASE LockToReserve(s) \/ InsertHold(s)
    <3>1. CASE RollBack(s)
      BY <1>5, <3>1
    <3>2. slot[s].at \in Rows /\ slot[s].line \in Rows
      <4>1. slot[s].step \in {"stock.reserve", "stock.hold"}
        BY <2>8 DEF LockToReserve, InsertHold, At
      <4>2. Reservation(s)
        BY <4>1, KindOf
      <4> QED
        BY <2>1, <4>2 DEF Reservation, ReservationAt
    <3> QED
      BY <1>6, <2>8, <3>1, <3>2 DEF LockToReserve, InsertHold, Refuse
  <2>9. CASE Commit(s)
    BY <2>9, CostsEnd DEF Commit
  <2>10. CASE EndDeadlock(s)
    BY <1>5, <2>10 DEF EndDeadlock, Refuse
  <2> QED
    BY <1>7, <2>2, <2>3, <2>4, <2>5, <2>6, <2>7, <2>8, <2>9, <2>10 DEF StockStep
<1> QED
  BY <1>2, <1>3, <1>4, <1>5, <1>7 DEF TransactionsNext, StockNext

\* A sum is taken only of what is on hand.
LEMMA TotalsNext ==
  ASSUME HandlersInv, TransactionsInv, TotalsTyped, [TransactionsNext]_<<requestVars, stockVars>>
  PROVE  TotalsTyped'
<1>1. RowsTyped
  BY DEF TransactionsInv
<1>2. ASSUME NEW s \in Slots, NEW x, slot' = [slot EXCEPT ![s] = x],
             x.step = "stock.cost" => x.total \in Int
      PROVE  TotalsTyped'
  BY <1>1, <1>2 DEF TotalsTyped, At, RowsTyped
<1>3. ASSUME slot' = slot PROVE TotalsTyped'
  BY <1>3 DEF TotalsTyped, At
<1>4. ASSUME NEW s \in Slots, NEW step, step # "stock.cost", GoTo(s, step)
      PROVE  TotalsTyped'
  <2>1. PICK x : x = [slot[s] EXCEPT !.step = step] /\ slot' = [slot EXCEPT ![s] = x]
    BY <1>4 DEF GoTo, Continue
  <2>2. "step" \in DOMAIN slot[s]
    BY DEF HandlersInv, Carried
  <2>3. x.step = step
    BY <2>1, <2>2
  <2> QED
    BY <1>2, <1>4, <2>1, <2>3
<1>5. ASSUME NEW s \in Slots, Finish(s) \/ (Abandon(s) /\ RollBack(s))
      PROVE  TotalsTyped'
  <2>1. Idle.step = "idle" /\ slot' = [slot EXCEPT ![s] = Idle]
    BY <1>5 DEF Finish, Continue, Abandon, Idle
  <2> QED
    BY <1>2, <2>1
<1>6. ASSUME NEW s \in Slots, StockRequest(s) \/ \E l \in StockLines : BeginRelease(s, l)
      PROVE  TotalsTyped'
  <2>1. ASSUME NEW request, NEW begins, begins # "stock.cost", NEW line, NEW move,
               BeginMove(s, request, begins, line, move)
        PROVE  TotalsTyped'
    <3>1. PICK x : x.step = begins /\ slot' = [slot EXCEPT ![s] = x]
      BY <2>1 DEF BeginMove, Begin
    <3> QED
      BY <1>2, <2>1, <3>1
  <2>2. ASSUME NEW l, NEW w, NEW n, BeginReserve(s, l, w, n) PROVE TotalsTyped'
    <3>1. PICK x : x.step = "stock.reserve" /\ slot' = [slot EXCEPT ![s] = x]
      BY <2>2 DEF BeginReserve, Begin
    <3> QED
      BY <1>2, <3>1
  <2>3. ASSUME NEW l, BeginRelease(s, l) PROVE TotalsTyped'
    <3>1. PICK x : x.step = "stock.release" /\ slot' = [slot EXCEPT ![s] = x]
      BY <2>3 DEF BeginRelease, Begin
    <3> QED
      BY <1>2, <3>1
  <2> QED
    BY <1>6, <2>1, <2>2, <2>3
       DEF StockRequest, BeginShip, BeginRemove, BeginReturn, BeginReceive, BeginTransfer
<1>7. ASSUME NEW s \in Slots, StockStep(s) PROVE TotalsTyped'
  <2>1. CASE SumOnHand(s)
    <3>1. slot[s].step = "stock.total" /\ Movement(s)
      BY <2>1, KindOf DEF SumOnHand, At
    <3>2. "total" \in DOMAIN slot[s]
      BY <3>1 DEF Movement
    <3>3. PICK n \in Int : n = TotalOf(committed.onHand)
      BY <1>1, TotalTyped
    <3>4. PICK y : y = [slot[s] EXCEPT !.step = "stock.cost", !.total = n]
      OBVIOUS
    <3>5. y.total = n
      BY <3>2, <3>4
    <3>6. slot' = [slot EXCEPT ![s] = y]
      BY <2>1, <3>3, <3>4 DEF SumOnHand, Continue
    <3> QED
      BY <1>2, <3>5, <3>6
  <2>2. CASE ReleaseLine(s)
    <3>1. slot[s].step = "stock.release"
      BY <2>2 DEF ReleaseLine, At
    <3>2. Movement(s) \/ Release(s)
      BY <3>1, KindOf
    <3>3. slot[s].hold.next # "stock.cost"
      BY <3>2 DEF Movement, MovementAt, MoveLocals, Release, ReleaseAt, ReleaseLocals
    <3>4. CASE GoTo(s, slot[s].hold.next)
      BY <1>4, <3>3, <3>4
    <3>5. CASE Continue(s, [slot[s] EXCEPT !.step = "stock.giveBack",
                !.hold.quantity = GivenBack(slot[s].hold.line, slot[s].hold.quantity),
                !.hold.at = held[slot[s].hold.line].at])
      <4>1. "step" \in DOMAIN slot[s]
        BY <3>2 DEF Movement, Release
      <4>2. PICK x : x = [slot[s] EXCEPT !.step = "stock.giveBack",
                !.hold.quantity = GivenBack(slot[s].hold.line, slot[s].hold.quantity),
                !.hold.at = held[slot[s].hold.line].at]
        OBVIOUS
      <4>3. x.step = "stock.giveBack"
        BY <4>1, <4>2
      <4> QED
        BY <1>2, <3>5, <4>2, <4>3 DEF Continue
    <3> QED
      BY <2>2, <3>4, <3>5 DEF ReleaseLine
  <2>3. CASE GiveBack(s)
    <3>1. slot[s].step = "stock.giveBack"
      BY <2>3 DEF GiveBack, At
    <3>2. Movement(s) \/ Release(s)
      BY <3>1, KindOf
    <3>3. slot[s].hold.next # "stock.cost"
      BY <3>2 DEF Movement, MovementAt, MoveLocals, Release, ReleaseAt, ReleaseLocals
    <3> QED
      BY <1>4, <2>3, <3>3 DEF GiveBack
  <2>4. CASE Check(s) \/ MoveAverage(s) \/ AdjustLevel(s) \/ AdjustDestination(s)
    BY <1>4, <1>5, <2>4 DEF Check, Refuse, MoveAverage, AdjustLevel, AdjustDestination
  <2>5. CASE LockToReserve(s)
    <3>1. CASE Finish(s)
      BY <1>5, <3>1
    <3>2. slot[s].step = "stock.reserve" /\ Reservation(s)
      BY <2>5, KindOf DEF LockToReserve, At
    <3>3. CASE \E n : Continue(s, [slot[s] EXCEPT !.step = "stock.hold", !.quantity = n])
      <4>1. "step" \in DOMAIN slot[s]
        BY <3>2 DEF Reservation
      <4>2. PICK x : x.step = "stock.hold" /\ slot' = [slot EXCEPT ![s] = x]
        BY <3>3, <4>1 DEF Continue
      <4> QED
        BY <1>2, <4>2
    <3> QED
      BY <2>5, <3>1, <3>3 DEF LockToReserve, Refuse
  <2>6. CASE InsertHold(s)
    BY <1>4, <1>5, <2>6 DEF InsertHold, Refuse
  <2>7. CASE Commit(s) \/ EndDeadlock(s)
    BY <1>5, <2>7 DEF Commit, EndDeadlock, Refuse
  <2> QED
    BY <1>7, <2>1, <2>2, <2>3, <2>4, <2>5, <2>6, <2>7 DEF StockStep
<1>8. ASSUME NEW l, LineDeleted(l) PROVE TotalsTyped'
  BY <1>3, <1>8 DEF LineDeleted, Happens
<1> QED
  BY <1>3, <1>5, <1>6, <1>7, <1>8 DEF TransactionsNext, StockNext, requestVars

StockInv == GoodsInv /\ CostsInv /\ TotalsTyped

\* Every step of the service keeps costs costs.
LEMMA StockInvNext == HandlersInv /\ StockInv /\ [ServiceNext]_ServiceVars => StockInv'
<1> SUFFICES ASSUME HandlersInv, StockInv, [ServiceNext]_ServiceVars PROVE StockInv'
  OBVIOUS
<1>1. TransactionsInv /\ (\A s \in Slots : Delivery(s)) /\ RowsTyped
  BY DEF StockInv, GoodsInv, TransactionsInv
<1>2. ASSUME NEW others, OtherGoods(others) PROVE CostsInv' /\ TotalsTyped'
  <2>1. UNCHANGED <<average, holder>>
    BY <1>2 DEF OtherGoods, AtOnce
  <2>2. committed'.average = committed.average
    <3>1. PICK a, b, c, d : committed = [onHand |-> a, reserved |-> b, held |-> c, average |-> d]
      BY <1>1 DEF RowsTyped
    <3> QED
      BY <1>2, <3>1 DEF OtherGoods, AtOnce
  <2>3. \A r \in Slots : slot'[r] = slot[r] \/ AtRest(r)'
    BY <1>1, <1>2, <2>1, RestsElsewhere DEF OtherGoods
  <2>4. TotalsTyped'
    BY <2>3 DEF StockInv, TotalsTyped, At, AtRest, StockSteps
  <2> QED
    BY <2>1, <2>2, <2>4 DEF StockInv, CostsInv
<1>3. CostsInv' /\ TotalsTyped'
  BY <1>1, <1>2, StockHappens, CostsNext, TotalsNext DEF StockInv
<1> QED
  BY <1>3, GoodsInvNext DEF StockInv

\* Nothing has a cost to begin with.
LEMMA StockInvAlways == ServiceSpec => []StockInv
<1>1. ServiceInit => GoodsInv
  <2> SUFFICES ASSUME ServiceInit PROVE GoodsInv
    OBVIOUS
  <2>1. TransactionsInv
    BY InitInv DEF ServiceInit
  <2>2. \A s \in Slots : Delivery(s)
    BY DEF ServiceInit, RequestsInit, Delivery, Idle
  <2> QED
    BY <2>1, <2>2 DEF GoodsInv
<1>2. ServiceInit => CostsInv /\ TotalsTyped
  <2> SUFFICES ASSUME ServiceInit PROVE CostsInv /\ TotalsTyped
    OBVIOUS
  <2>1. average = Uncosted /\ committed.average = Uncosted
    BY DEF ServiceInit, StockInit, Written
  <2>2. TotalsTyped
    BY DEF ServiceInit, RequestsInit, TotalsTyped, At, Idle
  <2> QED
    BY <2>1, <2>2 DEF CostsInv, Costs
<1>3. ServiceInit => StockInv
  BY <1>1, <1>2 DEF StockInv
<1> QED
  BY <1>3, StockInvNext, HandlersAlways, PTL DEF ServiceSpec

\* The rows of the product are those of their tables, and between requests the
\* ones that everybody reads.
LEMMA StockTyped == StockInv => ShelfTypeOK /\ StockTypeOK
<1> SUFFICES ASSUME StockInv PROVE ShelfTypeOK /\ StockTypeOK
  OBVIOUS
<1>1. RowsTyped /\ OneHolder /\ FreeRowsAreCommitted /\ \A s \in Slots : OnItsWay(s)
  BY DEF StockInv, GoodsInv, TransactionsInv
<1>2. ASSUME NEW row \in Rows PROVE Cardinality(holder[row]) <= 1
  <2> DEFINE C == Cardinality(holder[row])
  <2>1. CASE holder[row] = {}
    <3>1. C = 0
      BY <2>1, FS_EmptySet
    <3> HIDE DEF C
    <3>2. C <= 1
      BY <3>1
    <3> QED
      BY <3>2 DEF C
  <2>2. ASSUME NEW s, holder[row] = {s} PROVE Cardinality(holder[row]) <= 1
    <3>1. C = 1
      BY <2>2, FS_Singleton
    <3> HIDE DEF C
    <3>2. C <= 1
      BY <3>1
    <3> QED
      BY <3>2 DEF C
  <2>3. ASSUME NEW s \in holder[row] PROVE holder[row] = {s}
    BY <1>1, <2>3 DEF OneHolder
  <2> QED
    BY <2>1, <2>2, <2>3
<1>3. ASSUME Quiet PROVE committed = Written
  <2>1. ASSUME NEW s \in Slots PROVE AtRest(s)
    BY <1>1, <1>3 DEF Quiet, At, OnItsWay,
       Movement, MovementAt, MoveLocals, MoveSteps, Release, ReleaseAt, ReleaseLocals, Reservation, ReservationAt
  <2>2. \A row \in Rows : holder[row] = {}
    BY <1>1, <2>1 DEF AtRest, RowsTyped
  <2>3. Warehouses \subseteq Rows /\ StockLines \subseteq Rows /\ Product \in Rows
    BY DEF Rows
  <2>4. committed.onHand = onHand /\ committed.reserved = reserved /\ committed.held = held
    BY <1>1, <2>2, <2>3 DEF RowsTyped, ShelfTypeOK, ShelfRows, FreeRowsAreCommitted
  <2>5. committed.average = average
    BY <2>2, <2>3 DEF StockInv, CostsInv
  <2> QED
    BY <1>1, <2>4, <2>5 DEF RowsTyped, Written
<1> QED
  BY <1>1, <1>2, <1>3 DEF StockTypeOK, StockInv, CostsInv, Costs, RowsTyped

-----------------------------------------------------------------------------
(* The service as a whole: what the transactions write *)

\* A step of the rows as committed is one that ShelfProofs is about.
LEMMA CommittedSteps == Committed!ShelfNext => CommittedShelf!ShelfNext
BY DEF Committed!ShelfNext, Committed!Reserve, Committed!Ship, Committed!Remove, Committed!Receive,
       Committed!Transfer, Committed!ReleaseOrder, Committed!CascadeHold, Committed!CanReserve,
       Committed!Reservable, Committed!Available, Committed!CanShip, Committed!ReservedAfter,
       Committed!HoldAfter, Committed!GivenBack, Committed!Lesser, Committed!AtLeastZero,
       Committed!NoHold, Committed!Quantities,
       CommittedShelf!ShelfNext, CommittedShelf!Reserve, CommittedShelf!Ship, CommittedShelf!Remove,
       CommittedShelf!Receive, CommittedShelf!Transfer, CommittedShelf!ReleaseOrder,
       CommittedShelf!CascadeHold, CommittedShelf!CanReserve, CommittedShelf!Reservable,
       CommittedShelf!Available, CommittedShelf!CanShip, CommittedShelf!ReservedAfter,
       CommittedShelf!HoldAfter, CommittedShelf!GivenBack, CommittedShelf!Lesser,
       CommittedShelf!AtLeastZero, CommittedShelf!NoHold, CommittedShelf!Quantities

\* What a transaction has released is on its way back, at no other warehouse.
LEMMA ReleasesOf ==
  ASSUME TransactionsInv, NEW s \in Slots, Movement(s) \/ Release(s)
  PROVE  \E step, hold, n :
           /\ n \in Nat
           /\ hold.quantity \in Nat
           /\ Released(hold) => LineReleased(s, step, hold, n)
           /\ RowsReleased(s, step, hold)
<1>1. CASE Movement(s)
  <2>1. PICK step, hold : step = slot[s].step /\ hold = slot[s].hold
    OBVIOUS
  <2>2. PICK move, total :
          /\ slot[s] = [step |-> step, hold |-> hold, move |-> move, total |-> total]
          /\ MovementAt(s, step, hold, move)
    BY <1>1, <2>1, MovementIs
  <2>3. hold.quantity \in Nat
    BY <2>2 DEF MovementAt, MoveLocals, HoldRecords
  <2>4. Released(hold) => -move.delta \in Nat
    BY <2>2, MaxQuantityAssumption DEF MovementAt, MoveLocals, MoveRecords, Quantities
  <2>5. CASE Released(hold)
    BY <2>2, <2>3, <2>4, <2>5 DEF MovementAt
  <2>6. CASE ~Released(hold)
    BY <2>2, <2>3, <2>6 DEF MovementAt
  <2> QED
    BY <2>5, <2>6
<1>2. CASE Release(s)
  <2>1. PICK step, hold : step = slot[s].step /\ hold = slot[s].hold
    OBVIOUS
  <2>2. ReleaseAt(s, step, hold)
    BY <1>2, <2>1, ReleaseIs
  <2> QED
    BY <2>2, MaxQuantityAssumption DEF ReleaseAt, ReleaseLocals, HoldRecords
<1> QED
  BY <1>1, <1>2

\* What is written in the level of a warehouse stays within what is on hand.
LEMMA WrittenWithinOnHand == TransactionsInv /\ Committed!NeverOversold => NeverOversold
<1> SUFFICES ASSUME TransactionsInv, Committed!NeverOversold, NEW w \in Warehouses
             PROVE  reserved[w] \in 0..onHand[w]
  BY DEF NeverOversold
<1>1. RowsTyped /\ FreeRowsAreCommitted /\ \A s \in Slots : OnItsWay(s)
  BY DEF TransactionsInv
<1>2. /\ committed.reserved[w] \in 0..committed.onHand[w]
      /\ committed.onHand[w] \in Int /\ onHand[w] \in Int /\ reserved[w] \in Nat
  BY <1>1 DEF Committed!NeverOversold, RowsTyped, ShelfRows, ShelfTypeOK
<1>3. w \in Rows /\ holder[w] \subseteq Slots
  BY <1>1 DEF Rows, RowsTyped
<1>4. CASE holder[w] = {}
  BY <1>1, <1>2, <1>4 DEF FreeRowsAreCommitted
<1>5. ASSUME NEW s \in holder[w], Movement(s) PROVE reserved[w] <= onHand[w]
  <2>1. PICK step, hold : step = slot[s].step /\ hold = slot[s].hold
    OBVIOUS
  <2>2. PICK move, total :
          /\ slot[s] = [step |-> step, hold |-> hold, move |-> move, total |-> total]
          /\ MovementAt(s, step, hold, move)
    BY <1>5, <2>1, MovementIs
  <2>3. hold.quantity \in Nat /\ move.delta \in Int
    BY <2>2 DEF MovementAt, MoveLocals, HoldRecords, MoveRecords
  <2>4. reserved[w] <= committed.reserved[w]
    BY <1>2, <2>2, <2>3 DEF MovementAt, RowsReleased, AtLeastZero
  <2>5. onHand[w] = committed.onHand[w] + Moved(step, move, w)
    BY <2>2 DEF MovementAt
  <2>6. CASE Moved(step, move, w) \in Nat
    BY <1>2, <2>4, <2>5, <2>6
  <2>7. CASE Moved(step, move, w) \notin Nat
    <3>1. /\ w = move.from /\ step \in {"stock.arrive", "stock.commit"}
          /\ Moved(step, move, w) = move.delta /\ move.delta < 0
      BY <2>2, <2>3, <2>7, NoWarehouseAssumption DEF Moved, MovementAt, MoveLocals
    <3>2. committed.onHand[w] - reserved[w] + move.delta >= 0
      BY <2>2, <3>1 DEF MovementAt, GoodsAreThere
    <3> QED
      BY <1>2, <2>3, <2>5, <3>1, <3>2
  <2> QED
    BY <2>6, <2>7
<1>6. ASSUME NEW s \in holder[w], Release(s) PROVE reserved[w] <= onHand[w]
  <2>1. PICK step, hold : step = slot[s].step /\ hold = slot[s].hold
    OBVIOUS
  <2>2. ReleaseAt(s, step, hold)
    BY <1>6, <2>1, ReleaseIs
  <2>3. hold.quantity \in Nat
    BY <2>2 DEF ReleaseAt, ReleaseLocals, HoldRecords
  <2>4. reserved[w] <= committed.reserved[w] /\ onHand[w] = committed.onHand[w]
    BY <1>2, <2>2, <2>3 DEF ReleaseAt, RowsReleased, AtLeastZero
  <2> QED
    BY <1>2, <2>4
<1>7. ASSUME NEW s \in holder[w], Reservation(s) PROVE reserved[w] <= onHand[w]
  <2>1. PICK step : step = slot[s].step
    OBVIOUS
  <2>2. PICK l, v, n :
          /\ slot[s] = [step |-> step, line |-> l, at |-> v, quantity |-> n]
          /\ ReservationAt(s, step, l, v, n)
    BY <1>7, <2>1, ReservationIs
  <2>3. n \in Nat
    BY <2>2, MaxQuantityAssumption DEF ReservationAt, Quantities
  <2>4. /\ onHand[w] = committed.onHand[w] /\ n <= committed.onHand[w] - committed.reserved[w]
        /\ reserved[w] = committed.reserved[w] + IF step = "stock.commit" THEN n ELSE 0
    BY <2>2 DEF ReservationAt
  <2> QED
    BY <1>2, <2>3, <2>4
<1>8. ASSUME NEW s \in holder[w] PROVE Movement(s) \/ Release(s) \/ Reservation(s)
  BY <1>1, <1>3 DEF OnItsWay, AtRest
<1> QED
  BY <1>2, <1>4, <1>5, <1>6, <1>7, <1>8

\* The units the rows h hold at a warehouse, one element each.
HeldUnits(h, w) ==
  {u \in Lines \X Quantities : h[u[1]].at = w /\ u[2] <= h[u[1]].quantity}

HeldShare(row, w) == IF row.at = w THEN row.quantity ELSE 0

\* Rows that hold no more than others hold no more units, of which there are
\* finitely many.
LEMMA FewerUnits ==
  ASSUME NEW g, NEW h, NEW w,
         \A l \in Lines : g[l].at = w =>
           h[l].at = w /\ g[l].quantity \in Int /\ h[l].quantity \in Int /\ g[l].quantity <= h[l].quantity
  PROVE  /\ Cardinality(HeldUnits(g, w)) <= Cardinality(HeldUnits(h, w))
         /\ Cardinality(HeldUnits(g, w)) \in Nat /\ Cardinality(HeldUnits(h, w)) \in Nat
<1>1. IsFiniteSet(Quantities)
  BY FS_Interval, MaxQuantityAssumption DEF Quantities
<1>2. IsFiniteSet(Lines \X Quantities)
  BY <1>1, FS_Product, LinesAssumption
<1>3. HeldUnits(h, w) \in SUBSET (Lines \X Quantities)
  BY DEF HeldUnits
<1>4. IsFiniteSet(HeldUnits(h, w))
  BY <1>2, <1>3, FS_Subset
<1>5. ASSUME NEW u \in HeldUnits(g, w) PROVE u \in HeldUnits(h, w)
  <2>1. u \in Lines \X Quantities /\ u[1] \in Lines /\ u[2] \in Int
    BY MaxQuantityAssumption DEF HeldUnits, Quantities
  <2>2. g[u[1]].at = w /\ u[2] <= g[u[1]].quantity
    BY DEF HeldUnits
  <2>3. h[u[1]].at = w /\ u[2] <= h[u[1]].quantity
    BY <2>1, <2>2
  <2> QED
    BY <2>1, <2>3 DEF HeldUnits
<1>6. HeldUnits(g, w) \in SUBSET HeldUnits(h, w)
  BY <1>5
<1> QED
  BY <1>4, <1>6, FS_Subset, FS_CardinalityType

\* Writing the row of one line changes the count by what that line holds.
LEMMA OneHoldWritten ==
  ASSUME NEW h \in [Lines -> Hold], NEW l \in Lines, NEW row \in Hold, NEW w \in Warehouses
  PROVE  Cardinality(HeldUnits([h EXCEPT ![l] = row], w)) =
           Cardinality(HeldUnits(h, w)) - HeldShare(h[l], w) + HeldShare(row, w)
<1>1. CommittedShelf!IsFiniteSet(Lines)
  <2>1. \A S : IsFiniteSet(S) = CommittedShelf!IsFiniteSet(S)
    BY Zenon DEF IsFiniteSet, CommittedShelf!IsFiniteSet
  <2> QED
    BY <2>1, LinesAssumption
<1>2. CommittedShelf!Hold = Hold
  BY DEF CommittedShelf!Hold, CommittedShelf!NoHold, CommittedShelf!Quantities, Hold, NoHold, Quantities
<1> DEFINE g == [h EXCEPT ![l] = row]
<1>3. CommittedShelf!Cardinality(CommittedShelf!Units(g, w)) =
        CommittedShelf!Cardinality(CommittedShelf!Units(h, w)) - CommittedShelf!Share(h, l, w)
          + CommittedShelf!Share(g, l, w)
  <2>1. h \in [Lines -> CommittedShelf!Hold] /\ row \in CommittedShelf!Hold
    BY <1>2
  <2> QED
    BY <1>1, <2>1, NoWarehouseAssumption, MaxQuantityAssumption, CommittedShelf!OneRowWritten, Zenon
<1>4. \A S : Cardinality(S) = CommittedShelf!Cardinality(S)
  BY DEF Cardinality, CommittedShelf!Cardinality
<1>5. \A f : HeldUnits(f, w) = CommittedShelf!Units(f, w)
  BY DEF HeldUnits, Quantities, CommittedShelf!Units, CommittedShelf!Quantities
<1>6. CommittedShelf!Share(h, l, w) = HeldShare(h[l], w) /\ CommittedShelf!Share(g, l, w) = HeldShare(row, w)
  BY DEF CommittedShelf!Share, HeldShare
<1> HIDE DEF g
<1>7. Cardinality(HeldUnits(g, w)) =
        Cardinality(HeldUnits(h, w)) - HeldShare(h[l], w) + HeldShare(row, w)
  BY <1>3, <1>4, <1>5, <1>6
<1> QED
  BY <1>7 DEF g

\* What holds at a warehouse is counted of the rows as committed.
Counted(h, level) == \A w \in Warehouses : Cardinality(HeldUnits(h, w)) <= level[w]

\* The row of a line that somebody has written holds no more than as committed,
\* except the new hold of a reservation, at a warehouse it has locked.
LEMMA LinesShrink ==
  ASSUME TransactionsInv, NEW l \in Lines, NEW w \in Warehouses, held[l].at = w,
         \A s \in holder[w] : Reservation(s) => s \notin holder[l] \/ l \notin StockLines
  PROVE  /\ committed.held[l].at = w
         /\ held[l].quantity \in Int /\ committed.held[l].quantity \in Int
         /\ held[l].quantity <= committed.held[l].quantity
<1>1. /\ held[l] \in Hold /\ committed.held[l] \in Hold
      /\ \A row \in Hold : row.quantity \in Nat
      /\ \A row \in Hold : row.quantity = 0 => row = NoHold
  BY MaxQuantityAssumption DEF TransactionsInv, RowsTyped, ShelfRows, ShelfTypeOK, Hold, NoHold, Quantities
<1>2. CASE l \notin StockLines \/ holder[l] = {}
  BY <1>1, <1>2 DEF TransactionsInv, FreeRowsAreCommitted
<1>3. ASSUME NEW s \in holder[l], l \in StockLines
      PROVE  committed.held[l].at = w /\ held[l].quantity <= committed.held[l].quantity
  <2>1. s \in Slots /\ ~AtRest(s) /\ OnItsWay(s)
    BY <1>3 DEF TransactionsInv, RowsTyped, AtRest, Rows
  <2>2. CASE Movement(s) \/ Release(s)
    <3>1. PICK step, hold, n :
            /\ n \in Nat /\ hold.quantity \in Nat
            /\ Released(hold) => LineReleased(s, step, hold, n)
            /\ RowsReleased(s, step, hold)
      BY <2>1, <2>2, ReleasesOf
    <3>2. LineReleased(s, step, hold, n) /\ l = hold.line
      BY <1>3, <3>1 DEF RowsReleased
    <3> DEFINE row == committed.held[l]
    <3>3. held[l] = IF row.quantity > n THEN [at |-> row.at, quantity |-> row.quantity - n] ELSE NoHold
      BY <3>2 DEF LineReleased
    <3>4. row.quantity > n
      BY <3>3, NoWarehouseAssumption DEF NoHold
    <3> QED
      BY <1>1, <3>1, <3>3, <3>4
  <2>3. CASE Reservation(s)
    <3>1. PICK step, k, v, n :
            /\ slot[s] = [step |-> step, line |-> k, at |-> v, quantity |-> n]
            /\ ReservationAt(s, step, k, v, n)
      BY <2>3, ReservationIs
    <3>2. held[l] = [at |-> v, quantity |-> n] /\ s \in holder[v]
      BY <1>3, <3>1 DEF ReservationAt
    <3> QED
      BY <1>3, <2>3, <3>2
  <2> QED
    BY <2>1, <2>2, <2>3 DEF OnItsWay
<1> QED
  BY <1>1, <1>2, <1>3

\* What is written in the level of a warehouse counts the holds written.
LEMMA WrittenIsCounted == TransactionsInv /\ Counted(committed.held, committed.reserved) => HoldsCovered
<1> SUFFICES ASSUME TransactionsInv, Counted(committed.held, committed.reserved), NEW w \in Warehouses
             PROVE  Cardinality(HeldUnits(held, w)) <= reserved[w]
  BY DEF HoldsCovered, UnitsHeld, HeldUnits
<1> DEFINE N(h) == Cardinality(HeldUnits(h, w))
<1>1. RowsTyped /\ OneHolder /\ FreeRowsAreCommitted /\ \A s \in Slots : OnItsWay(s)
  BY DEF TransactionsInv
<1>2. /\ committed.held \in [Lines -> Hold] /\ held \in [Lines -> Hold]
      /\ committed.reserved[w] \in Nat /\ reserved[w] \in Nat
      /\ w \in Rows /\ holder[w] \subseteq Slots
      /\ \A l \in StockLines : l \in Rows /\ l \in Lines
  BY <1>1, StockLinesAssumption DEF RowsTyped, ShelfRows, ShelfTypeOK, Rows
<1>3. N(committed.held) <= committed.reserved[w]
  BY DEF Counted
<1>4. N(committed.held) \in Nat /\ N(held) \in Nat
  <2>1. \A h \in [Lines -> Hold] : N(h) \in Nat
    <3> TAKE h \in [Lines -> Hold]
    <3>1. \A l \in Lines : h[l].quantity \in Int
      BY MaxQuantityAssumption DEF Hold, NoHold, Quantities
    <3> QED
      BY <3>1, FewerUnits
  <2> QED
    BY <1>2, <2>1
<1>5. ASSUME \A s \in holder[w] : ~Reservation(s) PROVE N(held) <= N(committed.held)
  BY <1>5, LinesShrink, FewerUnits
<1>6. CASE holder[w] = {}
  <2>1. reserved[w] = committed.reserved[w]
    BY <1>1, <1>6 DEF FreeRowsAreCommitted
  <2> HIDE DEF N
  <2> QED
    BY <1>2, <1>3, <1>4, <1>5, <1>6, <2>1 DEF N
<1>7. ASSUME NEW s \in holder[w], NEW k \in StockLines, s \in holder[k],
             \A r \in holder[w] : Reservation(r) => \A l \in StockLines : s \in holder[l] => l = k
      PROVE  N(held) <= N(committed.held) - HeldShare(committed.held[k], w) + HeldShare(held[k], w)
  <2> DEFINE g == [committed.held EXCEPT ![k] = held[k]]
  <2>1. N(g) = N(committed.held) - HeldShare(committed.held[k], w) + HeldShare(held[k], w)
    BY <1>2, OneHoldWritten
  <2>2. ASSUME NEW l \in Lines, held[l].at = w
        PROVE  /\ g[l].at = w /\ held[l].quantity \in Int /\ g[l].quantity \in Int
               /\ held[l].quantity <= g[l].quantity
    <3>1. CASE l = k
      <4>1. held[l].quantity \in Int
        BY <1>2, MaxQuantityAssumption DEF Hold, NoHold, Quantities
      <4> QED
        BY <1>2, <2>2, <3>1, <4>1
    <3>2. CASE l # k
      <4>1. \A r \in holder[w] : r = s
        BY <1>1, <1>2, <1>7 DEF OneHolder
      <4>2. \A r \in holder[w] : Reservation(r) => r \notin holder[l] \/ l \notin StockLines
        BY <1>7, <3>2, <4>1
      <4>3. g[l] = committed.held[l]
        BY <1>2, <3>2
      <4> QED
        BY <2>2, <4>2, <4>3, LinesShrink
    <3> QED
      BY <3>1, <3>2
  <2>3. N(held) <= N(g)
    BY <2>2, FewerUnits
  <2> QED
    BY <2>1, <2>3
<1>8. ASSUME NEW s \in holder[w], Movement(s) \/ Release(s) PROVE N(held) <= reserved[w]
  <2>1. PICK step, hold, n :
          /\ n \in Nat /\ hold.quantity \in Nat
          /\ Released(hold) => LineReleased(s, step, hold, n)
          /\ RowsReleased(s, step, hold)
    BY <1>2, <1>8, ReleasesOf
  <2>2. ASSUME NEW r \in holder[w] PROVE r = s /\ ~Reservation(r)
    BY <1>1, <1>2, <1>8, <2>2 DEF OneHolder, Movement, Release, Reservation
  <2>3. CASE w # hold.at
    <3>1. reserved[w] = committed.reserved[w]
      BY <1>8, <2>1, <2>3 DEF RowsReleased
    <3> HIDE DEF N
    <3> QED
      BY <1>2, <1>3, <1>4, <1>5, <2>2, <3>1 DEF N
  <2>4. CASE w = hold.at
    <3>1. LineReleased(s, step, hold, n)
      BY <2>1, <2>4, NoWarehouseAssumption DEF Released
    <3> PICK k \in StockLines : k = hold.line
      BY <3>1 DEF LineReleased
    <3> DEFINE row == committed.held[k]
    <3>2. /\ s \in holder[k] /\ row.at = w /\ row.quantity \in Nat
          /\ hold.quantity = Lesser(n, row.quantity)
          /\ held[k] = IF row.quantity > n THEN [at |-> w, quantity |-> row.quantity - n] ELSE NoHold
      BY <1>2, <2>4, <3>1, MaxQuantityAssumption DEF LineReleased, Hold, NoHold, Quantities
    <3>3. reserved[w] = AtLeastZero(committed.reserved[w] - hold.quantity)
      BY <1>8, <2>1, <2>4 DEF RowsReleased
    <3>4. N(held) <= N(committed.held) - HeldShare(row, w) + HeldShare(held[k], w)
      BY <1>7, <1>8, <2>2, <3>2
    <3>5. HeldShare(row, w) = row.quantity /\ HeldShare(held[k], w) = row.quantity - hold.quantity
      BY <2>1, <3>2, NoWarehouseAssumption DEF HeldShare, Lesser, NoHold
    <3> HIDE DEF N, row
    <3>6. N(held) <= N(committed.held) - hold.quantity
      BY <1>4, <2>1, <3>2, <3>4, <3>5
    <3> QED
      BY <1>2, <1>3, <1>4, <2>1, <3>3, <3>6 DEF N, AtLeastZero
  <2> QED
    BY <2>3, <2>4
<1>9. ASSUME NEW s \in holder[w], Reservation(s) PROVE N(held) <= reserved[w]
  <2>1. PICK step, k, v, n :
          /\ slot[s] = [step |-> step, line |-> k, at |-> v, quantity |-> n]
          /\ ReservationAt(s, step, k, v, n)
    BY <1>9, ReservationIs
  <2>2. /\ w = v /\ n \in Nat /\ k \in StockLines
        /\ reserved[w] = committed.reserved[w] + IF step = "stock.commit" THEN n ELSE 0
        /\ \A l \in StockLines : s \in holder[l] => step = "stock.commit" /\ l = k
    BY <1>9, <2>1, MaxQuantityAssumption DEF ReservationAt, Quantities
  <2>3. \A r \in holder[w] : r = s
    BY <1>1, <1>2, <1>9 DEF OneHolder
  <2>4. CASE step = "stock.commit"
    <3>1. s \in holder[k] /\ committed.held[k] = NoHold /\ held[k] = [at |-> v, quantity |-> n]
      BY <2>1, <2>4 DEF ReservationAt
    <3>2. HeldShare(committed.held[k], w) = 0 /\ HeldShare(held[k], w) = n
      BY <2>2, <3>1, NoWarehouseAssumption DEF HeldShare, NoHold
    <3>3. N(held) <= N(committed.held) - HeldShare(committed.held[k], w) + HeldShare(held[k], w)
      BY <1>7, <2>2, <3>1
    <3> HIDE DEF N
    <3>4. N(held) <= N(committed.held) + n
      BY <1>4, <2>2, <3>2, <3>3
    <3>5. reserved[w] = committed.reserved[w] + n
      BY <2>2, <2>4
    <3> QED
      BY <1>2, <1>3, <1>4, <2>2, <3>4, <3>5
  <2>5. CASE step # "stock.commit"
    <3>1. reserved[w] = committed.reserved[w]
      BY <1>2, <2>2, <2>5
    <3>2. \A r \in holder[w], l \in Lines : r \notin holder[l] \/ l \notin StockLines
      BY <2>2, <2>3, <2>5
    <3>3. N(held) <= N(committed.held)
      BY <3>2, LinesShrink, FewerUnits
    <3> HIDE DEF N
    <3> QED
      BY <1>2, <1>3, <1>4, <3>1, <3>3
  <2> QED
    BY <2>4, <2>5
<1>10. ASSUME NEW s \in holder[w] PROVE Movement(s) \/ Release(s) \/ Reservation(s)
  BY <1>1, <1>2 DEF OnItsWay, AtRest
<1> QED
  BY <1>6, <1>8, <1>9, <1>10

\* The names of this module's constants are as ShelfProofs assumes them.
LEMMA CommittedAssumptions ==
  CommittedShelf!IsFiniteSet(Lines) /\ NoWarehouse \notin Warehouses /\ MaxQuantity \in Nat \ {0}
<1>1. \A S : IsFiniteSet(S) = CommittedShelf!IsFiniteSet(S)
  BY Zenon DEF IsFiniteSet, CommittedShelf!IsFiniteSet
<1> QED
  BY <1>1, LinesAssumption, NoWarehouseAssumption, MaxQuantityAssumption

\* What the service commits behaves as the Shelf of module Shelf.
LEMMA ServiceIsAShelf == ServiceSpec => CommittedShelf!ShelfSpec
<1>1. Committed!ShelfInit => CommittedShelf!ShelfInit
  BY DEF Committed!ShelfInit, Committed!NoHold, CommittedShelf!ShelfInit, CommittedShelf!NoHold
<1>2. [Committed!ShelfNext]_(Committed!shelfVars) => [CommittedShelf!ShelfNext]_(CommittedShelf!shelfVars)
  BY CommittedSteps DEF Committed!shelfVars, CommittedShelf!shelfVars
<1> QED
  BY <1>1, <1>2, ServiceImplementsShelf, PTL
     DEF TransactionsAreSteps, Committed!ShelfSpec, CommittedShelf!ShelfSpec

\* NeverOversold, as written: not even the rows of a transaction under way
\* promise what their warehouse does not have.
THEOREM ServiceNeverOversells == ServiceSpec => []NeverOversold
<1>1. CommittedShelf!ShelfSpec => []CommittedShelf!NeverOversold
  BY CommittedAssumptions, CommittedShelf!Promises
<1>2. CommittedShelf!NeverOversold => Committed!NeverOversold
  BY DEF CommittedShelf!NeverOversold, Committed!NeverOversold
<1>3. GoodsInv /\ Committed!NeverOversold => NeverOversold
  BY WrittenWithinOnHand DEF GoodsInv
<1> QED
  BY <1>1, <1>2, <1>3, ServiceIsAShelf, GoodsInvAlways, PTL

\* HoldsCovered, as written: at no statement of any transaction does a level
\* count less than the reservation rows hold.
THEOREM ServiceCoversHolds == ServiceSpec => []HoldsCovered
<1>1. CommittedShelf!ShelfSpec => []CommittedShelf!HoldsCovered
  BY CommittedAssumptions, CommittedShelf!Coverage
<1>2. CommittedShelf!HoldsCovered => Counted(committed.held, committed.reserved)
  <2>1. \A S : Cardinality(S) = CommittedShelf!Cardinality(S)
    BY DEF Cardinality, CommittedShelf!Cardinality
  <2>2. \A w \in Warehouses : CommittedShelf!UnitsHeld(w) = HeldUnits(committed.held, w)
    BY DEF CommittedShelf!UnitsHeld, CommittedShelf!Quantities, HeldUnits, Quantities
  <2> QED
    BY <2>1, <2>2 DEF CommittedShelf!HoldsCovered, Counted
<1>3. GoodsInv /\ Counted(committed.held, committed.reserved) => HoldsCovered
  BY WrittenIsCounted DEF GoodsInv
<1> QED
  BY <1>1, <1>2, <1>3, ServiceIsAShelf, GoodsInvAlways, PTL

=============================================================================
