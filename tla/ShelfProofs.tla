---------------------------- MODULE ShelfProofs ----------------------------
(***************************************************************************)
(* What the stock transactions guarantee for every set of warehouses and   *)
(* lines and every bound on a quantity.  The argument is one invariant,    *)
(* ShelfInv: columns have their type, no level promises more than it has,  *)
(* and every unit a row holds is counted in a level.  The last part is     *)
(* about the number of units held, so the counting comes first.            *)
(***************************************************************************)
EXTENDS Shelf, FiniteSetTheorems, TLAPS

ShelfInv == ShelfTypeOK /\ NeverOversold /\ HoldsCovered

\* The units that the rows h hold at w, and those of one line among them.
Units(h, w) ==
  {u \in Lines \X Quantities : h[u[1]].at = w /\ u[2] <= h[u[1]].quantity}

Share(h, l, w) == IF h[l].at = w THEN h[l].quantity ELSE 0

Without(h, l) == [h EXCEPT ![l] = NoHold]

\* The units a level counts as promised though no row holds them.
Uncounted(w) == reserved[w] - Cardinality(Units(held, w))

-----------------------------------------------------------------------------
(* Counting units *)

\* Only finitely many units are ever held: the count is a natural number.
LEMMA UnitsFinite ==
  ASSUME NEW h, NEW w
  PROVE  IsFiniteSet(Units(h, w)) /\ Cardinality(Units(h, w)) \in Nat
<1>1. IsFiniteSet(Quantities)
  BY FS_Interval, MaxQuantityAssumption DEF Quantities
<1>2. IsFiniteSet(Lines \X Quantities)
  BY <1>1, FS_Product, LinesAssumption
<1>3. Units(h, w) \in SUBSET (Lines \X Quantities)
  BY DEF Units
<1> QED
  BY <1>2, <1>3, FS_Subset, FS_CardinalityType

\* A line holds a natural number of units, at a warehouse none without a row.
LEMMA ShareNatural ==
  ASSUME NEW h \in [Lines -> Hold], NEW l \in Lines, NEW w \in Warehouses
  PROVE  /\ Share(h, l, w) \in 0..MaxQuantity
         /\ h[l] = NoHold => Share(h, l, w) = 0
BY NoWarehouseAssumption, MaxQuantityAssumption
   DEF Share, Hold, NoHold, Quantities

\* What is held at a warehouse is what one line holds there and what the
\* others do.
LEMMA UnitsSplit ==
  ASSUME NEW h \in [Lines -> Hold], NEW l \in Lines, NEW w \in Warehouses
  PROVE  Cardinality(Units(h, w)) =
           Cardinality(Units(Without(h, l), w)) + Share(h, l, w)
<1> DEFINE Own == {l} \X (1..Share(h, l, w))
           Rest == Units(Without(h, l), w)
<1>1. Share(h, l, w) \in 0..MaxQuantity
  BY ShareNatural
<1>2. IsFiniteSet(1..Share(h, l, w)) /\ Cardinality(1..Share(h, l, w)) = Share(h, l, w)
  BY <1>1, FS_Interval, MaxQuantityAssumption
<1>3. IsFiniteSet({l}) /\ Cardinality({l}) = 1
  BY FS_Singleton
<1>4. IsFiniteSet(Own) /\ Cardinality(Own) = Share(h, l, w)
  <2> DEFINE n == 1..Share(h, l, w)
  <2>1. IsFiniteSet(n) /\ Cardinality(n) = Share(h, l, w)
    BY <1>2
  <2> HIDE DEF n
  <2>2. /\ IsFiniteSet({l} \X n)
        /\ Cardinality({l} \X n) = Cardinality({l}) * Cardinality(n)
    BY <2>1, <1>3, FS_Product
  <2>3. 1 * Share(h, l, w) = Share(h, l, w)
    BY <1>1, MaxQuantityAssumption
  <2> QED
    BY <2>1, <2>2, <2>3, <1>3 DEF n
<1>5. Units(h, w) = Rest \cup Own
  <2>1. ASSUME NEW u \in Lines \X Quantities
        PROVE  u \in Units(h, w) <=> u \in Rest \cup Own
    <3>1. CASE u[1] = l
      <4>1. u \notin Rest
        BY <3>1, NoWarehouseAssumption DEF Units, Without, NoHold
      <4>2. u \in Own <=> u[2] \in 1..Share(h, l, w)
        BY <3>1
      <4>3. u \in Units(h, w) <=> u[2] \in 1..Share(h, l, w)
        BY <3>1, MaxQuantityAssumption DEF Units, Share, Quantities, Hold, NoHold
      <4> QED
        BY <4>1, <4>2, <4>3
    <3>2. CASE u[1] # l
      BY <3>2 DEF Units, Without
    <3> QED
      BY <3>1, <3>2
  <2>2. Own \subseteq Lines \X Quantities
    BY <1>1, MaxQuantityAssumption DEF Quantities
  <2>3. Rest \subseteq Lines \X Quantities /\ Units(h, w) \subseteq Lines \X Quantities
    BY DEF Units
  <2> QED
    BY <2>1, <2>2, <2>3
<1>6. Rest \cap Own = {}
  BY NoWarehouseAssumption DEF Units, Without, NoHold
<1>7. IsFiniteSet(Rest) /\ Cardinality(Rest) \in Nat
  BY UnitsFinite
<1>8. Cardinality(Rest \cup Own) = Cardinality(Rest) + Cardinality(Own) - Cardinality(Rest \cap Own)
  BY <1>4, <1>7, FS_Union
<1>9. Cardinality(Rest \cap Own) = 0
  BY <1>6, FS_EmptySet
<1> HIDE DEF Own, Rest
<1>10. Cardinality(Units(h, w)) = Cardinality(Rest) + Share(h, l, w)
  BY <1>1, <1>4, <1>5, <1>7, <1>8, <1>9, MaxQuantityAssumption
<1> QED
  BY <1>10 DEF Rest

\* Writing the row of one line changes the count by what that line holds.
LEMMA OneRowWritten ==
  ASSUME NEW h \in [Lines -> Hold], NEW l \in Lines, NEW row \in Hold,
         NEW w \in Warehouses
  PROVE  Cardinality(Units([h EXCEPT ![l] = row], w)) =
           Cardinality(Units(h, w)) - Share(h, l, w)
             + Share([h EXCEPT ![l] = row], l, w)
<1> DEFINE g == [h EXCEPT ![l] = row]
<1>1. g \in [Lines -> Hold] /\ Without(g, l) = Without(h, l)
  BY DEF Without
<1> HIDE DEF g
<1>2. Cardinality(Units(h, w)) = Cardinality(Units(Without(h, l), w)) + Share(h, l, w)
  BY UnitsSplit
<1>3. Cardinality(Units(g, w)) = Cardinality(Units(Without(h, l), w)) + Share(g, l, w)
  BY <1>1, UnitsSplit
<1>4. Cardinality(Units(Without(h, l), w)) \in Nat
  BY UnitsFinite
<1>5. Share(h, l, w) \in 0..MaxQuantity /\ Share(g, l, w) \in 0..MaxQuantity
  BY <1>1, ShareNatural
<1>6. Cardinality(Units(g, w)) = Cardinality(Units(h, w)) - Share(h, l, w) + Share(g, l, w)
  BY <1>2, <1>3, <1>4, <1>5, MaxQuantityAssumption
<1> QED
  BY <1>6 DEF g

\* A line never holds more at a warehouse than the rows together do.
LEMMA ShareCounted ==
  ASSUME NEW h \in [Lines -> Hold], NEW l \in Lines, NEW w \in Warehouses
  PROVE  Share(h, l, w) <= Cardinality(Units(h, w))
<1>1. Cardinality(Units(h, w)) = Cardinality(Units(Without(h, l), w)) + Share(h, l, w)
  BY UnitsSplit
<1>2. Cardinality(Units(Without(h, l), w)) \in Nat
  BY UnitsFinite
<1>3. Share(h, l, w) \in 0..MaxQuantity
  BY ShareNatural
<1> QED
  BY <1>1, <1>2, <1>3, MaxQuantityAssumption

-----------------------------------------------------------------------------
(* The invariant *)

\* HoldsCovered in terms of Units, which can be applied to rows not yet
\* written.
LEMMA CoveredUnits ==
  HoldsCovered <=> \A w \in Warehouses : Cardinality(Units(held, w)) <= reserved[w]
BY DEF HoldsCovered, UnitsHeld, Units

\* The clamp at zero in release_line and release_into is never needed: what is
\* handed back is counted in the level it is handed back to.
LEMMA ClampNeverNeeded ==
  ASSUME ShelfInv, NEW l \in Lines, NEW n \in Nat, NEW w \in Warehouses
  PROVE  /\ GivenBack(l, n) \in 0..MaxQuantity
         /\ ReservedAfter(l, n)[w] =
              IF w = held[l].at THEN reserved[w] - GivenBack(l, n) ELSE reserved[w]
         /\ ReservedAfter(l, n)[w] \in 0..reserved[w]
<1>1. held \in [Lines -> Hold] /\ held[l] \in Hold /\ reserved[w] \in Nat
  BY DEF ShelfInv, ShelfTypeOK
<1>2. GivenBack(l, n) \in 0..MaxQuantity
  BY <1>1, MaxQuantityAssumption DEF GivenBack, Lesser, Hold, NoHold, Quantities
<1>3. CASE w = held[l].at
  <2>1. Share(held, l, w) <= Cardinality(Units(held, w))
    BY <1>1, ShareCounted
  <2>2. Cardinality(Units(held, w)) <= reserved[w]
    BY CoveredUnits DEF ShelfInv
  <2>3. Cardinality(Units(held, w)) \in Nat
    BY UnitsFinite
  <2>4. GivenBack(l, n) <= Share(held, l, w) /\ Share(held, l, w) \in Nat
    BY <1>1, <1>3, MaxQuantityAssumption
       DEF GivenBack, Lesser, Share, Hold, NoHold, Quantities
  <2>5. GivenBack(l, n) <= reserved[w]
    BY <1>1, <1>2, <2>1, <2>2, <2>3, <2>4, MaxQuantityAssumption
  <2> QED
    BY <1>1, <1>2, <1>3, <2>5, MaxQuantityAssumption DEF ReservedAfter, AtLeastZero
<1>4. CASE w # held[l].at
  BY <1>1, <1>2, <1>4 DEF ReservedAfter
<1> QED
  BY <1>3, <1>4

\* An empty shelf promises nothing.
LEMMA InitInv == ShelfInit => ShelfInv
<1> SUFFICES ASSUME ShelfInit PROVE ShelfInv
  OBVIOUS
<1>1. ShelfTypeOK
  BY DEF ShelfInit, ShelfTypeOK, Hold
<1>2. NeverOversold
  BY DEF ShelfInit, NeverOversold
<1>3. HoldsCovered
  <2> SUFFICES ASSUME NEW w \in Warehouses
               PROVE  Cardinality(Units(held, w)) <= reserved[w]
    BY CoveredUnits
  <2>1. Units(held, w) = {}
    BY NoWarehouseAssumption DEF Units, ShelfInit, NoHold
  <2> QED
    BY <2>1, FS_EmptySet DEF ShelfInit
<1> QED
  BY <1>1, <1>2, <1>3 DEF ShelfInv

\* Reserving counts in the level exactly what it writes in the row.
LEMMA ReserveInv ==
  ASSUME ShelfInv, NEW l \in Lines, NEW w \in Warehouses, NEW n \in Quantities,
         Reserve(l, w, n)
  PROVE  ShelfInv' /\ \A v \in Warehouses : Uncounted(v)' = Uncounted(v)
<1> DEFINE k == Reservable(w, n)
           row == [at |-> w, quantity |-> k]
<1>1. /\ held \in [Lines -> Hold] /\ reserved \in [Warehouses -> Nat]
      /\ onHand \in [Warehouses -> Int]
  BY DEF ShelfInv, ShelfTypeOK
<1>2. k \in Quantities /\ k <= onHand[w] - reserved[w]
  BY <1>1, MaxQuantityAssumption
     DEF Reserve, CanReserve, Reservable, Available, AtLeastZero, Lesser, Quantities
<1>3. row \in Hold
  BY <1>2 DEF Hold
<1>4. /\ held' = [held EXCEPT ![l] = row]
      /\ reserved' = [reserved EXCEPT ![w] = @ + k]
      /\ onHand' = onHand /\ held[l] = NoHold
  BY DEF Reserve, CanReserve
<1> HIDE DEF k
<1>5. ShelfTypeOK'
  BY <1>1, <1>2, <1>3, <1>4, MaxQuantityAssumption DEF ShelfTypeOK, Quantities
<1>6. NeverOversold'
  BY <1>1, <1>2, <1>4, MaxQuantityAssumption
     DEF ShelfInv, NeverOversold, Quantities
<1>7. ASSUME NEW v \in Warehouses
      PROVE  /\ Cardinality(Units(held', v)) <= reserved'[v]
             /\ Uncounted(v)' = Uncounted(v)
  <2>1. Cardinality(Units(held', v)) =
          Cardinality(Units(held, v)) - Share(held, l, v) + Share(held', l, v)
    BY <1>1, <1>3, <1>4, OneRowWritten
  <2>2. Share(held, l, v) = 0
    BY <1>1, <1>4, ShareNatural
  <2>3. Share(held', l, v) = IF v = w THEN k ELSE 0
    BY <1>1, <1>4 DEF Share
  <2>4. Cardinality(Units(held, v)) <= reserved[v]
    BY CoveredUnits DEF ShelfInv
  <2>5. Cardinality(Units(held, v)) \in Nat
    BY UnitsFinite
  <2> QED
    BY <1>1, <1>2, <1>4, <2>1, <2>2, <2>3, <2>4, <2>5, MaxQuantityAssumption
       DEF Quantities, Uncounted, Units
<1>8. HoldsCovered'
  BY <1>7 DEF HoldsCovered, UnitsHeld, Units
<1> QED
  BY <1>5, <1>6, <1>7, <1>8 DEF ShelfInv

\* Handing back part of a hold, as release_line writes it to the row and to the
\* level, keeps the columns typed, the levels no higher and the rows covered.
LEMMA HandBack ==
  ASSUME ShelfInv, NEW l \in Lines, NEW n \in Nat,
         held' = [held EXCEPT ![l] = HoldAfter(l, n)],
         reserved' = ReservedAfter(l, n)
  PROVE  /\ held' \in [Lines -> Hold]
         /\ reserved' \in [Warehouses -> Nat]
         /\ \A w \in Warehouses : reserved'[w] <= reserved[w]
         /\ HoldsCovered'
         /\ \A w \in Warehouses : Uncounted(w)' = Uncounted(w)
<1>1. held \in [Lines -> Hold] /\ held[l] \in Hold /\ reserved \in [Warehouses -> Nat]
  BY DEF ShelfInv, ShelfTypeOK
<1>2. HoldAfter(l, n) \in Hold
  BY <1>1, MaxQuantityAssumption DEF HoldAfter, Hold, NoHold, Quantities
<1>3. held' \in [Lines -> Hold]
  BY <1>1, <1>2
<1>4. reserved' \in [Warehouses -> Nat] /\ \A w \in Warehouses : reserved'[w] <= reserved[w]
  <2>1. \A w \in Warehouses : ReservedAfter(l, n)[w] \in 0..reserved[w]
    BY ClampNeverNeeded
  <2>2. ReservedAfter(l, n) = [w \in Warehouses |-> ReservedAfter(l, n)[w]]
    BY DEF ReservedAfter
  <2> QED
    BY <1>1, <2>1, <2>2
<1>5. ASSUME NEW w \in Warehouses
      PROVE  /\ Cardinality(Units(held', w)) <= reserved'[w]
             /\ Uncounted(w)' = Uncounted(w)
  <2>1. Cardinality(Units(held', w)) =
          Cardinality(Units(held, w)) - Share(held, l, w) + Share(held', l, w)
    BY <1>1, <1>2, OneRowWritten
  <2>2. /\ Share(held, l, w) \in Nat
        /\ Share(held', l, w) =
             IF held[l].at = w THEN Share(held, l, w) - GivenBack(l, n) ELSE 0
    BY <1>1, NoWarehouseAssumption, MaxQuantityAssumption
       DEF Share, HoldAfter, GivenBack, Lesser, Hold, NoHold, Quantities
  <2>3. Share(held, l, w) = 0 \/ held[l].at = w
    BY DEF Share
  <2>4. Cardinality(Units(held, w)) <= reserved[w]
    BY CoveredUnits DEF ShelfInv
  <2>5. Cardinality(Units(held, w)) \in Nat
    BY UnitsFinite
  <2>6. /\ GivenBack(l, n) \in 0..MaxQuantity
        /\ reserved'[w] = IF w = held[l].at THEN reserved[w] - GivenBack(l, n)
                                            ELSE reserved[w]
    BY ClampNeverNeeded
  <2> QED
    BY <1>1, <2>1, <2>2, <2>3, <2>4, <2>5, <2>6, MaxQuantityAssumption DEF Uncounted, Units
<1>6. HoldsCovered'
  BY <1>5 DEF HoldsCovered, UnitsHeld, Units
<1> QED
  BY <1>3, <1>4, <1>5, <1>6

\* What ships was available, and the rest of its hold stays counted.
LEMMA ShipInv ==
  ASSUME ShelfInv, NEW l \in Lines, NEW w \in Warehouses, NEW n \in Quantities,
         Ship(l, w, n)
  PROVE  ShelfInv' /\ \A v \in Warehouses : Uncounted(v)' = Uncounted(v)
<1>1. onHand \in [Warehouses -> Int] /\ n \in Nat /\ reserved \in [Warehouses -> Nat]
  BY MaxQuantityAssumption DEF ShelfInv, ShelfTypeOK, Quantities
<1>2. /\ held' \in [Lines -> Hold]
      /\ reserved' \in [Warehouses -> Nat]
      /\ \A v \in Warehouses : reserved'[v] <= reserved[v]
      /\ HoldsCovered'
      /\ \A v \in Warehouses : Uncounted(v)' = Uncounted(v)
  BY <1>1, HandBack DEF Ship
<1>3. onHand' = [onHand EXCEPT ![w] = @ - n] /\ onHand[w] - reserved'[w] >= n
  BY DEF Ship, CanShip
<1>4. ShelfTypeOK'
  BY <1>1, <1>2, <1>3 DEF ShelfTypeOK
<1>5. NeverOversold'
  BY <1>1, <1>2, <1>3 DEF ShelfInv, NeverOversold
<1> QED
  BY <1>2, <1>4, <1>5 DEF ShelfInv

\* A released row hands back all it held.
LEMMA ReleaseOrderInv ==
  ASSUME ShelfInv, NEW l \in Lines, ReleaseOrder(l)
  PROVE  ShelfInv' /\ \A w \in Warehouses : Uncounted(w)' = Uncounted(w)
<1> DEFINE q == held[l].quantity
<1>1. q \in Nat /\ HoldAfter(l, q) = NoHold /\ onHand \in [Warehouses -> Int]
  BY MaxQuantityAssumption
     DEF ShelfInv, ShelfTypeOK, HoldAfter, Hold, NoHold, Quantities
<1>2. /\ held' = [held EXCEPT ![l] = HoldAfter(l, q)]
      /\ reserved' = ReservedAfter(l, q) /\ onHand' = onHand
  BY <1>1 DEF ReleaseOrder
<1> HIDE DEF q
<1>3. /\ held' \in [Lines -> Hold]
      /\ reserved' \in [Warehouses -> Nat]
      /\ \A v \in Warehouses : reserved'[v] <= reserved[v]
      /\ HoldsCovered'
      /\ \A v \in Warehouses : Uncounted(v)' = Uncounted(v)
  BY <1>1, <1>2, HandBack
<1>4. NeverOversold'
  BY <1>1, <1>2, <1>3 DEF ShelfInv, ShelfTypeOK, NeverOversold
<1> QED
  BY <1>1, <1>2, <1>3, <1>4 DEF ShelfInv, ShelfTypeOK

\* A cascade leaves the level where it was: it can only be too high.
LEMMA CascadeHoldInv ==
  ASSUME ShelfInv, NEW l \in Lines, CascadeHold(l)
  PROVE  ShelfInv'
<1>1. held \in [Lines -> Hold] /\ reserved \in [Warehouses -> Nat] /\ NoHold \in Hold
  BY DEF ShelfInv, ShelfTypeOK, Hold
<1>2. held' = [held EXCEPT ![l] = NoHold] /\ reserved' = reserved /\ onHand' = onHand
  BY DEF CascadeHold
<1>3. ShelfTypeOK' /\ NeverOversold'
  BY <1>1, <1>2 DEF ShelfInv, ShelfTypeOK, NeverOversold
<1>4. ASSUME NEW w \in Warehouses
      PROVE  Cardinality(Units(held', w)) <= reserved'[w]
  <2>1. Cardinality(Units(held', w)) =
          Cardinality(Units(held, w)) - Share(held, l, w) + Share(held', l, w)
    BY <1>1, <1>2, OneRowWritten
  <2>2. Share(held', l, w) = 0 /\ Share(held, l, w) \in 0..MaxQuantity
    BY <1>1, <1>2, ShareNatural
  <2>3. Cardinality(Units(held, w)) <= reserved[w]
    BY CoveredUnits DEF ShelfInv
  <2>4. Cardinality(Units(held, w)) \in Nat
    BY UnitsFinite
  <2> QED
    BY <1>1, <1>2, <2>1, <2>2, <2>3, <2>4, MaxQuantityAssumption
<1>5. HoldsCovered'
  BY <1>4 DEF HoldsCovered, UnitsHeld, Units
<1> QED
  BY <1>3, <1>5 DEF ShelfInv

\* A movement that no line stands behind leaves rows and levels of promises
\* alone, and takes only what is available.
LEMMA MovementInv ==
  ASSUME ShelfInv, NEW w \in Warehouses, NEW n \in Quantities,
         \/ Remove(w, n)
         \/ Receive(w, n)
         \/ \E v \in Warehouses : Transfer(w, v, n)
  PROVE  ShelfInv' /\ \A v \in Warehouses : Uncounted(v)' = Uncounted(v)
<1>1. /\ onHand \in [Warehouses -> Int] /\ reserved \in [Warehouses -> Nat]
      /\ n \in Nat /\ UNCHANGED <<reserved, held>>
  BY MaxQuantityAssumption
     DEF ShelfInv, ShelfTypeOK, Quantities, Remove, Receive, Transfer
<1>2. HoldsCovered'
  BY <1>1 DEF ShelfInv, HoldsCovered, UnitsHeld
<1>3. onHand' \in [Warehouses -> Int]
  BY <1>1 DEF Remove, Receive, Transfer
<1>4. \A v \in Warehouses : reserved[v] <= onHand'[v]
  BY <1>1 DEF ShelfInv, NeverOversold, Remove, Receive, Transfer, Available
<1> QED
  BY <1>1, <1>2, <1>3, <1>4 DEF ShelfInv, ShelfTypeOK, NeverOversold, Uncounted, Units

\* Every transaction keeps the invariant.
LEMMA NextInv == ShelfInv /\ [ShelfNext]_shelfVars => ShelfInv'
<1> SUFFICES ASSUME ShelfInv, [ShelfNext]_shelfVars PROVE ShelfInv'
  OBVIOUS
<1>1. CASE \E w \in Warehouses, n \in Quantities, l \in Lines : Reserve(l, w, n)
  BY <1>1, ReserveInv
<1>2. CASE \E w \in Warehouses, n \in Quantities, l \in Lines : Ship(l, w, n)
  BY <1>2, ShipInv
<1>3. CASE \E w \in Warehouses, n \in Quantities :
             \/ Remove(w, n)
             \/ Receive(w, n)
             \/ \E v \in Warehouses : Transfer(w, v, n)
  BY <1>3, MovementInv
<1>4. CASE \E l \in Lines : ReleaseOrder(l)
  BY <1>4, ReleaseOrderInv
<1>5. CASE \E l \in Lines : CascadeHold(l)
  BY <1>5, CascadeHoldInv
<1>6. CASE UNCHANGED shelfVars
  BY <1>6 DEF shelfVars, ShelfInv, ShelfTypeOK, NeverOversold, HoldsCovered, UnitsHeld
<1> QED
  BY <1>1, <1>2, <1>3, <1>4, <1>5, <1>6 DEF ShelfNext

\* The invariant of every behaviour of the shelf.
LEMMA InvAlways == ShelfSpec => []ShelfInv
BY InitInv, NextInv, PTL DEF ShelfSpec

\* Every transaction but the cascade counts and uncounts exactly what it writes
\* to the rows.
StepWithoutCascade ==
  \/ \E w \in Warehouses, n \in Quantities :
       \/ \E l \in Lines : Reserve(l, w, n) \/ Ship(l, w, n)
       \/ Remove(w, n)
       \/ Receive(w, n)
       \/ \E v \in Warehouses : Transfer(w, v, n)
  \/ \E l \in Lines : ReleaseOrder(l)

CountedExactly == \A w \in Warehouses : Cardinality(UnitsHeld(w)) = reserved[w]

\* Only a cascade makes a level count what no row holds.
LEMMA ExactlyUnlessCascaded ==
  ShelfInv /\ CountedExactly /\ [StepWithoutCascade]_shelfVars => CountedExactly'
<1> SUFFICES ASSUME ShelfInv, CountedExactly, [StepWithoutCascade]_shelfVars
             PROVE  CountedExactly'
  OBVIOUS
<1>1. CountedExactly <=> \A w \in Warehouses : Cardinality(Units(held, w)) = reserved[w]
  BY DEF CountedExactly, UnitsHeld, Units
<1>2. CountedExactly' <=> \A w \in Warehouses : Cardinality(Units(held', w)) = reserved'[w]
  BY DEF CountedExactly, UnitsHeld, Units
<1>3. \A w \in Warehouses : Uncounted(w)' = Uncounted(w)
  <2>1. CASE StepWithoutCascade
    BY <2>1, ReserveInv, ShipInv, MovementInv, ReleaseOrderInv, Zenon DEF StepWithoutCascade
  <2>2. CASE UNCHANGED shelfVars
    BY <2>2 DEF shelfVars, Uncounted, Units
  <2> QED
    BY <2>1, <2>2
<1>4. ShelfInv'
  <2>1. StepWithoutCascade => ShelfNext
    BY DEF StepWithoutCascade, ShelfNext
  <2> QED
    BY <2>1, NextInv
<1>5. ASSUME NEW w \in Warehouses PROVE Cardinality(Units(held', w)) = reserved'[w]
  <2>1. Cardinality(Units(held, w)) \in Nat /\ Cardinality(Units(held', w)) \in Nat
    BY UnitsFinite
  <2>2. reserved[w] \in Nat /\ reserved'[w] \in Nat
    BY <1>4 DEF ShelfInv, ShelfTypeOK
  <2>3. reserved'[w] - Cardinality(Units(held', w)) = reserved[w] - Cardinality(Units(held, w))
    BY <1>3 DEF Uncounted, Units
  <2> QED
    BY <1>1, <2>1, <2>2, <2>3
<1> QED
  BY <1>2, <1>5

-----------------------------------------------------------------------------
(* The properties *)

\* Every stock transaction keeps the rows well formed: quantities reserved and
\* held stay natural numbers, and a row that holds nothing is not kept.
THEOREM TypeCorrect == ShelfSpec => []ShelfTypeOK
<1>1. ShelfInv => ShelfTypeOK
  BY DEF ShelfInv
<1> QED
  BY <1>1, InvAlways, PTL

\* No order of receipts, shipments, transfers, reservations and releases ever
\* promises goods a shelf does not have.
THEOREM Promises == ShelfSpec => []NeverOversold
<1>1. ShelfInv => NeverOversold
  BY DEF ShelfInv
<1> QED
  BY <1>1, InvAlways, PTL

\* Every unit a reservation row holds is counted in its level: releasing it can
\* neither go below zero nor take what another line holds.
THEOREM Coverage == ShelfSpec => []HoldsCovered
<1>1. ShelfInv => HoldsCovered
  BY DEF ShelfInv
<1> QED
  BY <1>1, InvAlways, PTL

\* A line can always ship what it holds, whatever was taken from the shelf
\* since it was reserved.
THEOREM Shippable == ShelfSpec => []HeldGoodsCanShip
<1>1. ShelfInv => HeldGoodsCanShip
  <2> SUFFICES ASSUME ShelfInv, NEW l \in Lines, held[l] # NoHold
               PROVE  CanShip(l, held[l].at, held[l].quantity)
    BY DEF HeldGoodsCanShip
  <2> DEFINE w == held[l].at
             q == held[l].quantity
  <2>1. w \in Warehouses /\ q \in Nat /\ GivenBack(l, q) = q
    BY MaxQuantityAssumption
       DEF ShelfInv, ShelfTypeOK, Hold, Quantities, GivenBack, Lesser
  <2>2. ReservedAfter(l, q)[w] = reserved[w] - q
    <3> HIDE DEF q
    <3> QED BY <2>1, ClampNeverNeeded
  <2>3. reserved[w] \in Nat /\ onHand[w] \in Int /\ reserved[w] <= onHand[w]
    BY <2>1 DEF ShelfInv, ShelfTypeOK, NeverOversold
  <2>4. onHand[w] - ReservedAfter(l, q)[w] >= q
    BY <2>1, <2>2, <2>3
  <2> QED
    BY <2>4 DEF CanShip
<1> QED
  BY <1>1, InvAlways, PTL

\* A shelf on which no line is deleted while it holds counts exactly what its
\* rows hold, whatever is received, shipped, moved, reserved and released.
THEOREM ExactCount ==
  ShelfInit /\ [][StepWithoutCascade]_shelfVars => []CountedExactly
<1>1. ShelfInit => CountedExactly
  <2> SUFFICES ASSUME ShelfInit, NEW w \in Warehouses PROVE Cardinality(UnitsHeld(w)) = reserved[w]
    BY DEF CountedExactly
  <2>1. UnitsHeld(w) = {}
    BY NoWarehouseAssumption DEF UnitsHeld, ShelfInit, NoHold
  <2> QED
    BY <2>1, FS_EmptySet DEF ShelfInit
<1>2. ShelfInv /\ [StepWithoutCascade]_shelfVars => ShelfInv'
  <2>1. StepWithoutCascade => ShelfNext
    BY DEF StepWithoutCascade, ShelfNext
  <2> QED
    BY <2>1, NextInv
<1> QED
  BY <1>1, <1>2, InitInv, ExactlyUnlessCascaded, PTL
=============================================================================
