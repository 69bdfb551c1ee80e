SPECIFICATION DispatchOnSpec
CONSTANTS
  Orders = {o1}
  Invoices = {i1}
  Warehouses = {w1}
  Slots = {s1, s2}
  NoOrder = NoOrder
  NoInvoice = NoInvoice
  NoWarehouse = NoWarehouse
  MaxQuantity = 2
  MaxLines = 2
  MaxOnHand = 2
  Requests = {"order.update", "order.status", "order.delete", "invoice.convert",
              "invoice.send", "invoice.cancel", "stock.in", "dispatch.set"}
  MayAbandon = TRUE
\* Sound for ReservedInTurn too: no fairness is assumed, and both sides of it say
\* the same of either slot, so a behaviour of representatives that violates it is,
\* with the slots renamed step by step, a behaviour of the system that does.
SYMMETRY Symmetry
\* A cancelled order and a cancelled invoice leave nothing to ask for.
CHECK_DEADLOCK FALSE
INVARIANT
  HoldWithinPromise
PROPERTIES
  ReservedInTurn
  StockSpec
