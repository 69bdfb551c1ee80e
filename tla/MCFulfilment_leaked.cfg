SPECIFICATION DispatchOnSpec
CONSTANTS
  Orders = {o1}
  Invoices = {i1}
  Warehouses = {w1}
  Slots = {s1, s2}
  NoOrder = NoOrder
  NoInvoice = NoInvoice
  NoWarehouse = NoWarehouse
  MaxQuantity = 1
  MaxLines = 2
  MaxOnHand = 1
  Requests = {"order.status", "order.update", "stock.in"}
  MayAbandon = FALSE
CHECK_DEADLOCK FALSE
INVARIANT ReservedIsHeld
