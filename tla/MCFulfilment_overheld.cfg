SPECIFICATION DispatchOnSpec
CONSTANTS
  Orders = {o1}
  Invoices = {i1, i2, i3}
  Warehouses = {w1}
  Slots = {s1}
  NoOrder = NoOrder
  NoInvoice = NoInvoice
  NoWarehouse = NoWarehouse
  MaxQuantity = 2
  MaxLines = 1
  MaxOnHand = 3
  Requests = {"order.status", "invoice.convert", "invoice.send", "invoice.cancel", "stock.in"}
  MayAbandon = FALSE
CHECK_DEADLOCK FALSE
INVARIANT ShippedHoldsNothing
