SPECIFICATION DispatchOnSpec
CONSTANTS
  Orders = {o1}
  Invoices = {i1, i2}
  Warehouses = {w1}
  Slots = {s1}
  NoOrder = NoOrder
  NoInvoice = NoInvoice
  NoWarehouse = NoWarehouse
  MaxQuantity = 1
  MaxLines = 1
  MaxOnHand = 1
  Requests = {"order.status", "invoice.convert", "invoice.update"}
  MayAbandon = FALSE
CHECK_DEADLOCK FALSE
PROPERTY NeverBilledTwice
