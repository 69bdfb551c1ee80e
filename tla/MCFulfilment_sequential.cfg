\* One request at a time, run to its end.
SPECIFICATION DispatchOnFairSpec
CONSTANTS
  Orders = {o1}
  Invoices = {i1, i2}
  Warehouses = {w1}
  Slots = {s1}
  NoOrder = NoOrder
  NoInvoice = NoInvoice
  NoWarehouse = NoWarehouse
  MaxQuantity = 2
  MaxLines = 2
  MaxOnHand = 2
  Requests = {"order.update", "order.status", "order.delete", "invoice.convert",
              "invoice.create", "invoice.update", "invoice.delete", "invoice.send",
              "invoice.cancel", "invoice.pay", "stock.in", "stock.out"}
  MayAbandon = FALSE
INVARIANTS
  TypeOK
  GoodsMatchDocuments
  BilledWithinLine
  HoldsMatchOrders
PROPERTIES
  CancelledStaysCancelled
  CancelledLetsGo
