SPECIFICATION ServiceSpec
CONSTANTS
  Warehouses = {w1, w2}
  Lines = {l1, l2}
  NoWarehouse = NoWarehouse
  MaxQuantity = 2
  MaxOnHand = 4
  Slots = {s1, s2}
  Agendas <- MCAgendas
  VendorPayments = {p1, p2}
  Depots = {w1}
  MaxPapers = 4
  MaxLineVersions = 2
  Tokens = {t1, t2}
  ResetLinks = {k1, k2}
  TokenLifetime = 3
  Leeway = 1
  MaxNow = 6
  MaxPasswords = 2
  People = {u1, u2}
  LeaveIds = {r1, r2}
  Days = {1, 2, 3}
  YearEnd = 2
  Weekend = {1}
  MaxEntitlement = 2
  MaxClaim = 2
  StockLines = {l1}
  UnitCosts = {2, 5}
  MaxStocked = 2
  MaxAverage = 6
  QuoteOrders = {o1, o2}
  MaxQuoted = 2
  Files = {f1, f2}
  Staff = {e1, e2}
  HrStaff = {e2}
  FileClaims = {c1, c2}
  NoParent = NoParent
  MaxHops = 3
  ProjectIds = {j1}
  TaskIds = {t1, t2}
  EntryIds = {n1, n2}
  Percents = {0, 50, 100}
  MaxHours = 2
  AccountIds = {a1, a2, a3}
  SaleTerms <- MCSaleTerms
  Instalments = {i1, i2}
  Receipts = {m1, m2}
  PartPayments = {3}
  RateDays = {1, 2}
  Scale = 10
  FxRates = {11, 15}
SYMMETRY Symmetry
CHECK_DEADLOCK FALSE
INVARIANTS
  ServiceTypeOK
  NeverOversold
  HoldsCovered
  GoodsFollowPapers
  PurchaseAgrees
  LiveSessionsKnowThePassword
  OneLinkOnePassword
  AnAdministratorRemains
  ClaimsAgree
  QuotesAgree
  ReceiptsAreThere
  ProjectsAgree
  ChartAgrees
  AmountsAgree
PROPERTIES
  SignedOutIsOver
  ApprovalsFitTheEntitlement
  BookedOnce
  TransactionsAreSteps
  MovementsKeepTheirWorth
