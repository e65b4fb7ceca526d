SPECIFICATION BackOfficeSpec
CONSTANTS
  s1 = s1
  s2 = s2
  p1 = p1
  p2 = p2
  ShopSessions = {s1, s2}
  SaleKeys = {k1}
  OnlineOrders = {o1}
  Bills = {b1}
  BillTotal = 2
  OpeningStock = 1
  ShopMovements <- EntryQuantities
  MaxCommits = 3
  StockSessions = {s1, s2}
  MoveKeys = {1, 2, 3}
  Deltas <- BalanceDeltas
  PaySessions = {s1, s2}
  OrderTotal = 3
  Amounts = {1, 2}
  MaxOrderCalls = 4
  DeskSessions = {s1, s2}
  Collections = {c1}
  Collected = 1
  Fee = 1
  Remittances = {r1, r2}
  Remitted = 1
  RiderKeys = {k1, k2}
  Adjustments <- BonusAndDeduction
  MaxRiderCalls = 3
  NumProducts = 2
  PageSize = 1
  OwnProducts = {1}
  MaxSeconds = 2
  MaxStoreChanges = 2
  MaxPulls = 2
  Installs = {s1, s2}
  LicenseKeys = {k1}
  NoKey = NoKey
  Term = 1
  Grace = 1
  LastDay = 4
  MaxLicenseCalls = 3
  Callers = {s1, s2}
  MaxPairs = 2
  MaxCuts = 1
  MaxAsks = 3
  Requests = {s1, s2}
  Admins = {p1, p2}
  MaxLinks = 2
  MaxDecisions = 4
  People = {p1, p2}
  Nobody = Nobody
  MaxEpochs = 3
  MaxTimers = 1
  ImageRows = {1, 2, 3}
  MediaIds = {1, 2, 3}
  MaxForms = 1
  MaxStaffEdits = 1
  MaxMediaFaults = 1
  VideoRows = {1, 2}
  MaxVideoForms = 2
  MaxVideoFaults = 1
  BookDrafts <- Drafts
  SpareCodes = {"spare"}
  EditedCodes = {"payable"}
  MaxPostings = 3
  MaxSettings = 2
  MaxBookCalls = 3
  GoodsRows = {1, 2, 3}
  WareOf <- SoldWares
  BuyerOf <- SoldTo
  SaleTotal = 3
  MaxTradeSteps = 4
  Merchants = {s1, s2}
  RuleSets <- Rates
  MaxGoodsCalls = 4
  Slugs = {"a", "b", "c"}
  KnownSlugs <- BothKnow
  MaxTerms = 3
  MaxTermEdits = 2
  MaxTermRuns = 2
  Vendors0 <- TwoVendors
  MaxNames = 3
  MaxDeskSteps = 4
  PageWares = {1, 2, 3}
  MaxPageSteps = 4
  Operators = {p1, p2}
  Chief = p1
  MaxOfficeSteps = 4
  MaxStoreRuns = 3
  MaxSignOuts = 2
  Persons = {p1, p2}
  Outlets = {s1, s2}
  MaxOnboarding = 5
  RemoteAttempts = 3
  MaxRequests = 2
  Savers = {p1, p2}
  MaxSaves = 3
  MaxSettingsSteps = 8
  CustomerRows = {1, 2, 3}
  Mails = {m1, m2}
  MaxCustomerSteps = 6
  Lines = {l1, l2}
  Packed = {l1}
  Clerks = {s1, s2}
  MaxLineCalls = 3
  Senders = {s1, s2}
  TextKeys = {k1, k2}
  OthersKeys = {k2}
  Templates = {"welcome"}
  Blanks = {"name"}
  MaxMessages = 2
  MaxSends = 4
  FirstStock = 1
  MaxStoreMoves = 2
  MaxStockSteps = 7
  AttemptLimit = 2
  Window = 2
  Block = 2
  Retention = 2
  LastMinute = 4
  MaxTries = 4
  MaxUnderway = 2
  MediaAttempts = 2
  MaxImageEdits = 2
  MaxMediaRetries = 1
  MaxRefusals = 2
INVARIANTS
  BackOfficeTypeOK
  ShopKept
  VendorStockSound
  OrdersKept
  RiderKept
  PullKept
  LicenseKept
  AuthKept
  AccountsKept
  DesktopKept
  MediaSound
  BookKept
  StoreOrdersKept
  CatalogueSound
PROPERTIES
  CatalogueHeals
  EndedStaysEnded
CHECK_DEADLOCK FALSE
VIEW TheState
