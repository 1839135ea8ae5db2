SPECIFICATION WealthSpec
INVARIANTS
  WealthTypeOK
  BatchesHold
  DerivedFollowLedger
  WorthExplained
  PositionsAgree
  OneTitleADay
  MarketHolds
  MoneySharedOut BookedOnce
PROPERTIES
  PastStands
  CommitmentsAddUp
CHECK_DEADLOCK FALSE
CONSTANTS
  Files <- TwoFiles
  Typed <- TypedPurchase
  StartCash = 3
  MaxOperations = 2

  BookingDates <- TwoDates
  Changes <- UpAndDown
  Costs <- FeeOrNone
  MaxBookings = 2
  MaxEdits = 1

  Books <- AllBooks
  BookType <- AllBookTypes
  BookCurrency <- AllBookCurrencies
  Backing <- AllBackings
  FeeBook <- AllFeeBooks
  SystemBooks <- KeptBooks
  LedgerIds = {1, 2, 3}
  MaxOwn = 1
  Requests <- AllRequests

  Holdings = {1, 2}
  HoldingKinds <- AllHoldingKinds
  Accts = {1, 2, 3}
  DebtAccts = {3}
  FirstAccts = {1}
  Days = {1, 2}
  OpeningSums = {0, 2}
  EntrySums = {1}
  MaxEntries = 2
  MaxChanges = 2
  MaxByHand = 1

  HistoryDays = {1, 2, 3}
  Contracts = {"both", "moving"}
  SharesOf <- ContractShares
  StatedShares <- SaidShares

  Debts <- SomeDebts
  Savings <- SomeSavings
  LinkOwners = {"ana"}
  Requesters = {1, 2}
  PeriodsPerYear = 2
  UnitsPerCent = 4
  LastYear = 1
  MaxSaves = 3
  MaxRetouches = 1

  eur = eur
  usd = usd
  btc = btc
  Fiat = {eur, usd}
  Crypto = {btc}
  Bases = {eur}
  Pivot = usd
  Regions = {ES}
  Priced = {btc}
  Published <- ProviderDays
  Positions <- SomePositions
  Conversions <- SomeConversions
  Workers = {w1, w2}
  DatasetPlans <- AskedFor
  FloorDays = 3
  StubMonths <- SomeStubs
  FirstDay = 2
  LastDay = 3
  MaxRuns = 2
  MaxAsked = 2

  equity = equity
  bonds = bonds
  fundBank = fundBank
  platform = platform
  Funds <- SomeFunds
  ClassOf <- SomeClasses
  ContainerOf <- SomeContainers
  Purses = {platform}
  Rule <- SomeRules
  Parts = 10
  PolicyVersions <- SomePolicies
  Commitments <- SomeCommitments
  Earlier <- BeforeThisMonth
  MonthsLeft = 3
  BasketAmounts = {15, 100}
  Sources <- SomeAccounts
  OpeningWorths <- AtFirst
  OpeningBank = 210
  WorthMoves <- SomeMoves
  Clients = {1, 2}
  MaxBaskets = 1
  MaxHappenings = 1
