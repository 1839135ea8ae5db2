SPECIFICATION PlanningSpec
INVARIANTS
  PlanningTypeOK
  RecommendationsSettle
  BaselineHolds
  OwnersHold SharesFollowIncome
  DebtCountedOnce
  CountedOnce
  OneOpening
  CapitalStands
  EarliestRetirement
  FiguresAgree
  ReadOnce
PROPERTIES
  CashAccounted
  OwnLinesStay
  ClosedCheckinsGuarded
  ImportCarries
CHECK_DEADLOCK FALSE
CONSTANTS
  Members <- TwoMembers
  Accounts <- AllAccounts
  Role <- AllRoles
  Owner <- AllOwners
  Percent <- OneThird
  Newcomers = {7}
  StartMoney <- AllMoney
  Bridge <- AllBridges
  Menu <- AllMoves
  Budgets <- AllBudgets
  MaxPosted = 2
  MaxCloses = 2

  Assets <- TheAssets
  Class <- TheClass
  Holder <- TheHolder
  Adults = {"ana"}
  Blocked = {}
  LedgerWorth <- TheWorth
  Configurations <- TheConfigurations
  Recounts <- TheRecounts
  Expenses <- TheExpenses
  BrokerCash = {}
  Months = 3

  Persons = {1, 2, 3}
  Titles = {1, 2, 3, 4}
  Divisions <- Thirds
  Positions = {"house"}
  Earnings <- TheEarnings
  MaxTitles = 3

  OwnLines <- HouseholdLines
  Drafts = {"s"}
  Terms = {{}, {1, 2}}
  PlanYears = {1, 2}
  MaxEvents = 1
  MaxLine = 6

  LastMonth = 3
  BudgetYears = {1, 2}
  BudgetLines = {1, 2}
  LineForms <- HouseForms
  PatchedSums = {}
  Answers <- OneAnswer
  AnswerCells <- MonthTwos
  SlotBookings <- HomeBooked
  CloseCells <- FirstTwo
  Visits = {1}
  MaxLineEdits = 1

  Homes <- FirstHomes
  Bundles <- OtherFiles
  NewPeople = {"dora"}
  MaxHomeEdits = 2
  MaxTransfers = 2

  Plans <- ThePlans

  Simulations <- SomeSimulations
  HouseLines <- SomeBudgets
  Estates <- SomeEstates
  Aim <- OneAim
  LastClock = 3
