SPECIFICATION BasketSpec
INVARIANTS RestCanBeConfirmed
CHECK_DEADLOCK FALSE
CONSTANTS
  equity = equity
  bonds = bonds
  fundBank = fundBank
  platform = platform
  Funds <- SomeFunds
  ClassOf <- SomeClasses
  ContainerOf <- SomeContainers
  Purses = {platform}
  Rule <- SomeRules
  Parts = 10
  PolicyVersions <- SomePolicies
  Commitments <- SomeCommitments
  Earlier <- BeforeThisMonth
  MonthsLeft = 3
  BasketAmounts = {15, 100}
  Sources <- SomeAccounts
  OpeningWorths <- AtFirst
  OpeningBank = 210
  WorthMoves <- SomeMoves
  Clients = {1, 2}
  MaxBaskets = 1
  MaxHappenings = 1
