\* Two concurrent requests of one account under balances of up to three credits of each kind.
SPECIFICATION Spec
CONSTANTS
  o1 = o1
  o2 = o2
  r1 = r1
  r2 = r2
  r3 = r3
  r4 = r4
  p1 = p1
  p2 = p2
  p3 = p3
  Owners = {o1}
  Requests = {r1, r2}
  Prices = {p1}
  OwnerOf <- OneOwner
  InputRate <- MCInputRate
  OutputRate <- MCOutputRate
  CreditValue <- MCCreditValue
  RateScale = 1
  MaxInput = 1
  MaxOutput = 1
  MaxRequestCost = 3
  MaxConcurrent = 2
  RequestsPerMinute = 2
  HourlyCost = 6
  DailyCredits = 4
  MonthlyCredits = 4
  WorkerCeiling = 6
  PolicyCeiling = 6
  HoldTTL = 1
  Minute = 1
  Hour = 1
  Day = 1
  Cycle = 2
  AccountStatuses = {"active", "blocked", "paused"}
  SweepLimit = 1
  Balances = {0, 1, 3}
  MaxMoney = 3
  MaxTime = 1
SYMMETRY Interchangeable
INVARIANTS
  TypeOK
  HoldsMatchRows
  LedgerMatchesRows
  LedgerReplaysAccount
  ClosingNeverBlocked
PROPERTIES
  ClosedIsFinal
  ImplementsCreditHold
