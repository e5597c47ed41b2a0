\* Two requests of one account and one of another, at three prices, against the four spend windows; Workers may die and the sweep takes one row at a time.
SPECIFICATION FairSpec
CONSTANTS
  o1 = o1
  o2 = o2
  r1 = r1
  r2 = r2
  r3 = r3
  r4 = r4
  p1 = p1
  p2 = p2
  p3 = p3
  Owners = {o1, o2}
  Requests = {r1, r2, r4}
  Prices = {p1, p2, p3}
  OwnerOf <- TwoOwners
  InputRate <- MCInputRate
  OutputRate <- MixedRate
  CreditValue <- MixedValue
  RateScale = 1
  MaxInput = 0
  MaxOutput = 1
  MaxRequestCost = 3
  MaxConcurrent = 1
  RequestsPerMinute = 1
  HourlyCost = 5
  DailyCredits = 3
  MonthlyCredits = 2
  WorkerCeiling = 6
  PolicyCeiling = 7
  HoldTTL = 1
  Minute = 0
  Hour = 0
  Day = 1
  Cycle = 2
  AccountStatuses = {}
  SweepLimit = 1
  Balances = {2}
  MaxMoney = 2
  MaxTime = 2
CONSTRAINT OnlyCyclesChange
INVARIANTS
  SpendWithinLimits
  OpenHoldsBounded
  SweepNeverBlocked
PROPERTIES
  UndispatchedHoldEnds
