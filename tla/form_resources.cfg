SPECIFICATION AssignedSpec
CONSTANTS
  UserIds = {u1, u2}
  Usernames = {ann}
  WalletIds = {w1}
  Budgets = {}
  Unlimited = Unlimited
  ForeignKeys = FALSE
  MonthLength = 1
  MaxClock = 1
  Browsers = {b1}
  BaseURL <- OwnResource
  Amounts = {1}
  MaxRows = 2
  NoChoice = NoChoice
INVARIANT FormOffersAllResources
SYMMETRY NameSymmetry
