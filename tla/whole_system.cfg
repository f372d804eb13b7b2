SPECIFICATION WatchedLiveSpec
CONSTANTS
  UserIds = {u1, u2}
  Usernames = {"ann"}
  WalletIds = {w1}
  Budgets = {1}
  Unlimited = Unlimited
  ForeignKeys = FALSE
  MonthLength = 1
  MaxClock = 0
  Conns = {c1}
  Offers <- AllKindsOfOffers
  MaxAmount = 2
  MaxExchanges = 1
  NoUser = NoUser
  NoWallet = NoWallet
INVARIANTS TypeOK NoSilentLoss
PROPERTIES WithdrawnAtOnce Answered
