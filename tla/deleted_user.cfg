SPECIFICATION WatchedSeededSpec
CONSTANTS
  UserIds = {u1}
  Usernames = {"ann"}
  WalletIds = {w1}
  Budgets = {2}
  Unlimited = Unlimited
  ForeignKeys = FALSE
  MonthLength = 1
  MaxClock = 0
  Conns = {c1}
  Offers <- TwoPrices
  MaxAmount = 2
  MaxExchanges = 1
  NoUser = NoUser
  NoWallet = NoWallet
PROPERTY DeletedUserPaysNothing
