SPECIFICATION PayingSpec
CONSTANTS
  UserIds = {u1}
  Usernames = {"ann"}
  WalletIds = {w1}
  Budgets = {2}
  Unlimited = Unlimited
  ForeignKeys = FALSE
  MonthLength = 1
  MaxClock = 0
  Conns = {c1, c2}
  Offers <- TwoPrices
  MaxAmount = 2
  MaxExchanges = 2
  NoUser = NoUser
  NoWallet = NoWallet
INVARIANT PaymentCapKept
