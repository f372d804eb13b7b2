SPECIFICATION PayingSpec
CONSTANTS
  UserIds = {u1}
  Usernames = {"ann"}
  WalletIds = {w1}
  Budgets = {1, 2}
  Unlimited = Unlimited
  ForeignKeys = FALSE
  MonthLength = 1
  MaxClock = 1
  Conns = {c1, c2}
  Offers <- TwoPrices
  MaxAmount = 2
  MaxExchanges = 3
  NoUser = NoUser
  NoWallet = NoWallet
INVARIANTS PaymentBacked OvershootBounded OverspendWrittenOff
SYMMETRY ConnSymmetry
