SPECIFICATION LiveSpec
CONSTANTS
  Values = {"", "admin", "mine", "theirs", "other"}
  Unset = ""
  Processes = {p1, p2}
  NoProcess = NoProcess
  WalletIds = {w1}
  Environments <- SomeEnvironments
  Files <- SomeFiles
  MaxStops = 1
  Tabs = {t1}
  Logins <- SomeLogins
  NoCookie = NoCookie
  Stale = Stale
INVARIANTS SessionTypeOK ServingIsMigrated
PROPERTIES SettingsInForce ChangesNeedLogin EventuallyServing
