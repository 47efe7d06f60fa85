CONSTANTS
  k1 = k1
  k2 = k2
  Keys = {k1, k2}
  Total <- Sum
  List <- TwoBookings
  Balance <- TwoBalances
  Old = 0
  MaxAccounts = 2
  FirstOpening = 10
  Imports = {i1, i2, i3}
  Links = {i3}
  Lockless = {i2}
  Hands = {h1}
  None = None
  Unknown = Unknown
  Keep = Keep
  NoAccount = NoAccount
SPECIFICATION Spec
INVARIANTS
  TypeOK
  NoBookingTwice
  OneAccountPerIban
  LedgerMatchesBank
  NoCircularWait
PROPERTIES
  FetchedIsBooked
  BalanceNeverOlder
CHECK_DEADLOCK FALSE
