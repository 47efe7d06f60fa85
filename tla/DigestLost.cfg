CONSTANTS
  h1 = h1
  h2 = h2
  giro = giro
  personal = personal
  other = other
  pay = pay
  move = move
  back = back
  shop = shop
  last = last
  late = late
  rent = rent
  food = food
  Households = {h1, h2}
  Accounts = {giro, personal, other}
  Owner <- Owners
  Opening <- Openings
  Joint = {giro}
  Bookings = {pay, move, back, shop, rent, late, last}
  AccountOf <- OfAccount
  Amount <- Amounts
  InPeriod = {pay, move, back, shop, rent, late}
  Before = {last}
  Mentions <- Mentioned
  Categories = {food}
  Key <- Keys
  Transfer = transfer
  DepotTransfer = depottransfer
  Uncategorized = none
  Usual <- AtFirst
  Late = {late}
  Builtin <- Formulas
  Configs <- Settings
  Default <- Usually
  YearMonths = 2
  Hundred = 10
  MonthDays = 30
  RateLimit = 999
  Linked = {h1, h2}
  Workers = {w1, w2}
  Requests = {r1}
  Asked = {}
  Reported = {h1, h2}
  Touched = {shop}
  Events = {}
  MaxEvents = 0
  None = None
SPECIFICATION FairSpec
PROPERTIES
  EveryHouseholdGetsDigest
CHECK_DEADLOCK FALSE
