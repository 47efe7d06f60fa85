CONSTANTS
  b1 = b1
  b2 = b2
  Banks = {b1, b2}
  MaxConns = 2
  Requests = {r1}
  Dialogs = {d1, d2}
  InitialBlz <- OneRow
  InitialPin = {}
  InitialStatuses = {"idle", "syncing"}
  Uses = {"sync", "confirm", "link", "tan"}
  Events = {"restart", "hour", "month", "expiry"}
  NoBank = NoBank
  NoDialog = NoDialog
  NoPending = NoPending
SPECIFICATION Spec
INVARIANT OneStartPerHour
INVARIANT ImportsIntoItsBank
PROPERTY PromptedLoginStaysPending
SYMMETRY Symmetry
