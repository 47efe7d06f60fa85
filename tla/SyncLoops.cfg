CONSTANTS
  b1 = b1
  b2 = b2
  Banks = {b1, b2}
  MaxConns = 2
  Requests = {r1, r2}
  Dialogs = {d1}
  InitialBlz <- TwoRows
  InitialPin = {1, 2}
  InitialStatuses = {"idle"}
  Uses = {"sync"}
  Events = {"no redis", "stale check"}
  NoBank = NoBank
  NoDialog = NoDialog
  NoPending = NoPending
SPECIFICATION FairSpec
PROPERTY EveryRequestEnds
PROPERTY StaleIsNoticed
CHECK_DEADLOCK FALSE
