CONSTANTS
  b1 = b1
  b2 = b2
  Banks = {b1}
  MaxConns = 1
  Requests = {r1}
  Dialogs = {d1, d2}
  InitialBlz <- NoRows
  InitialPin = {}
  InitialStatuses = {"idle"}
  Uses = {"link", "tan"}
  Events = {"stale check"}
  NoBank = NoBank
  NoDialog = NoDialog
  NoPending = NoPending
SPECIFICATION Spec
INVARIANT StaleMeansIdle
SYMMETRY Symmetry
