CONSTANTS
  b1 = b1
  b2 = b2
  Banks = {b1}
  MaxConns = 1
  Requests = {r1}
  Dialogs = {d1, d2}
  InitialBlz <- OneRow
  InitialPin = {1}
  InitialStatuses = {"idle"}
  Uses = {"sync", "confirm"}
  Events = {"expiry"}
  NoBank = NoBank
  NoDialog = NoDialog
  NoPending = NoPending
SPECIFICATION Spec
INVARIANT HintedLoginIsDropped
SYMMETRY Symmetry
