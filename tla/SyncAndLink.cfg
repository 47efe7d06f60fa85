CONSTANTS
  b1 = b1
  b2 = b2
  Banks = {b1}
  MaxConns = 1
  Requests = {r1, r2}
  Dialogs = {d1, d2}
  InitialBlz <- OneRow
  InitialPin = {}
  InitialStatuses = {"idle", "syncing"}
  Uses = {"sync", "confirm", "link", "tan"}
  Events = {"restart", "database", "redis"}
  NoBank = NoBank
  NoDialog = NoDialog
  NoPending = NoPending
SPECIFICATION Spec
INVARIANT TypeOK
INVARIANT ApprovedBeforeImport
INVARIANT ImportsOverlapOnlyAfterUnfinishedLink
PROPERTY SyncIsAtomic
SYMMETRY Symmetry
