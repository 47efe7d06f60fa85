CONSTANTS
  c1 = c1
  c2 = c2
  r1 = r1
  r2 = r2
  q1 = q1
  q2 = q2
  l1 = l1
  l2 = l2
  l3 = l3
  Chats = {c1, c2}
  Requests = {r1, r2}
  Questions = {q1, q2}
  Lists = {l1, l2, l3}
  MaxToolRounds = 2
  MaxExchanges = 2
  MaxCalls = 2
  MaxAsked = 3
  None = None
SPECIFICATION Spec
INVARIANTS
  TypeOK
  ResultsAreTrue
PROPERTIES
  KeepsItsPromise
SYMMETRY Symmetry
