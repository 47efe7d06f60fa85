CONSTANTS
  h1 = h1
  h2 = h2
  t1 = t1
  t2 = t2
  c1 = c1
  c2 = c2
  s1 = s1
  s2 = s2
  k1 = k1
  k2 = k2
  Households = {h1, h2}
  Tokens = {t1, t2}
  Chats = {c1, c2}
  EnvToken = t1
  Sessions = {s1, s2}
  Apps = {1, 2, 3}
  Codes = {k1, k2}
  MaxEvents = 2
  None = None
SPECIFICATION Spec
INVARIANTS
  TypeOK
  PollersFollowRows
  EveryBotPolls
PROPERTIES
  CodeLinksTheChat
SYMMETRY Symmetry
CHECK_DEADLOCK FALSE
