CONSTANTS
  e1 = e1
  e2 = e2
  Emails = {e1, e2}
  Admins = {e1, e2}
  AllowLists <- Lists
  MaxHouseholds = 3
  Sessions = {s1, s2}
  None = None
SPECIFICATION Spec
INVARIANTS
  TypeOK
  HouseholdsExist
  InviteIsUsedUp
PROPERTIES
  LastMemberStays
  JoinsAsAllowed
  SomeHouseholdStays
SYMMETRY Alike
