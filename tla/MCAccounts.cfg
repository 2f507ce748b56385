SPECIFICATION AccountsSpec
CONSTANTS
  u1 = u1
  u2 = u2
  s1 = s1
  s2 = s2
  k1 = k1
  k2 = k2
  NoUser = NoUser
  Users = {u1, u2}
  Sids = {s1, s2}
  Handlers = {k1, k2}
  Changing = {u1}
  ListSize = 1
  MaxPasswords = 2
  MaxLists = 2
SYMMETRY Symmetry
CHECK_DEADLOCK FALSE
INVARIANTS
  AccountsTypeOK
  AdminRemainsUnraced
  CodesAreThoseShown
  SessionsFollowPassword
  GeneratorIsConfirmed
