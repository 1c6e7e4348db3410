SPECIFICATION Spec
CONSTANTS
  c1 = c1
  c2 = c2
  u1 = u1
  u2 = u2
  pw = pw
  wrong = wrong
  blank = blank
  t1 = t1
  m1 = m1
  Client = {c1, c2}
  User = {u1, u2}
  Password = {pw, wrong}
  Text = {blank, t1}
  ChatText = {m1}
  NoUser = NoUser
  NoPassword = NoPassword
  Blank = blank
  SavedAccounts <- MCSavedAccounts
  SaveMayFail = TRUE
  Sent <- MCSent
  MaxBacklog = 1
  MaxPending = 0
  MaxRooms = 1
SYMMETRY Interchangeable
INVARIANTS TypeOK MembersMatchSessions
PROPERTIES RelayStaysInRoom BookSpec
CHECK_DEADLOCK FALSE
