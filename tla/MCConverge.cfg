SPECIFICATION EditSpec
CONSTANTS
  c1 = c1
  c2 = c2
  c3 = c3
  pw = pw
  blank = blank
  t1 = t1
  t2 = t2
  m1 = m1
  m2 = m2
  Client = {c1, c2}
  User = {c1, c2}
  Password = {pw}
  Text = {blank, t1, t2}
  ChatText = {}
  NoUser = NoUser
  NoPassword = NoPassword
  Blank = blank
  SavedAccounts <- MCSavedAccounts
  SaveMayFail = FALSE
  Closing = FALSE
  ServerMayDie = FALSE
  RegisterDuringLogin = FALSE
  LoginDuringLogin = FALSE
  MaxInFlight = 3
  MaxRooms = 1
  Pages = {"dashboard"}
  Roaming = {c1, c2}
SYMMETRY Interchangeable
INVARIANTS EditorsConverge
CHECK_DEADLOCK FALSE
