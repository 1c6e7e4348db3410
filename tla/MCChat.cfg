SPECIFICATION EditSpec
CONSTANTS
  c1 = c1
  c2 = c2
  c3 = c3
  pw = pw
  blank = blank
  t1 = t1
  t2 = t2
  m1 = m1
  m2 = m2
  Client = {c1, c2}
  User = {c1, c2}
  Password = {pw}
  Text = {blank}
  ChatText = {m1, m2}
  NoUser = NoUser
  NoPassword = NoPassword
  Blank = blank
  SavedAccounts <- MCSavedAccounts
  SaveMayFail = FALSE
  Closing = FALSE
  ServerMayDie = FALSE
  RegisterDuringLogin = FALSE
  LoginDuringLogin = FALSE
  MaxInFlight = 4
  MaxRooms = 2
  Pages = {"dashboard", "room"}
  Roaming = {c1}
SYMMETRY Interchangeable
INVARIANTS ChatInOrder ChatSameOrder ChatStaysInRoom
CHECK_DEADLOCK FALSE
