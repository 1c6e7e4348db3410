SPECIFICATION EditSpec
CONSTANTS
  c1 = c1
  c2 = c2
  c3 = c3
  pw = pw
  blank = blank
  t1 = t1
  t2 = t2
  m1 = m1
  m2 = m2
  Client = {c1, c2, c3}
  User = {c1, c2, c3}
  Password = {pw}
  Text = {blank, t1}
  ChatText = {}
  NoUser = NoUser
  NoPassword = NoPassword
  Blank = blank
  SavedAccounts <- MCSavedAccounts
  SaveMayFail = FALSE
  Closing = TRUE
  ServerMayDie = TRUE
  RegisterDuringLogin = FALSE
  LoginDuringLogin = FALSE
  MaxInFlight = 1
  MaxRooms = 1
  Pages = {"dashboard", "room", "login"}
  Roaming = {c3}
SYMMETRY Interchangeable
INVARIANTS OneStraggler OneAstray
PROPERTIES OnlyAuthorStrays
CHECK_DEADLOCK FALSE
