SPECIFICATION Spec
CONSTANTS
  c1 = c1
  c2 = c2
  u1 = u1
  u2 = u2
  pw = pw
  blank = blank
  t1 = t1
  Client <- MCClient
  User <- MCUser
  Password <- MCPassword
  Text = {blank}
  ChatText = {}
  NoUser = NoUser
  NoPassword = NoPassword
  Blank = blank
  SavedAccounts <- MCSavedAccounts
  SaveMayFail = FALSE
  Closing = TRUE
  ServerMayDie = FALSE
  RegisterDuringLogin = FALSE
  LoginDuringLogin = FALSE
  MaxInFlight = 3
  MaxRooms = 1
SYMMETRY Interchangeable
INVARIANTS LoggedOutShowsNoRoom
CHECK_DEADLOCK FALSE
