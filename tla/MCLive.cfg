SPECIFICATION FairEditSpec
CONSTANTS
  c1 = c1
  c2 = c2
  c3 = c3
  pw = pw
  blank = blank
  t1 = t1
  t2 = t2
  m1 = m1
  m2 = m2
  Client = {c1, c2}
  User = {c1, c2}
  Password = {pw}
  Text = {blank, t1}
  ChatText = {}
  NoUser = NoUser
  NoPassword = NoPassword
  Blank = blank
  SavedAccounts <- MCSavedAccounts
  SaveMayFail = FALSE
  Closing = TRUE
  ServerMayDie = TRUE
  RegisterDuringLogin = FALSE
  LoginDuringLogin = FALSE
  MaxInFlight = 2
  MaxRooms = 1
  Pages = {"dashboard", "login", "room"}
  Roaming = {c1}
PROPERTIES TrafficDiesDown LoginAnswered DeadClientsLeave
CHECK_DEADLOCK FALSE
