--------------------------- MODULE CodeBROsProofs ---------------------------
(***************************************************************************)
(* Proofs about the whole program (module CodeBROs), for every set of      *)
(* clients, users, passwords and texts, and for every bound.               *)
(***************************************************************************)
EXTENDS CodeBROs, RoomServerProofs

-----------------------------------------------------------------------------
(***************************************************************************)
(* Lemmas about the handlers of module QtClient: what a window sends is a  *)
(* request, and what it keeps has its type.                                *)
(***************************************************************************)

\* What the handlers need of the state they start in.
WindowsTypeOK == ProtocolTypeOK /\ ClientTypeOK

-----------------------------------------------------------------------------
\* Lines.

\* The messages that carry something are requests when what they carry is
\* what a page holds.
LEMMA RequestValues ==
    /\ \A u \in User, p \in Password : /\ LoginMsg(u, p) \in Request
                                       /\ RegisterMsg(u, p) \in Request
    /\ GetRooms \in Request /\ LeaveRoom \in Request
    /\ [type |-> "create_room"] \in Request
    /\ \A r \in Nat : [type |-> "join_room", room_id |-> r] \in Request
    /\ \A r \in Nat, t \in Text :
          [type |-> "code_update", code |-> t, room_id |-> r] \in Request
    /\ \A r \in Nat, u \in Name, t \in ChatText :
          [type |-> "chat_message", sender |-> u, room_id |-> r, text |-> t]
             \in Request
<1>1. ASSUME NEW u \in User, NEW p \in Password
      PROVE  LoginMsg(u, p) \in Request /\ RegisterMsg(u, p) \in Request
  BY DEF LoginMsg, RegisterMsg, Request, Name
<1>2. GetRooms \in Request /\ LeaveRoom \in Request
  BY DEF GetRooms, LeaveRoom, Request
<1>3. [type |-> "create_room"] \in Request
  BY DEF Request
<1>4. ASSUME NEW r \in Nat PROVE [type |-> "join_room", room_id |-> r] \in Request
  BY DEF Request
<1>5. ASSUME NEW r \in Nat, NEW t \in Text
      PROVE  [type |-> "code_update", code |-> t, room_id |-> r] \in Request
  BY DEF Request
<1>6. ASSUME NEW r \in Nat, NEW u \in Name, NEW t \in ChatText
      PROVE  [type |-> "chat_message", sender |-> u, room_id |-> r, text |-> t]
                \in Request
  BY DEF Request
<1> QED
  BY <1>1, <1>2, <1>3, <1>4, <1>5, <1>6

\* Sending requests keeps the types, whether they get through or not.
LEMMA WritesType ==
    ASSUME ProtocolTypeOK, NEW c \in Client, NEW msgs \in Seq(Request),
           Writes(c, msgs)
    PROVE  toServer' \in [Client -> Seq(Request)]
BY DEF ProtocolTypeOK, Writes

\* The same of a step that does nothing else with the connection,
LEMMA SendsType ==
    ASSUME ProtocolTypeOK, NEW c \in Client, NEW msgs \in Seq(Request),
           Sends(c, msgs)
    PROVE  ProtocolTypeOK'
BY WritesType DEF ProtocolTypeOK, Sends

\* and of one that sends a single line.
LEMMA SendsOneType ==
    ASSUME ProtocolTypeOK, NEW c \in Client, NEW m \in Request, Sends(c, <<m>>)
    PROVE  ProtocolTypeOK'
<1>1. <<m>> \in Seq(Request)
  OBVIOUS
<1> QED
  BY <1>1, SendsType

\* Receiving gives a reply of a type that was asked for, and leaves the rest.
LEMMA ReceivesType ==
    ASSUME ProtocolTypeOK, NEW c \in Client, NEW types, Receives(c, types)
    PROVE  /\ Head(toClient[c]) \in Reply
           /\ Head(toClient[c]).type \in types
           /\ toClient' \in [Client -> Seq(Reply)]
           /\ conn' \in [Client -> ConnState]
BY DEF ProtocolTypeOK, Receives

(***************************************************************************)
(* The fields of a reply, by its type.                                     *)
(***************************************************************************)
LEMMA ReplyFields ==
    ASSUME NEW m \in Reply
    PROVE  /\ m.type = "login_success" => m.username \in Name
           /\ m.type = "room_list" => m.rooms \in SUBSET Nat
           /\ m.type \in {"room_created", "room_joined"} => m.room_id \in Nat
           /\ m.type = "room_joined" => m.code \in Text
           /\ m.type = "member_list" => m.members \in SUBSET User
           /\ m.type = "code_update" => m.code \in Text
           /\ m.type = "chat_message" => m.sender \in Name /\ m.text \in ChatText
<1>1. CASE m \in [type : {"login_failed", "register_success",
                          "register_failed", "join_failed"}]
  BY <1>1
<1>2. CASE m \in [type : {"login_success", "user_joined", "user_left"},
                  username : Name]
  BY <1>2
<1>3. CASE m \in [type : {"room_list"}, rooms : SUBSET Nat]
  BY <1>3
<1>4. CASE m \in [type : {"room_created"}, room_id : Nat]
  BY <1>4
<1>5. CASE m \in [type : {"room_joined"}, room_id : Nat, code : Text]
  BY <1>5
<1>6. CASE m \in [type : {"member_list"}, members : SUBSET User]
  BY <1>6
<1>7. CASE m \in [type : {"code_update"}, room_id : Nat, code : Text]
  BY <1>7
<1>8. CASE m \in [type : {"chat_message"}, room_id : Nat, sender : Name,
                  text : ChatText]
  BY <1>8
<1> QED
  BY <1>1, <1>2, <1>3, <1>4, <1>5, <1>6, <1>7, <1>8 DEF Reply

-----------------------------------------------------------------------------
\* What the user does.

\* A program starts, with or without a server, or ends.
LEMMA LifeType ==
    ASSUME ProtocolAssumption, WindowsTypeOK, NEW c \in Client,
           Launch(c) \/ LaunchAlone(c) \/ CloseWindow(c)
    PROVE  WindowsTypeOK'
<1>1. CASE Launch(c) \/ LaunchAlone(c)
  BY <1>1
  DEF Launch, LaunchAlone, clientVars, WindowsTypeOK, ProtocolTypeOK,
      ClientTypeOK, ConnState
<1>2. CASE CloseWindow(c)
  <2>1. PICK n \in 0 .. Len(toServer[c]) :
           toServer' = [toServer EXCEPT ![c] = SubSeq(@, 1, n)]
    BY <1>2 DEF CloseWindow
  <2>2. SubSeq(toServer[c], 1, n) \in Seq(Request)
    BY SubSeqProperties DEF WindowsTypeOK, ProtocolTypeOK
  <2>3. ProtocolTypeOK'
    BY <1>2, <2>1, <2>2
    DEF CloseWindow, WindowsTypeOK, ProtocolTypeOK, ConnState
  <2>4. MainWindow \in Window /\ DashboardWidget \in Dash
    BY DEF MainWindow, DashboardWidget, Window, Dash, Page, Name, NoRoom,
           ProtocolAssumption
  <2> QED
    BY <1>2, <2>3, <2>4 DEF CloseWindow, WindowsTypeOK, ClientTypeOK
<1> QED
  BY <1>1, <1>2

\* Logging in, registering, and the links between both pages.
LEMMA AccountPagesType ==
    ASSUME WindowsTypeOK, NEW c \in Client,
           \/ GoToRegister(c) \/ GoToLogin(c)
           \/ \E u \in User, p \in Password : \/ onLoginAttempt(c, u, p)
                                              \/ onRegisterAttempt(c, u, p)
    PROVE  WindowsTypeOK'
<1>1. CASE GoToRegister(c) \/ GoToLogin(c)
  <2>1. PICK p \in {"login", "register"} :
           window' = [window EXCEPT ![c].page = p]
    BY <1>1 DEF GoToRegister, GoToLogin
  <2>2. [window[c] EXCEPT !.page = p] \in Window
    BY DEF WindowsTypeOK, ClientTypeOK, Window, Page
  <2> QED
    BY <1>1, <2>1, <2>2
    DEF GoToRegister, GoToLogin, protocolVars, WindowsTypeOK, ProtocolTypeOK,
        ClientTypeOK
<1>2. ASSUME NEW u \in User, NEW p \in Password,
             onLoginAttempt(c, u, p) \/ onRegisterAttempt(c, u, p)
      PROVE  WindowsTypeOK'
  <2>1. LoginMsg(u, p) \in Request /\ RegisterMsg(u, p) \in Request
    BY RequestValues
  <2>2. ProtocolTypeOK'
    BY <1>2, <2>1, SendsOneType
    DEF onLoginAttempt, onRegisterAttempt, WindowsTypeOK
  <2>3. \A b \in BOOLEAN : /\ [window[c] EXCEPT !.loading = b] \in Window
                           /\ [window[c] EXCEPT !.registering = b] \in Window
    BY DEF WindowsTypeOK, ClientTypeOK, Window
  <2>4. ClientTypeOK'
    BY <1>2, <2>3
    DEF onLoginAttempt, onRegisterAttempt, WindowsTypeOK, ClientTypeOK
  <2> QED
    BY <2>2, <2>4 DEF WindowsTypeOK
<1> QED
  BY <1>1, <1>2

\* The rooms page: its dialog, joining, refreshing.
LEMMA RoomPageType ==
    ASSUME WindowsTypeOK, NEW c \in Client,
           \/ OpenNewRoomDialog(c) \/ CloseNewRoomDialog(c) \/ refresh(c)
           \/ \E r \in window[c].roomList : onJoinClicked(c, r)
    PROVE  WindowsTypeOK'
<1> \A b \in BOOLEAN : [window[c] EXCEPT !.naming = b] \in Window
  BY DEF WindowsTypeOK, ClientTypeOK, Window
<1>1. CASE OpenNewRoomDialog(c)
  BY <1>1
  DEF OpenNewRoomDialog, protocolVars, WindowsTypeOK, ProtocolTypeOK,
      ClientTypeOK
<1>2. CASE CloseNewRoomDialog(c)
  <2>1. ProtocolTypeOK'
    BY <1>2, RequestValues, SendsOneType
    DEF CloseNewRoomDialog, protocolVars, WindowsTypeOK, ProtocolTypeOK
  <2>2. ClientTypeOK'
    BY <1>2 DEF CloseNewRoomDialog, WindowsTypeOK, ClientTypeOK
  <2> QED
    BY <2>1, <2>2 DEF WindowsTypeOK
<1>3. CASE refresh(c)
  BY <1>3, RequestValues, SendsOneType
  DEF refresh, clientVars, WindowsTypeOK, ClientTypeOK
<1>4. ASSUME NEW r \in window[c].roomList, onJoinClicked(c, r)
      PROVE  WindowsTypeOK'
  <2>1. r \in Nat
    BY <1>4 DEF WindowsTypeOK, ClientTypeOK, Window
  <2>2. ProtocolTypeOK'
    BY <1>4, <2>1, RequestValues, SendsOneType
    DEF onJoinClicked, WindowsTypeOK
  <2> QED
    BY <1>4, <2>2 DEF onJoinClicked, clientVars, WindowsTypeOK, ClientTypeOK
<1> QED
  BY <1>1, <1>2, <1>3, <1>4

\* Moving between the dashboard, the tasks and the rooms, and logging out.
LEMMA MenuType ==
    ASSUME WindowsTypeOK, NEW c \in Client,
           BackToRooms(c) \/ logout(c) \/ OpenTasks(c) \/ CloseTasks(c)
    PROVE  WindowsTypeOK'
<1>1. CASE BackToRooms(c)
  <2>1. <<LeaveRoom, GetRooms>> \in Seq(Request)
    BY RequestValues
  <2>2. ProtocolTypeOK'
    BY <1>1, <2>1, SendsType DEF BackToRooms, WindowsTypeOK
  <2>3. [window[c] EXCEPT !.page = "room", !.currentRoomId = NoRoom] \in Window
    BY DEF WindowsTypeOK, ClientTypeOK, Window, Page, NoRoom
  <2>4. ClientTypeOK'
    BY <1>1, <2>3 DEF BackToRooms, WindowsTypeOK, ClientTypeOK
  <2> QED
    BY <2>2, <2>4 DEF WindowsTypeOK
<1>2. CASE logout(c)
  <2>1. ProtocolTypeOK'
    BY <1>2, RequestValues, SendsOneType DEF logout, WindowsTypeOK
  <2>2. [window[c] EXCEPT !.page = "login", !.currentUser = NoUser,
                           !.currentRoomId = NoRoom, !.loggedIn = FALSE,
                           !.loading = FALSE] \in Window
    BY DEF WindowsTypeOK, ClientTypeOK, Window, Page, Name, NoRoom
  <2>3. ClientTypeOK'
    BY <1>2, <2>2 DEF logout, WindowsTypeOK, ClientTypeOK
  <2> QED
    BY <2>1, <2>3 DEF WindowsTypeOK
<1>3. CASE OpenTasks(c) \/ CloseTasks(c)
  <2>1. PICK p \in {"tasks", "dashboard"} :
           window' = [window EXCEPT ![c].page = p]
    BY <1>3 DEF OpenTasks, CloseTasks
  <2>2. [window[c] EXCEPT !.page = p] \in Window
    BY DEF WindowsTypeOK, ClientTypeOK, Window, Page
  <2> QED
    BY <1>3, <2>1, <2>2
    DEF OpenTasks, CloseTasks, protocolVars, WindowsTypeOK, ProtocolTypeOK,
        ClientTypeOK
<1> QED
  BY <1>1, <1>2, <1>3

\* What the dashboard sends, and its editor.
LEMMA DashboardType ==
    ASSUME WindowsTypeOK, NEW c \in Client,
           \/ \E t \in ChatText : sendChat(c, t)
           \/ \E t \in Text : EditCode(c, t)
           \/ codeSyncTriggered(c)
    PROVE  WindowsTypeOK'
<1>1. /\ window[c].currentRoomId \in Nat /\ window[c].currentUser \in Name
      /\ dash[c].editor \in Text
  BY DEF WindowsTypeOK, ClientTypeOK, Window, Dash
<1>2. ASSUME NEW t \in ChatText, sendChat(c, t) PROVE WindowsTypeOK'
  <2>1. [type |-> "chat_message", sender |-> window[c].currentUser,
         room_id |-> window[c].currentRoomId, text |-> t] \in Request
    BY <1>1, RequestValues
  <2>2. ProtocolTypeOK'
    BY <1>2, <2>1, SendsOneType DEF sendChat, WindowsTypeOK
  <2> QED
    BY <1>2, <2>2 DEF sendChat, clientVars, WindowsTypeOK, ClientTypeOK
<1>3. ASSUME NEW t \in Text, EditCode(c, t) PROVE WindowsTypeOK'
  BY <1>3
  DEF EditCode, protocolVars, WindowsTypeOK, ProtocolTypeOK, ClientTypeOK, Dash
<1>4. CASE codeSyncTriggered(c)
  <2>1. [type |-> "code_update", code |-> dash[c].editor,
         room_id |-> window[c].currentRoomId] \in Request
    BY <1>1, RequestValues
  <2>2. ProtocolTypeOK'
    BY <1>4, <2>1, SendsOneType DEF codeSyncTriggered, WindowsTypeOK
  <2>3. ClientTypeOK'
    BY <1>4 DEF codeSyncTriggered, WindowsTypeOK, ClientTypeOK, Dash
  <2> QED
    BY <2>2, <2>3 DEF WindowsTypeOK
<1> QED
  BY <1>2, <1>3, <1>4

-----------------------------------------------------------------------------
\* What a message of the server does.

\* Answers to logins and registrations, and the room list.
LEMMA AnswersType ==
    ASSUME WindowsTypeOK, NEW c \in Client,
           \/ loginSuccess(c) \/ loginFailed(c)
           \/ registerSuccess(c) \/ registerFailed(c) \/ onRoomList(c)
    PROVE  WindowsTypeOK'
<1> DEFINE m == Head(toClient[c])
<1>1. CASE loginSuccess(c)
  <2>1. Receives(c, {"login_success"}) /\ Writes(c, <<GetRooms>>)
    BY <1>1 DEF loginSuccess
  <2>2. /\ toClient' \in [Client -> Seq(Reply)] /\ conn' \in [Client -> ConnState]
        /\ m.username \in Name
    BY <2>1, ReceivesType, ReplyFields DEF WindowsTypeOK
  <2>3. <<GetRooms>> \in Seq(Request)
    BY RequestValues
  <2>4. toServer' \in [Client -> Seq(Request)]
    BY <2>1, <2>3, WritesType DEF WindowsTypeOK
  <2>5. [window[c] EXCEPT !.currentUser = m.username, !.loading = FALSE,
                           !.loggedIn = TRUE, !.page = "room"] \in Window
    BY <2>2 DEF WindowsTypeOK, ClientTypeOK, Window, Page
  <2>6. ClientTypeOK'
    BY <1>1, <2>5 DEF loginSuccess, WindowsTypeOK, ClientTypeOK
  <2> QED
    BY <2>2, <2>4, <2>6 DEF WindowsTypeOK, ProtocolTypeOK
<1>2. CASE loginFailed(c) \/ registerSuccess(c) \/ registerFailed(c) \/ onRoomList(c)
  <2>1. ProtocolTypeOK'
    BY <1>2, ReceivesType
    DEF loginFailed, registerSuccess, registerFailed, onRoomList,
        WindowsTypeOK, ProtocolTypeOK
  <2>2. CASE loginFailed(c) \/ registerSuccess(c) \/ registerFailed(c)
    <3>1. /\ [window[c] EXCEPT !.loading = FALSE] \in Window
          /\ [window[c] EXCEPT !.registering = FALSE] \in Window
          /\ [window[c] EXCEPT !.registering = FALSE, !.page = "login"] \in Window
      BY DEF WindowsTypeOK, ClientTypeOK, Window, Page
    <3> QED
      BY <2>1, <2>2, <3>1
      DEF loginFailed, registerSuccess, registerFailed, WindowsTypeOK, ClientTypeOK
  <2>3. CASE onRoomList(c)
    <3>1. m.rooms \in SUBSET Nat
      BY <2>3, ReceivesType, ReplyFields DEF onRoomList, WindowsTypeOK
    <3> QED
      BY <2>1, <2>3, <3>1 DEF onRoomList, WindowsTypeOK, ClientTypeOK, Window
  <2> QED
    BY <1>2, <2>2, <2>3
<1> QED
  BY <1>1, <1>2

\* What a member of a room is told.
LEMMA RoomNewsType ==
    ASSUME ProtocolAssumption, WindowsTypeOK, NEW c \in Client,
           \/ roomEntered(c) \/ onJoinFailed(c) \/ memberListReceived(c)
           \/ userJoined(c) \/ userLeft(c) \/ codeUpdated(c) \/ chatReceived(c)
    PROVE  WindowsTypeOK'
<1> DEFINE m == Head(toClient[c])
<1>1. CASE roomEntered(c)
  <2> DEFINE text == IF m.type = "room_joined" THEN m.code ELSE Blank
  <2>1. ProtocolTypeOK'
    BY <1>1, ReceivesType DEF roomEntered, WindowsTypeOK, ProtocolTypeOK
  <2>2. m.room_id \in Nat /\ text \in Text
    BY <1>1, ReceivesType, ReplyFields
    DEF roomEntered, WindowsTypeOK, ProtocolAssumption
  <2>3. [window[c] EXCEPT !.currentRoomId = m.room_id, !.page = "dashboard"]
          \in Window
    BY <2>2 DEF WindowsTypeOK, ClientTypeOK, Window, Page
  <2>4. [dash[c] EXCEPT !.editor = text] \in Dash
    BY <2>2 DEF WindowsTypeOK, ClientTypeOK, Dash
  <2>5. ClientTypeOK'
    BY <1>1, <2>3, <2>4
    DEF roomEntered, applyRemoteCode, WindowsTypeOK, ClientTypeOK
  <2> QED
    BY <2>1, <2>5 DEF WindowsTypeOK
<1>2. CASE userJoined(c) \/ onJoinFailed(c)
  BY <1>2, ReceivesType
  DEF userJoined, onJoinFailed, clientVars, WindowsTypeOK, ProtocolTypeOK,
      ClientTypeOK
<1>3. CASE userLeft(c)
  <2>1. <<GetRooms>> \in Seq(Request)
    BY RequestValues
  <2> QED
    BY <1>3, <2>1, ReceivesType, WritesType
    DEF userLeft, clientVars, WindowsTypeOK, ProtocolTypeOK, ClientTypeOK
<1>4. CASE memberListReceived(c) \/ codeUpdated(c) \/ chatReceived(c)
  <2>1. ProtocolTypeOK'
    BY <1>4, ReceivesType
    DEF memberListReceived, codeUpdated, chatReceived, WindowsTypeOK,
        ProtocolTypeOK
  <2>2. CASE memberListReceived(c)
    <3>1. m.members \in SUBSET User
      BY <2>2, ReceivesType, ReplyFields DEF memberListReceived, WindowsTypeOK
    <3> QED
      BY <2>1, <2>2, <3>1
      DEF memberListReceived, WindowsTypeOK, ClientTypeOK, Dash
  <2>3. CASE codeUpdated(c)
    <3>1. m.code \in Text
      BY <2>3, ReceivesType, ReplyFields DEF codeUpdated, WindowsTypeOK
    <3> QED
      BY <2>1, <2>3, <3>1
      DEF codeUpdated, applyRemoteCode, WindowsTypeOK, ClientTypeOK, Dash
  <2>4. CASE chatReceived(c)
    <3> DEFINE Line == [sender : Name, text : ChatText]
               line == [sender |-> m.sender, text |-> m.text]
    <3>1. line \in Line
      BY <2>4, ReceivesType, ReplyFields DEF chatReceived, WindowsTypeOK
    <3>2. dash[c].chatList \in Seq(Line)
      BY DEF WindowsTypeOK, ClientTypeOK, Dash
    <3> HIDE DEF line
    <3>3. Append(dash[c].chatList, line) \in Seq(Line)
      <4> HIDE DEF Line
      <4> QED
        BY <3>1, <3>2, AppendProperties
    <3>4. [dash[c] EXCEPT !.chatList = Append(@, line)] \in Dash
      BY <3>3 DEF WindowsTypeOK, ClientTypeOK, Dash
    <3>5. ClientTypeOK'
      BY <2>4, <3>4 DEF chatReceived, WindowsTypeOK, ClientTypeOK, line
    <3> QED
      BY <2>1, <3>5 DEF WindowsTypeOK
  <2> QED
    BY <1>4, <2>2, <2>3, <2>4
<1> QED
  BY <1>1, <1>2, <1>3, <1>4

\* So every message a window handles keeps the types.
LEMMA DispatchType ==
    ASSUME ProtocolAssumption, WindowsTypeOK, NEW c \in Client, dispatch(c)
    PROVE  WindowsTypeOK'
BY AnswersType, RoomNewsType DEF dispatch

-----------------------------------------------------------------------------
\* Type correctness.

\* A restart of the server keeps the types.
LEMMA RestartType ==
    ASSUME TypeOK, ServerRestarts, UNCHANGED <<clientVars, said>>
    PROVE  TypeOK'
<1>1. conn' \in [Client -> ConnState]
  BY DEF ServerRestarts, TypeOK, ProtocolTypeOK, ConnState
<1>2. toServer' \in [Client -> Seq(Request)]
  BY DEF ServerRestarts
<1>3. toClient' \in [Client -> Seq(Reply)]
  <2>1. ASSUME NEW c \in Client PROVE toClient'[c] \in Seq(Reply)
    <3>1. toClient'[c] \in Beginnings(toClient[c])
      BY DEF ServerRestarts
    <3>2. PICK n \in 0 .. Len(toClient[c]) :
             toClient'[c] = SubSeq(toClient[c], 1, n)
      BY <3>1 DEF Beginnings
    <3> QED
      BY <3>2, SubSeqProperties DEF TypeOK, ProtocolTypeOK
  <2>2. toClient' \in [Client -> UNION {Beginnings(toClient[c]) : c \in Client}]
    BY DEF ServerRestarts
  <2> QED
    BY <2>1, <2>2
<1>4. ServerTypeOK'
  <2>1. RoomId' = {}
    BY DEF ServerRestarts, RoomId
  <2>2. rooms' \in [RoomId' -> Room]
    BY <2>1 DEF ServerRestarts
  <2> QED
    BY <2>2 DEF ServerRestarts, TypeOK, ServerTypeOK, Name
<1>5. ClientTypeOK' /\ said' \subseteq ChatText
  BY DEF TypeOK, ClientTypeOK, clientVars
<1> QED
  BY <1>1, <1>2, <1>3, <1>4, <1>5 DEF TypeOK, ProtocolTypeOK

\* Whatever a user does keeps the types.
LEMMA UserStepType ==
    ASSUME ProtocolAssumption, TypeOK, NEW c \in Client, UserStep(c)
    PROVE  TypeOK'
<1>1. WindowsTypeOK
  BY DEF TypeOK, WindowsTypeOK
<1>2. ServerTypeOK'
  BY DEF UserStep, serverVars, TypeOK, ServerTypeOK, RoomId
<1>3. CASE UserAction(c) /\ UNCHANGED said
  <2>1. WindowsTypeOK'
    BY <1>1, <1>3, LifeType, AccountPagesType, RoomPageType, MenuType,
       DashboardType
    DEF UserAction, LogIn, Register
  <2> QED
    BY <1>2, <1>3, <2>1 DEF TypeOK, WindowsTypeOK
<1>4. ASSUME NEW t \in ChatText, Chat(c, t), said' = said \cup {t}
      PROVE  TypeOK'
  <2>1. WindowsTypeOK'
    BY <1>1, <1>4, DashboardType DEF Chat
  <2> QED
    BY <1>2, <1>4, <2>1 DEF TypeOK, WindowsTypeOK
<1> QED
  BY <1>3, <1>4 DEF UserStep

\* Every step keeps the types.
LEMMA NextType ==
    ASSUME ProtocolAssumption, TypeOK, [Next]_vars
    PROVE  TypeOK'
<1>1. ASSUME NEW c \in Client, ServerTurn(c) PROVE TypeOK'
  BY <1>1, ServerStepType
  DEF ServerTurn, TypeOK, ServingTypeOK, ClientTypeOK, clientVars
<1>2. ASSUME NEW c \in Client, ClientTurn(c) \/ TimerTurn(c) PROVE TypeOK'
  <2>1. WindowsTypeOK'
    BY <1>2, DispatchType, DashboardType
    DEF ClientTurn, TimerTurn, TypeOK, WindowsTypeOK
  <2>2. ServerTypeOK' /\ said' = said
    BY <1>2
    DEF ClientTurn, TimerTurn, TypeOK, ServerTypeOK, serverVars, RoomId
  <2> QED
    BY <2>1, <2>2 DEF TypeOK, WindowsTypeOK
<1>3. CASE UNCHANGED vars
  BY <1>3
  DEF vars, protocolVars, serverVars, clientVars, TypeOK, ProtocolTypeOK,
      ServerTypeOK, ClientTypeOK, RoomId
<1> QED
  BY <1>1, <1>2, <1>3, RestartType, UserStepType DEF Next, Restart

(***************************************************************************)
(* Messages, sessions, rooms and windows keep their types: what a page     *)
(* holds is always something the server can be sent, and nobody is in a    *)
(* room that does not exist, through every restart of the server.          *)
(***************************************************************************)
THEOREM TypeCorrect == Spec => []TypeOK
<1>1. Init => TypeOK
  <2>1. MainWindow \in Window /\ DashboardWidget \in Dash
    BY ProtocolAssumption
    DEF MainWindow, DashboardWidget, Window, Dash, Page, Name,
        ProtocolAssumption, NoRoom
  <2> QED
    BY <2>1, InitType, ProtocolAssumption, ServerAssumption
    DEF Init, TypeOK, ServingTypeOK, ClientInit, ClientTypeOK
<1>2. TypeOK /\ [Next]_vars => TypeOK'
  BY NextType, ProtocolAssumption
<1> QED
  BY <1>1, <1>2, PTL DEF Spec

-----------------------------------------------------------------------------
\* Members and sessions.

\* What a window does, or a user with it, cuts nobody off that the server
\* still has to hear out.
LEMMA ClientsStayConnected ==
    ASSUME TypeOK, NEW c \in Client,
           ClientTurn(c) \/ TimerTurn(c) \/ UserStep(c)
    PROVE  /\ UNCHANGED serverVars
           /\ \A d \in Client : conn[d] \in {"open", "hungup"}
                                   => conn'[d] \in {"open", "hungup"}
<1>1. UNCHANGED serverVars
  BY DEF ClientTurn, TimerTurn, UserStep
<1>2. CASE ClientTurn(c)
  BY <1>1, <1>2
  DEF ClientTurn, dispatch, Receives, loginSuccess, loginFailed,
      registerSuccess, registerFailed, onRoomList, roomEntered, onJoinFailed,
      memberListReceived, userJoined, userLeft, codeUpdated, chatReceived
<1>3. CASE TimerTurn(c)
  BY <1>1, <1>3 DEF TimerTurn, codeSyncTriggered, Sends
<1>4. ASSUME NEW t \in ChatText, Chat(c, t) PROVE conn' = conn
  BY <1>4 DEF Chat, sendChat, Sends
<1>5. CASE UserAction(c)
  <2>1. CASE Launch(c) \/ LaunchAlone(c) \/ CloseWindow(c)
    BY <1>1, <2>1
    DEF Launch, LaunchAlone, CloseWindow, Up, TypeOK, ProtocolTypeOK
  <2>2. CASE ~(Launch(c) \/ LaunchAlone(c) \/ CloseWindow(c))
    <3>1. conn' = conn
      BY <1>5, <2>2
      DEF UserAction, GoToRegister, GoToLogin, LogIn, onLoginAttempt, Register,
          onRegisterAttempt, OpenNewRoomDialog, CloseNewRoomDialog,
          onJoinClicked, refresh, BackToRooms, logout, OpenTasks, CloseTasks,
          EditCode, Sends, protocolVars
    <3> QED
      BY <1>1, <3>1
  <2> QED
    BY <2>1, <2>2
<1> QED
  BY <1>1, <1>2, <1>3, <1>4, <1>5 DEF UserStep

\* Every step keeps MembersMatchSessions.
LEMMA NextMatch ==
    ASSUME TypeOK, MembersMatchSessions, [Next]_vars
    PROVE  MembersMatchSessions'
<1>1. ASSUME NEW c \in Client, ServerTurn(c) PROVE MembersMatchSessions'
  BY <1>1, ServerStepMatch DEF ServerTurn, TypeOK, ServingTypeOK
<1>2. ASSUME NEW c \in Client, ClientTurn(c) \/ TimerTurn(c) \/ UserStep(c)
      PROVE  MembersMatchSessions'
  BY <1>2, ClientsStayConnected, OthersKeepMatch
<1>3. CASE Restart
  <2>1. RoomId' = {} /\ \A c \in Client : current_room'[c] = NoRoom
    BY <1>3 DEF Restart, ServerRestarts, RoomId
  <2> QED
    BY <2>1 DEF MembersMatchSessions
<1>4. CASE UNCHANGED vars
  BY <1>4
  DEF vars, protocolVars, serverVars, MembersMatchSessions, InRoom, RoomId
<1> QED
  BY <1>1, <1>2, <1>3, <1>4 DEF Next

(***************************************************************************)
(* With windows at the other end, and a server that may be killed and      *)
(* started again, members and sessions still always agree.                 *)
(***************************************************************************)
THEOREM MembersAlwaysMatch == Spec => []MembersMatchSessions
<1>1. Init => MembersMatchSessions
  BY DEF Init, ServerInit, MembersMatchSessions, InRoom, RoomId
<1>2. TypeOK /\ MembersMatchSessions /\ [Next]_vars => MembersMatchSessions'
  BY NextMatch
<1> QED
  BY <1>1, <1>2, TypeCorrect, PTL DEF Spec

-----------------------------------------------------------------------------
\* Queues of lines: what a line type that is, or is not, in them means for
\* what remains, what is cut off and what is added.

\* A line of a longer queue was there before, or is one of those added.
LEMMA QueueGrows ==
    ASSUME NEW S, NEW q \in Seq(S), NEW s \in Seq(S)
    PROVE  /\ q \o s \in Seq(S) /\ Len(q \o s) = Len(q) + Len(s)
           /\ \A i \in DOMAIN (q \o s) :
                 \/ i \in DOMAIN q /\ (q \o s)[i] = q[i]
                 \/ /\ i \notin DOMAIN q /\ i - Len(q) \in DOMAIN s
                    /\ (q \o s)[i] = s[i - Len(q)]
           /\ DOMAIN q \subseteq DOMAIN (q \o s)
BY ConcatProperties

\* A line behind the first moves up by one.
LEMMA QueueTail ==
    ASSUME NEW S, NEW q \in Seq(S), q # <<>>
    PROVE  /\ Tail(q) \in Seq(S) /\ Len(Tail(q)) = Len(q) - 1 /\ Len(q) > 0
           /\ 1 \in DOMAIN q /\ Head(q) = q[1]
           /\ \A i \in DOMAIN Tail(q) : /\ i \in Nat /\ i + 1 \in DOMAIN q
                                         /\ Tail(q)[i] = q[i + 1]
BY HeadTailProperties, EmptySeq

\* A line of a prefix was there, at the same place.
LEMMA QueuePrefix ==
    ASSUME NEW S, NEW q \in Seq(S), NEW n \in 0 .. Len(q)
    PROVE  /\ SubSeq(q, 1, n) \in Seq(S) /\ Len(SubSeq(q, 1, n)) = n
           /\ \A i \in DOMAIN SubSeq(q, 1, n) :
                 i \in DOMAIN q /\ SubSeq(q, 1, n)[i] = q[i]
BY SubSeqProperties

\* Whether a type of line is in a queue, and in which order two types are.
LEMMA HasGrows ==
    ASSUME NEW S, NEW q \in Seq(S), NEW s \in Seq(S), NEW t, Has(q \o s, t)
    PROVE  Has(q, t) \/ Has(s, t)
BY QueueGrows DEF Has

\* What remains of a queue has no new types of lines.
LEMMA HasShrinks ==
    ASSUME NEW S, NEW q \in Seq(S), NEW t
    PROVE  /\ q # <<>> /\ Has(Tail(q), t) => Has(q, t)
           /\ \A n \in 0 .. Len(q) : Has(SubSeq(q, 1, n), t) => Has(q, t)
BY QueueTail, QueuePrefix DEF Has

\* Two types stay in order when what is added does not start with the
\* second while the first waits.
LEMMA NoneAfterGrows ==
    ASSUME NEW S, NEW q \in Seq(S), NEW s \in Seq(S), NEW t1, NEW t2,
           NoneAfter(q, t1, t2), NoneAfter(s, t1, t2),
           ~Has(q, t1) \/ ~Has(s, t2)
    PROVE  NoneAfter(q \o s, t1, t2)
<1> DEFINE z == q \o s
<1> SUFFICES ASSUME NEW i \in DOMAIN z, NEW j \in DOMAIN z,
                    i < j, z[i].type = t1, z[j].type = t2
             PROVE  FALSE
  BY DEF NoneAfter
<1>1. i \in 1 .. Len(q) + Len(s) /\ j \in 1 .. Len(q) + Len(s)
  BY QueueGrows, LenProperties
<1>2. CASE j \in DOMAIN q
  <2>1. i \in DOMAIN q
    BY <1>1, <1>2, LenProperties
  <2> QED
    BY <1>2, <2>1, QueueGrows DEF NoneAfter
<1>3. CASE i \in DOMAIN q /\ j \notin DOMAIN q
  BY <1>3, QueueGrows DEF Has
<1>4. CASE i \notin DOMAIN q /\ j \notin DOMAIN q
  <2>1. /\ i - Len(q) \in DOMAIN s /\ z[i] = s[i - Len(q)]
        /\ j - Len(q) \in DOMAIN s /\ z[j] = s[j - Len(q)]
    BY <1>4, QueueGrows
  <2>2. i - Len(q) < j - Len(q)
    BY <1>1, LenProperties
  <2> QED
    BY <2>1, <2>2 DEF NoneAfter
<1> QED
  BY <1>2, <1>3, <1>4

\* They stay in order in what remains; behind a line of the first type
\* there is none of the second.
LEMMA NoneAfterShrinks ==
    ASSUME NEW S, NEW q \in Seq(S), NEW t1, NEW t2, NoneAfter(q, t1, t2)
    PROVE  /\ q # <<>> => NoneAfter(Tail(q), t1, t2)
           /\ \A n \in 0 .. Len(q) : NoneAfter(SubSeq(q, 1, n), t1, t2)
           /\ q # <<>> /\ Head(q).type = t1 => ~Has(Tail(q), t2)
<1>1. ASSUME q # <<>> PROVE NoneAfter(Tail(q), t1, t2)
  <2>1. \A i, j \in DOMAIN Tail(q) : i < j => i + 1 < j + 1
    BY <1>1, QueueTail
  <2> QED
    BY <1>1, <2>1, QueueTail DEF NoneAfter
<1>2. ASSUME NEW n \in 0 .. Len(q) PROVE NoneAfter(SubSeq(q, 1, n), t1, t2)
  BY QueuePrefix DEF NoneAfter
<1>3. ASSUME q # <<>>, Head(q).type = t1 PROVE ~Has(Tail(q), t2)
  <2>1. \A j \in DOMAIN Tail(q) : 1 < j + 1
    BY <1>3, QueueTail, LenProperties
  <2> QED
    BY <1>3, <2>1, QueueTail DEF NoneAfter, Has
<1> QED
  BY <1>1, <1>2, <1>3

\* Being out of every room by line i does not depend on the lines from i on.
LEMMA OutWhenGrown ==
    ASSUME NEW S, NEW q \in Seq(S), NEW s \in Seq(S), NEW room,
           NEW i \in 1 .. Len(q) + 1, OutBy(q, room, i)
    PROVE  OutBy(q \o s, room, i)
<1>1. \A k \in 1 .. i - 1 : k \in DOMAIN q /\ (q \o s)[k] = q[k]
  BY ConcatProperties, LenProperties
<1> QED
  BY <1>1, LenProperties DEF OutBy

\* It does not depend on the lines that are cut off either.
LEMMA OutWhenCut ==
    ASSUME NEW S, NEW q \in Seq(S), NEW n \in 0 .. Len(q), NEW room,
           NEW i \in 1 .. n + 1, OutBy(q, room, i)
    PROVE  OutBy(SubSeq(q, 1, n), room, i)
<1>1. \A k \in 1 .. i - 1 : SubSeq(q, 1, n)[k] = q[k]
  BY QueuePrefix, LenProperties
<1> QED
  BY <1>1, LenProperties DEF OutBy

\* It lasts over lines that enter no room, and a leave_room brings it about.
LEMMA OutLater ==
    ASSUME NEW q, NEW room, NEW i \in Nat \ {0}, NEW n \in Nat, i <= n,
           OutBy(q, room, i), \A j \in i .. n - 1 : q[j].type \notin Entering
    PROVE  OutBy(q, room, n)
BY DEF OutBy

\* A session is out of every room behind a leave_room.
LEMMA OutAfterLeaving ==
    ASSUME NEW q, NEW room, NEW i \in Nat \ {0}, q[i].type = "leave_room"
    PROVE  OutBy(q, room, i + 1)
BY DEF OutBy

\* The server reads the first line, which may change the room the session is
\* in.
LEMMA OutWhenRead ==
    ASSUME NEW S, NEW q \in Seq(S), q # <<>>, NEW room, NEW room2,
           NEW i \in 1 .. Len(q), OutBy(q, room, i + 1),
           room = NoRoom /\ Head(q).type \notin Entering => room2 = NoRoom,
           Head(q).type = "leave_room" => room2 = NoRoom
    PROVE  OutBy(Tail(q), room2, i)
<1>1. PICK k \in 0 .. i :
         /\ IF k = 0 THEN room = NoRoom ELSE q[k].type = "leave_room"
         /\ \A j \in k + 1 .. i : q[j].type \notin Entering
  BY LenProperties DEF OutBy
<1>2. /\ Len(Tail(q)) = Len(q) - 1 /\ Len(q) \in Nat /\ Len(q) > 0
      /\ Head(q) = q[1]
      /\ \A j \in 1 .. Len(q) - 1 : Tail(q)[j] = q[j + 1]
  BY QueueTail, HeadTailProperties, LenProperties
<1>3. CASE k <= 1
  <2>1. room2 = NoRoom
    BY <1>1, <1>2, <1>3
  <2>2. \A j \in 1 .. i - 1 : Tail(q)[j].type \notin Entering
    BY <1>1, <1>2, <1>3
  <2> QED
    BY <2>1, <2>2, <1>2 DEF OutBy
<1>4. CASE k > 1
  <2>1. k - 1 \in 1 .. i - 1 /\ Tail(q)[k - 1].type = "leave_room"
    BY <1>1, <1>2, <1>4
  <2>2. \A j \in k .. i - 1 : Tail(q)[j].type \notin Entering
    BY <1>1, <1>2, <1>4
  <2>3. k - 1 \in 0 .. i - 1 /\ k - 1 # 0 /\ (k - 1) + 1 = k
    BY <1>4
  <2> QED
    BY <2>1, <2>2, <2>3 DEF OutBy
<1> QED
  BY <1>1, <1>3, <1>4

-----------------------------------------------------------------------------
\* LoginsInOrder: what the server does.

(***************************************************************************)
(* What a handler that has read a line of c does to c and to the others.   *)
(***************************************************************************)
Answers(c, news) ==
    /\ news \in Seq(Reply)
    /\ toClient'[c] = toClient[c] \o news
    /\ ~(Has(news, "login_success") /\ Has(news, "register_success"))
    /\ Has(news, "register_success") => Head(toServer[c]).type = "register"
    /\ Has(news, "login_success") => /\ Head(toServer[c]).type = "login"
                                     /\ username'[c] # NoUser

Serves(c) ==
    LET m == Head(toServer[c]) IN
    /\ toServer[c] # <<>> /\ toServer'[c] = Tail(toServer[c])
    /\ conn[c] \in {"open", "hungup"} /\ conn'[c] = conn[c]
    /\ window'[c] = window[c]
    /\ username'[c] # username[c] => username'[c] # NoUser
    /\ current_room[c] = NoRoom /\ m.type \notin Entering => current_room'[c] = NoRoom
    /\ m.type = "leave_room" => current_room'[c] = NoRoom
    /\ \E news : Answers(c, news)

Overhears(d) ==
    /\ toServer'[d] = toServer[d] /\ conn'[d] = conn[d]
    /\ window'[d] = window[d]
    /\ username'[d] = username[d] /\ current_room'[d] = current_room[d]
    /\ \E news \in Seq(Reply) :
          /\ toClient'[d] = IF conn[d] = "open" THEN toClient[d] \o news
                                                ELSE toClient[d]
          /\ ~Has(news, "login_success") /\ ~Has(news, "register_success")

\* Whoever only overhears a step keeps its order.
LEMMA OverhearsInOrder ==
    ASSUME TypeOK, NEW d \in Client, InOrder(d), Overhears(d)
    PROVE  InOrder(d)'
<1>1. PICK news \in Seq(Reply) :
         /\ toClient'[d] = IF conn[d] = "open" THEN toClient[d] \o news
                                               ELSE toClient[d]
         /\ ~Has(news, "login_success") /\ ~Has(news, "register_success")
  BY DEF Overhears
<1>2. toClient[d] \in Seq(Reply)
  BY DEF TypeOK, ProtocolTypeOK
<1>3. /\ Has(toClient'[d], "login_success") => Has(toClient[d], "login_success")
      /\ Has(toClient'[d], "register_success") => Has(toClient[d], "register_success")
  BY <1>1, <1>2, HasGrows
<1>4. NoneAfter(news, "login_success", "register_success")
  BY <1>1 DEF NoneAfter, Has
<1>5. NoneAfter(toClient'[d], "login_success", "register_success")
  BY <1>1, <1>2, <1>4, NoneAfterGrows DEF InOrder, RegistersFirst
<1>6. RegistersFirst(d)'
  BY <1>3, <1>5 DEF InOrder, RegistersFirst, Overhears
<1>7. NamedInside(d)' /\ StartsEmpty(d)'
  BY <1>1, <1>3 DEF InOrder, NamedInside, StartsEmpty, Overhears
<1>8. LoginsOutside(toServer[d], current_room[d])' /\ LoggedOutLeaves(d)' /\ PagesFollowLogin(d)'
  BY DEF InOrder, LoggedOutLeaves, PagesFollowLogin, Overhears
<1> QED
  BY <1>6, <1>7, <1>8 DEF InOrder

\* A client whose line is served keeps its order.
LEMMA ServesInOrder ==
    ASSUME TypeOK, NEW c \in Client, InOrder(c), Serves(c)
    PROVE  InOrder(c)'
<1> DEFINE q == toServer[c]
           a == toClient[c]
           m == Head(q)
<1>1. PICK news : Answers(c, news)
  BY DEF Serves
<1>2. /\ q \in Seq(Request) /\ a \in Seq(Reply) /\ news \in Seq(Reply)
      /\ q # <<>> /\ toServer'[c] = Tail(q) /\ toClient'[c] = a \o news
  BY <1>1 DEF TypeOK, ProtocolTypeOK, Serves, Answers
<1>3. /\ Len(Tail(q)) = Len(q) - 1 /\ Len(q) \in Nat /\ Len(q) > 0
      /\ \A i \in DOMAIN Tail(q) : /\ i \in 1 .. Len(q) - 1 /\ i + 1 \in DOMAIN q
                                    /\ Tail(q)[i] = q[i + 1]
      /\ Has(q, m.type)
  BY <1>2, QueueTail, LenProperties DEF Has
<1>4. \A i \in 1 .. Len(q) :
         OutBy(q, current_room[c], i + 1) => OutBy(Tail(q), current_room'[c], i)
  BY <1>2, OutWhenRead DEF Serves
<1>5. LoginsOutside(toServer[c], current_room[c])'
  BY <1>2, <1>3, <1>4 DEF InOrder, LoginsOutside
<1>6. LoggedOutLeaves(c)'
  BY <1>2, <1>3, <1>4 DEF InOrder, LoggedOutLeaves, Serves
<1>7. PagesFollowLogin(c)' /\ StartsEmpty(c)'
  BY DEF InOrder, PagesFollowLogin, StartsEmpty, Serves
<1>8. \A t : Has(Tail(q), t) => Has(q, t)
  BY <1>2, HasShrinks
<1>9. \A t : Has(a \o news, t) => Has(a, t) \/ Has(news, t)
  BY <1>2, HasGrows
<1>10. NamedInside(c)'
  <2>1. current_room'[c] # NoRoom =>
           \/ current_room[c] # NoRoom
           \/ Has(q, "create_room") \/ Has(q, "join_room")
    BY <1>3 DEF Serves, Entering
  <2>2. Has(a \o news, "login_success") =>
           Has(a, "login_success") \/ username'[c] # NoUser
    BY <1>1, <1>9 DEF Answers
  <2>3. username'[c] # username[c] => username'[c] # NoUser
    BY DEF Serves
  <2> QED
    BY <1>2, <1>8, <2>1, <2>2, <2>3 DEF InOrder, NamedInside, Serves
<1>11. RegistersFirst(c)'
  <2>1. NoneAfter(Tail(q), "login", "register")
    BY <1>2, NoneAfterShrinks DEF InOrder, RegistersFirst
  <2>2. NoneAfter(news, "login_success", "register_success")
    BY <1>1 DEF Answers, NoneAfter, Has
  <2>3. Has(news, "register_success") =>
           ~Has(a, "login_success") /\ ~window[c].loggedIn
    BY <1>1, <1>3 DEF Answers, InOrder, RegistersFirst
  <2>4. NoneAfter(a \o news, "login_success", "register_success")
    BY <1>2, <2>2, <2>3, NoneAfterGrows DEF InOrder, RegistersFirst
  <2>5. Has(news, "login_success") => ~Has(Tail(q), "register")
    BY <1>1, <1>2, NoneAfterShrinks DEF Answers, InOrder, RegistersFirst
  <2> QED
    BY <1>2, <1>8, <1>9, <2>1, <2>3, <2>4, <2>5
    DEF InOrder, RegistersFirst, Serves
<1> QED
  BY <1>5, <1>6, <1>7, <1>10, <1>11 DEF InOrder

\* Bundles without an answer to a login or a registration.
RoomTalk(out) ==
    \A d \in Client : ~Has(out[d], "login_success") /\ ~Has(out[d], "register_success")

\* A message to some clients that is no such answer.
LEMMA ToTalk ==
    ASSUME NEW S, NEW m, m.type \notin {"login_success", "register_success"}
    PROVE  RoomTalk(To(S, m))
BY DEF RoomTalk, To, Has

\* Two such bundles, one after the other.
LEMMA ThenTalk ==
    ASSUME NEW out1 \in Outgoing, NEW out2 \in Outgoing,
           RoomTalk(out1), RoomTalk(out2)
    PROVE  RoomTalk(out1 ++ out2)
<1> SUFFICES ASSUME NEW d \in Client
             PROVE  /\ ~Has(out1[d] \o out2[d], "login_success")
                    /\ ~Has(out1[d] \o out2[d], "register_success")
  BY DEF RoomTalk, ++
<1>1. out1[d] \in Seq(Reply) /\ out2[d] \in Seq(Reply)
  BY DEF Outgoing
<1> QED
  BY <1>1, HasGrows DEF RoomTalk

\* What a room is told of its members is such a bundle.
LEMMA MembersTalk ==
    ASSUME NEW room, NEW c \in Client, NEW S,
           NEW type \in {"user_joined", "user_left"}
    PROVE  /\ RoomTalk(broadcastMemberList(room))
           /\ RoomTalk(broadcastToRoom(room, [type |-> type, username |-> username[c]], S))
BY ToTalk DEF broadcastMemberList, broadcastToRoom

\* What each client gets of a bundle that is sent.
LEMMA PostReaches ==
    ASSUME TypeOK, NEW out \in Outgoing, Post(out), NEW d \in Client
    PROVE  /\ out[d] \in Seq(Reply)
           /\ toClient'[d] = IF conn[d] = "open" THEN toClient[d] \o out[d]
                                                 ELSE toClient[d]
BY DEF TypeOK, ProtocolTypeOK, Post, Outgoing

\* A handler that logs nobody in, registers nobody, and moves nobody but c
\* serves c, and the others overhear it.
LEMMA TalkServes ==
    ASSUME TypeOK, NEW c \in Client, NEW type, Reads(c, type),
           UNCHANGED <<clientVars, username>>,
           \/ UNCHANGED toClient
           \/ \E out \in Outgoing : RoomTalk(out) /\ Post(out),
           \A d \in Client \ {c} : current_room'[d] = current_room[d],
           current_room[c] = NoRoom /\ type \notin Entering => current_room'[c] = NoRoom,
           type = "leave_room" => current_room'[c] = NoRoom
    PROVE  Serves(c) /\ \A d \in Client \ {c} : Overhears(d)
<1>1. /\ toServer[c] # <<>> /\ Head(toServer[c]).type = type
      /\ toServer'[c] = Tail(toServer[c])
      /\ \A d \in Client \ {c} : toServer'[d] = toServer[d]
      /\ conn' = conn /\ conn[c] \in {"open", "hungup"}
  BY DEF Reads, TypeOK, ProtocolTypeOK
<1>2. /\ <<>> \in Seq(Reply)
      /\ ~Has(<<>>, "login_success") /\ ~Has(<<>>, "register_success")
      /\ \A d \in Client : toClient[d] \o <<>> = toClient[d]
  BY ConcatEmptySeq DEF Has, TypeOK, ProtocolTypeOK
<1>3. ASSUME NEW d \in Client
      PROVE  \E news \in Seq(Reply) :
                /\ toClient'[d] = IF conn[d] = "open" THEN toClient[d] \o news
                                                      ELSE toClient[d]
                /\ ~Has(news, "login_success") /\ ~Has(news, "register_success")
  <2>1. CASE UNCHANGED toClient
    BY <1>2, <2>1
  <2>2. ASSUME NEW out \in Outgoing, RoomTalk(out), Post(out)
        PROVE  \E news \in Seq(Reply) :
                /\ toClient'[d] = IF conn[d] = "open" THEN toClient[d] \o news
                                                      ELSE toClient[d]
                /\ ~Has(news, "login_success") /\ ~Has(news, "register_success")
    BY <2>2, PostReaches DEF RoomTalk
  <2> QED
    BY <2>1, <2>2
<1>4. \A d \in Client \ {c} : Overhears(d)
  BY <1>1, <1>3 DEF Overhears, clientVars
<1>5. \E news : Answers(c, news)
  <2>1. PICK news \in Seq(Reply) :
           /\ toClient'[c] = IF conn[c] = "open" THEN toClient[c] \o news
                                                 ELSE toClient[c]
           /\ ~Has(news, "login_success") /\ ~Has(news, "register_success")
    BY <1>3
  <2>2. CASE conn[c] = "open"
    BY <2>1, <2>2 DEF Answers
  <2>3. CASE conn[c] # "open"
    <3>1. Answers(c, <<>>)
      BY <1>2, <2>1, <2>3 DEF Answers
    <3> QED
      BY <3>1
  <2> QED
    BY <2>2, <2>3
<1>6. Serves(c)
  BY <1>1, <1>5 DEF Serves, clientVars
<1> QED
  BY <1>4, <1>6

\* Leaving a room tells nobody of logins or registrations.
LEMMA VacateTalks ==
    ASSUME TypeOK, NEW c \in Client, Vacate(c)
    PROVE  /\ \/ UNCHANGED toClient
              \/ \E out \in Outgoing : RoomTalk(out) /\ Post(out)
           /\ current_room'[c] = NoRoom
           /\ \A d \in Client \ {c} : current_room'[d] = current_room[d]
<1>1. CASE current_room[c] = NoRoom
  BY <1>1 DEF Vacate
<1>2. CASE current_room[c] # NoRoom
  <2> DEFINE room == removeMember(rooms[current_room[c]], c)
             out == broadcastToRoom(room, [type |-> "user_left",
                                           username |-> username[c]], {})
                      ++ broadcastMemberList(room)
  <2>1. /\ Post(out) /\ current_room' = [current_room EXCEPT ![c] = NoRoom]
        /\ current_room[c] \in RoomId
    BY <1>2 DEF Vacate, TypeOK, ServerTypeOK
  <2>2. room \in Room
    BY <2>1, RoomValues, ProtocolAssumption DEF TypeOK, ServerTypeOK
  <2>3. out \in Outgoing /\ RoomTalk(out)
    BY <2>2, NewsOutgoing, MemberListOutgoing, ThenOutgoing, MembersTalk,
       ThenTalk
    DEF TypeOK
  <2> QED
    BY <2>1, <2>3 DEF TypeOK, ServerTypeOK
<1> QED
  BY <1>1, <1>2

\* The handlers that move nobody and log nobody in.
LEMMA RelaysServe ==
    ASSUME TypeOK, NEW c \in Client, UNCHANGED clientVars,
           \/ HandleGetRooms(c) \/ HandleCodeUpdate(c)
           \/ HandleChatMessage(c) \/ SkipMalformed(c)
    PROVE  Serves(c) /\ \A d \in Client \ {c} : Overhears(d)
<1> DEFINE m == Head(toServer[c])
<1>1. PICK type \in {"get_rooms", "code_update", "chat_message", "malformed"} :
         Reads(c, type)
  BY DEF HandleGetRooms, HandleCodeUpdate, HandleChatMessage, SkipMalformed
<1>2. UNCHANGED <<username, current_room>>
  BY DEF HandleGetRooms, HandleCodeUpdate, HandleChatMessage, SkipMalformed,
         serverVars
<1>3. CASE HandleGetRooms(c)
  <2>1. [type |-> "room_list", rooms |-> listRooms] \in Reply
    BY DEF Reply, listRooms, RoomId
  <2>2. /\ To({c}, [type |-> "room_list", rooms |-> listRooms]) \in Outgoing
        /\ RoomTalk(To({c}, [type |-> "room_list", rooms |-> listRooms]))
    BY <2>1, ToOutgoing, ToTalk
  <2> QED
    BY <1>1, <1>2, <1>3, <2>2, TalkServes DEF HandleGetRooms, Entering
<1>4. CASE HandleCodeUpdate(c) \/ HandleChatMessage(c)
  <2>1. m \in Reply /\ m.type \in {"code_update", "chat_message"}
    BY <1>4, ReadsType, RequestFields
    DEF HandleCodeUpdate, HandleChatMessage, TypeOK
  <2>2. \A room, S : /\ broadcastToRoom(room, m, S) \in Outgoing
                     /\ RoomTalk(broadcastToRoom(room, m, S))
    BY <2>1, ToOutgoing, ToTalk DEF broadcastToRoom
  <2>3. \/ UNCHANGED toClient
        \/ \E room, S : Post(broadcastToRoom(room, m, S))
    BY <1>4 DEF HandleCodeUpdate, HandleChatMessage
  <2> QED
    BY <1>1, <1>2, <2>2, <2>3, TalkServes DEF Entering
<1>5. CASE SkipMalformed(c)
  BY <1>1, <1>2, <1>5, TalkServes DEF SkipMalformed, Entering
<1> QED
  BY <1>3, <1>4, <1>5

\* create_room, join_room and leave_room.
LEMMA RoomHandlersServe ==
    ASSUME TypeOK, NEW c \in Client, UNCHANGED clientVars,
           HandleCreateRoom(c) \/ HandleJoinRoom(c) \/ HandleLeaveRoom(c)
    PROVE  Serves(c) /\ \A d \in Client \ {c} : Overhears(d)
<1>1. /\ To({c}, [type |-> "join_failed"]) \in Outgoing
      /\ RoomTalk(To({c}, [type |-> "join_failed"]))
  BY ToOutgoing, ToTalk DEF Reply
<1>2. CASE HandleLeaveRoom(c)
  BY <1>2, VacateTalks, TalkServes DEF HandleLeaveRoom
<1>3. CASE HandleCreateRoom(c)
  <2>1. Reads(c, "create_room") /\ username' = username
    BY <1>3 DEF HandleCreateRoom
  <2>2. CASE ~MayEnter(c)
    BY <1>1, <1>3, <2>1, <2>2, TalkServes DEF HandleCreateRoom
  <2>3. CASE MayEnter(c)
    <3> DEFINE room == addMember(createRoom, c)
               reply == [type |-> "room_created", room_id |-> nextId]
               out == To({c}, reply) ++ broadcastMemberList(room)
    <3>1. Post(out) /\ current_room' = [current_room EXCEPT ![c] = nextId]
      BY <1>3, <2>3 DEF HandleCreateRoom
    <3>2. room \in Room /\ reply \in Reply
      BY RoomValues, ProtocolAssumption DEF TypeOK, ServerTypeOK, Reply
    <3>3. /\ To({c}, reply) \in Outgoing /\ RoomTalk(To({c}, reply))
          /\ broadcastMemberList(room) \in Outgoing
          /\ RoomTalk(broadcastMemberList(room))
      BY <3>2, ToOutgoing, ToTalk, MemberListOutgoing, MembersTalk DEF TypeOK
    <3>4. out \in Outgoing /\ RoomTalk(out)
      BY <3>3, ThenOutgoing, ThenTalk
    <3> QED
      BY <2>1, <3>1, <3>4, TalkServes DEF Entering, TypeOK, ServerTypeOK
  <2> QED
    BY <2>2, <2>3
<1>4. CASE HandleJoinRoom(c)
  <2> DEFINE rid == Head(toServer[c]).room_id
  <2>1. Reads(c, "join_room") /\ username' = username
    BY <1>4 DEF HandleJoinRoom
  <2>2. CASE ~MayEnter(c) \/ rid \notin RoomId
    BY <1>1, <1>4, <2>1, <2>2, TalkServes DEF HandleJoinRoom
  <2>3. CASE MayEnter(c) /\ rid \in RoomId
    <3> DEFINE room == addMember(rooms[rid], c)
               reply == [type |-> "room_joined", room_id |-> rid,
                         code |-> room.code]
               news == broadcastToRoom(room, [type |-> "user_joined",
                                              username |-> username[c]], {c})
               out == To({c}, reply) ++ news ++ broadcastMemberList(room)
    <3>1. Post(out) /\ current_room' = [current_room EXCEPT ![c] = rid]
      BY <1>4, <2>3 DEF HandleJoinRoom
    <3>2. room \in Room
      BY <2>3, RoomValues, ProtocolAssumption DEF TypeOK, ServerTypeOK
    <3>3. reply \in [type : {"room_joined"}, room_id : Nat, code : Text]
      BY <2>3, <3>2 DEF Room, RoomId
    <3>4. To({c}, reply) \in Outgoing /\ RoomTalk(To({c}, reply))
      BY <3>3, ToOutgoing, ToTalk DEF Reply
    <3>5. /\ news \in Outgoing /\ RoomTalk(news)
          /\ broadcastMemberList(room) \in Outgoing
          /\ RoomTalk(broadcastMemberList(room))
      BY <3>2, NewsOutgoing, MemberListOutgoing, MembersTalk DEF TypeOK
    <3>6. out \in Outgoing /\ RoomTalk(out)
      BY <3>4, <3>5, ThenOutgoing, ThenTalk
    <3> QED
      BY <2>1, <3>1, <3>6, TalkServes DEF Entering, TypeOK, ServerTypeOK
  <2> QED
    BY <2>2, <2>3
<1> QED
  BY <1>2, <1>3, <1>4

\* A reply to c reaches nobody else, and c only while it is connected.
LEMMA ReplyReaches ==
    ASSUME TypeOK, NEW c \in Client, NEW m \in Reply, Post(To({c}, m))
    PROVE  /\ \E news \in Seq(Reply) :
                 /\ toClient'[c] = toClient[c] \o news
                 /\ \A t : Has(news, t) => m.type = t
           /\ \A d \in Client \ {c} : toClient'[d] = toClient[d]
<1>1. \A d \in Client : toClient[d] \in Seq(Reply)
                        /\ toClient[d] \o <<>> = toClient[d]
  BY ConcatEmptySeq DEF TypeOK, ProtocolTypeOK
<1>2. \A d \in Client :
         toClient'[d] = IF conn[d] = "open"
                        THEN toClient[d] \o (IF d = c THEN <<m>> ELSE <<>>)
                        ELSE toClient[d]
  BY DEF Post, To
<1>3. /\ <<m>> \in Seq(Reply) /\ <<>> \in Seq(Reply)
      /\ \A t : (Has(<<m>>, t) => m.type = t) /\ ~Has(<<>>, t)
  BY DEF Has
<1>4. \A d \in Client \ {c} : toClient'[d] = toClient[d]
  BY <1>1, <1>2
<1>5. CASE conn[c] = "open"
  <2>1. toClient'[c] = toClient[c] \o <<m>>
    BY <1>2, <1>5
  <2> QED
    BY <1>3, <1>4, <2>1
<1>6. CASE conn[c] # "open"
  <2>1. toClient'[c] = toClient[c] \o <<>>
    BY <1>1, <1>2, <1>6
  <2> QED
    BY <1>3, <1>4, <2>1
<1> QED
  BY <1>5, <1>6

\* A handler that answers c alone, with a line of the right type, or nobody.
LEMMA AnswerServes ==
    ASSUME TypeOK, NEW c \in Client, NEW type \in {"login", "register"},
           Reads(c, type), UNCHANGED <<clientVars, current_room>>,
           \A d \in Client \ {c} : username'[d] = username[d],
           username'[c] # username[c] => username'[c] # NoUser,
           \/ UNCHANGED toClient
           \/ \E m \in Reply :
                 /\ Post(To({c}, m))
                 /\ m.type = "register_success" => type = "register"
                 /\ m.type = "login_success" =>
                       type = "login" /\ username'[c] # NoUser
    PROVE  Serves(c) /\ \A d \in Client \ {c} : Overhears(d)
<1>1. /\ toServer[c] # <<>> /\ Head(toServer[c]).type = type
      /\ toServer'[c] = Tail(toServer[c])
      /\ \A d \in Client \ {c} : toServer'[d] = toServer[d]
      /\ conn' = conn /\ conn[c] \in {"open", "hungup"}
  BY DEF Reads, TypeOK, ProtocolTypeOK
<1>2. /\ <<>> \in Seq(Reply) /\ \A t : ~Has(<<>>, t)
      /\ \A d \in Client : toClient[d] \o <<>> = toClient[d]
  BY ConcatEmptySeq DEF Has, TypeOK, ProtocolTypeOK
<1>3. (\E news : Answers(c, news)) /\ \A d \in Client \ {c} : toClient'[d] = toClient[d]
  <2>1. CASE UNCHANGED toClient
    <3>1. Answers(c, <<>>)
      BY <1>2, <2>1 DEF Answers
    <3> QED
      BY <2>1, <3>1
  <2>2. ASSUME NEW m \in Reply, Post(To({c}, m)),
               m.type = "register_success" => type = "register",
               m.type = "login_success" =>
                  type = "login" /\ username'[c] # NoUser
        PROVE  (\E news : Answers(c, news))
               /\ \A d \in Client \ {c} : toClient'[d] = toClient[d]
    <3>1. PICK news \in Seq(Reply) :
             /\ toClient'[c] = toClient[c] \o news
             /\ \A t : Has(news, t) => m.type = t
      BY <2>2, ReplyReaches
    <3>2. Answers(c, news)
      BY <1>1, <2>2, <3>1 DEF Answers
    <3> QED
      BY <2>2, <3>2, ReplyReaches
  <2> QED
    BY <2>1, <2>2
<1>4. Serves(c)
  BY <1>1, <1>3 DEF Serves, clientVars, Entering
<1>5. ASSUME NEW d \in Client \ {c} PROVE Overhears(d)
  BY <1>1, <1>2, <1>3 DEF Overhears, clientVars
<1> QED
  BY <1>4, <1>5

\* register and login.
LEMMA AccountHandlersServe ==
    ASSUME TypeOK, NEW c \in Client, UNCHANGED clientVars,
           HandleRegister(c) \/ HandleLogin(c)
    PROVE  Serves(c) /\ \A d \in Client \ {c} : Overhears(d)
<1> DEFINE msg == Head(toServer[c])
<1>1. /\ [type |-> "register_success"] \in Reply
      /\ [type |-> "register_failed"] \in Reply
      /\ [type |-> "login_failed"] \in Reply
  BY DEF Reply
<1>2. CASE HandleRegister(c)
  <2>1. Reads(c, "register") /\ UNCHANGED <<username, current_room>>
    BY <1>2 DEF HandleRegister
  <2>2. \/ UNCHANGED toClient
        \/ \E m \in Reply : /\ Post(To({c}, m))
                            /\ m.type # "login_success"
    BY <1>1, <1>2 DEF HandleRegister
  <2> QED
    BY <2>1, <2>2, AnswerServes
<1>3. CASE HandleLogin(c)
  <2>1. /\ Reads(c, "login") /\ UNCHANGED current_room
        /\ msg.username \in Name
    BY <1>3, ReadsType, RequestFields DEF HandleLogin, TypeOK
  <2>2. [type |-> "login_success", username |-> msg.username] \in Reply
    BY <2>1 DEF Reply
  <2>3. CASE ~MayLogIn(msg)
    <3>1. username' = username /\ Post(To({c}, [type |-> "login_failed"]))
      BY <1>3, <2>3 DEF HandleLogin
    <3> QED
      BY <1>1, <2>1, <3>1, AnswerServes
  <2>4. CASE MayLogIn(msg)
    <3>1. /\ username' = [username EXCEPT ![c] = msg.username]
          /\ \/ Post(To({c}, [type |-> "login_success",
                              username |-> msg.username]))
             \/ UNCHANGED toClient
      BY <1>3, <2>4 DEF HandleLogin
    <3>2. /\ username'[c] = msg.username /\ msg.username # NoUser
          /\ \A d \in Client \ {c} : username'[d] = username[d]
      BY <2>4, <3>1 DEF MayLogIn, TypeOK, ServerTypeOK
    <3> QED
      BY <2>1, <2>2, <3>1, <3>2, AnswerServes
  <2> QED
    BY <2>3, <2>4
<1> QED
  BY <1>2, <1>3

\* A client the server no longer hears, with a part of its answers left.
LEMMA CutOffInOrder ==
    ASSUME NEW c \in Client, InOrder(c),
           conn'[c] # "open", conn'[c] = "none" => conn[c] = "none",
           window'[c] = window[c],
           toServer'[c] = <<>>, current_room'[c] = NoRoom,
           toClient[c] \in Seq(Reply),
           \E n \in 0 .. Len(toClient[c]) :
              toClient'[c] = SubSeq(toClient[c], 1, n)
    PROVE  InOrder(c)'
<1>1. PICK n \in 0 .. Len(toClient[c]) :
         toClient'[c] = SubSeq(toClient[c], 1, n)
  OBVIOUS
<1>2. \A t : Has(toClient'[c], t) => Has(toClient[c], t)
  BY <1>1, HasShrinks
<1>3. \A t : ~Has(<<>>, t) /\ DOMAIN <<>> = {}
  BY DEF Has
<1>4. NoneAfter(toClient'[c], "login_success", "register_success")
  BY <1>1, NoneAfterShrinks DEF InOrder, RegistersFirst
<1>5. RegistersFirst(c)'
  BY <1>2, <1>3, <1>4 DEF InOrder, RegistersFirst, NoneAfter
<1>6. NamedInside(c)'
  BY <1>3 DEF NamedInside
<1>7. StartsEmpty(c)'
  <2>1. ASSUME conn[c] = "none" PROVE toClient'[c] = <<>>
    <3>1. toClient[c] = <<>>
      BY <2>1 DEF InOrder, StartsEmpty
    <3>2. Len(toClient'[c]) = 0 /\ toClient'[c] \in Seq(Reply)
      BY <1>1, <3>1, QueuePrefix, LenProperties
    <3> QED
      BY <3>2, EmptySeq
  <2> QED
    BY <2>1 DEF InOrder, StartsEmpty
<1>8. LoginsOutside(toServer[c], current_room[c])' /\ LoggedOutLeaves(c)' /\ PagesFollowLogin(c)'
  BY <1>3 DEF InOrder, LoginsOutside, LoggedOutLeaves, PagesFollowLogin
<1> QED
  BY <1>5, <1>6, <1>7, <1>8 DEF InOrder

\* Every step of the server keeps every client's order.
LEMMA ServerTurnInOrder ==
    ASSUME TypeOK, LoginsInOrder, NEW c \in Client, ServerTurn(c)
    PROVE  LoginsInOrder'
<1>1. CASE HandleDisconnect(c)
  <2>1. /\ conn[c] = "hungup" /\ toServer[c] = <<>> /\ Vacate(c)
        /\ conn'[c] = "closed" /\ \A d \in Client \ {c} : conn'[d] = conn[d]
        /\ UNCHANGED <<toServer, username, window>>
    BY <1>1 DEF HandleDisconnect, ServerTurn, clientVars, TypeOK, ProtocolTypeOK
  <2>2. /\ \/ UNCHANGED toClient
           \/ \E out \in Outgoing : RoomTalk(out) /\ Post(out)
        /\ current_room'[c] = NoRoom
        /\ \A d \in Client \ {c} : current_room'[d] = current_room[d]
    BY <2>1, VacateTalks
  <2>3. \A d \in Client : toClient[d] \in Seq(Reply)
                          /\ toClient[d] \o <<>> = toClient[d]
    BY ConcatEmptySeq DEF TypeOK, ProtocolTypeOK
  <2>4. InOrder(c)'
    <3>1. toClient'[c] = toClient[c]
      BY <2>1, <2>2, PostReaches
    <3>2. /\ Len(toClient[c]) \in 0 .. Len(toClient[c])
          /\ toClient[c] = SubSeq(toClient[c], 1, Len(toClient[c]))
      BY <2>3, SubSeqFull, LenProperties
    <3>3. /\ conn'[c] # "open" /\ conn'[c] # "none" /\ toServer'[c] = <<>>
          /\ window'[c] = window[c]
      BY <2>1
    <3>4. \E n \in 0 .. Len(toClient[c]) :
             toClient'[c] = SubSeq(toClient[c], 1, n)
      BY <3>1, <3>2
    <3> QED
      BY <2>2, <2>3, <3>3, <3>4, CutOffInOrder DEF LoginsInOrder
  <2>5. ASSUME NEW d \in Client \ {c} PROVE Overhears(d)
    <3>1. \E news \in Seq(Reply) :
             /\ toClient'[d] = IF conn[d] = "open" THEN toClient[d] \o news
                                                   ELSE toClient[d]
             /\ ~Has(news, "login_success") /\ ~Has(news, "register_success")
      <4>1. CASE UNCHANGED toClient
        <5>1. <<>> \in Seq(Reply) /\ \A t : ~Has(<<>>, t)
          BY DEF Has
        <5> QED
          BY <2>3, <4>1, <5>1
      <4>2. ASSUME NEW out \in Outgoing, RoomTalk(out), Post(out)
            PROVE  /\ out[d] \in Seq(Reply)
                   /\ toClient'[d] = IF conn[d] = "open"
                                     THEN toClient[d] \o out[d]
                                     ELSE toClient[d]
                   /\ ~Has(out[d], "login_success")
                   /\ ~Has(out[d], "register_success")
        BY <4>2, PostReaches DEF RoomTalk
      <4> QED
        BY <2>2, <4>1, <4>2
    <3> QED
      BY <2>1, <2>2, <3>1 DEF Overhears
  <2> QED
    BY <2>4, <2>5, OverhearsInOrder DEF LoginsInOrder
<1>2. CASE HandleSessionRestore(c)
  <2>1. Has(toServer[c], "session_restore")
    BY <1>2, QueueTail DEF HandleSessionRestore, Reads, Has, TypeOK, ProtocolTypeOK
  <2> QED
    BY <2>1 DEF LoginsInOrder, InOrder, NamedInside
<1>3. CASE ~HandleDisconnect(c) /\ ~HandleSessionRestore(c)
  <2>1. Serves(c) /\ \A d \in Client \ {c} : Overhears(d)
    BY <1>3, AccountHandlersServe, RelaysServe, RoomHandlersServe
    DEF ServerTurn, ServerStep
  <2> QED
    BY <2>1, ServesInOrder, OverhearsInOrder DEF LoginsInOrder
<1> QED
  BY <1>1, <1>2, <1>3

\* So does a restart, which cuts every client off.
LEMMA RestartInOrder ==
    ASSUME TypeOK, LoginsInOrder, Restart
    PROVE  LoginsInOrder'
<1> SUFFICES ASSUME NEW c \in Client PROVE InOrder(c)'
  BY DEF LoginsInOrder
<1>1. /\ conn'[c] # "open" /\ (conn'[c] = "none" => conn[c] = "none")
      /\ toServer'[c] = <<>> /\ current_room'[c] = NoRoom
      /\ window'[c] = window[c]
  BY DEF Restart, ServerRestarts, clientVars
<1>2. toClient'[c] \in Beginnings(toClient[c]) /\ toClient[c] \in Seq(Reply)
  BY DEF Restart, ServerRestarts, TypeOK, ProtocolTypeOK
<1> QED
  BY <1>1, <1>2, CutOffInOrder DEF LoginsInOrder, Beginnings

-----------------------------------------------------------------------------
\* LoginsInOrder: what a client does.

(***************************************************************************)
(* What a window may write: it logs in and registers only when nobody is   *)
(* logged in, registers only before it asks to log in, and asks for rooms  *)
(* only when somebody is logged in.                                        *)
(***************************************************************************)
MaySay(c, msgs) ==
    /\ ~Has(msgs, "session_restore")
    /\ Has(msgs, "login") => Len(msgs) = 1 /\ ~window[c].loggedIn
    /\ Has(msgs, "register") => /\ Len(msgs) = 1
                                /\ ~window[c].loggedIn
                                /\ ~Has(toServer[c], "login")
                                /\ ~Has(toClient[c], "login_success")
    /\ Has(msgs, "create_room") \/ Has(msgs, "join_room")
          => window[c].loggedIn

\* s is what gets through.
Says(c, s) ==
    /\ s \in Seq(Request)
    /\ s # <<>> => conn[c] = "open"
    /\ toServer'[c] = toServer[c] \o s
    /\ MaySay(c, s)

TakesFirst(c) == toClient[c] # <<>> /\ toClient'[c] = Tail(toClient[c])

\* A window is logged in by the server's answer, and out by leaving.
Acts(c, s) ==
    /\ Says(c, s)
    /\ conn[c] # "none" /\ conn'[c] = conn[c]
    /\ username'[c] = username[c] /\ current_room'[c] = current_room[c]
    /\ toClient'[c] = toClient[c] \/ TakesFirst(c)
    /\ window'[c].loggedIn /\ ~window[c].loggedIn
          => TakesFirst(c) /\ Head(toClient[c]).type = "login_success"
    /\ window[c].loggedIn /\ ~window'[c].loggedIn /\ conn[c] = "open"
          => s = <<LeaveRoom>>
    /\ PagesFollowLogin(c)'

\* What c writes keeps its logins outside the rooms, and leaves it outside
\* when it ends logged out.
LEMMA ActsOutside ==
    ASSUME TypeOK, NEW c \in Client, InOrder(c), NEW s, Acts(c, s)
    PROVE  LoginsOutside(toServer[c], current_room[c])' /\ LoggedOutLeaves(c)'
<1> DEFINE q == toServer[c]
           z == q \o s
           room == current_room[c]
<1>1. /\ q \in Seq(Request) /\ s \in Seq(Request) /\ toServer'[c] = z
      /\ Len(q) \in Nat /\ Len(s) \in Nat
      /\ DOMAIN q = 1 .. Len(q) /\ DOMAIN s = 1 .. Len(s)
      /\ Len(z) = Len(q) + Len(s) /\ z \in Seq(Request)
      /\ current_room'[c] = room /\ conn'[c] = conn[c]
  BY QueueGrows, LenProperties DEF Acts, Says, MaySay, TypeOK, ProtocolTypeOK
<1>2. \A i \in 1 .. Len(q) + 1 : OutBy(q, room, i) => OutBy(z, room, i)
  BY <1>1, OutWhenGrown
<1>3. \A i \in DOMAIN z : \/ i \in DOMAIN q /\ z[i] = q[i]
                          \/ /\ i \notin DOMAIN q /\ i - Len(q) \in DOMAIN s
                             /\ z[i] = s[i - Len(q)]
  BY <1>1, QueueGrows
<1>4. ASSUME NEW i \in DOMAIN z, z[i].type = "login"
      PROVE  OutBy(z, room, i)
  <2>1. CASE i \in DOMAIN q /\ z[i] = q[i]
    <3>1. OutBy(q, room, i)
      BY <1>4, <2>1 DEF InOrder, LoginsOutside
    <3> QED
      BY <1>1, <1>2, <2>1, <3>1
  <2>2. CASE i \notin DOMAIN q /\ i - Len(q) \in DOMAIN s /\ z[i] = s[i - Len(q)]
    <3>1. Has(s, "login") /\ s # <<>>
      BY <1>1, <1>4, <2>2 DEF Has
    <3>2. Len(s) = 1 /\ conn[c] = "open" /\ ~window[c].loggedIn
      BY <3>1 DEF Acts, Says, MaySay
    <3>3. i = Len(q) + 1
      <4>1. i \in 1 .. Len(z)
        BY <1>1, LenProperties
      <4> QED
        BY <1>1, <2>2, <3>2, <4>1
    <3>4. OutBy(q, room, Len(q) + 1)
      BY <3>2 DEF InOrder, LoggedOutLeaves
    <3> QED
      BY <1>1, <1>2, <3>3, <3>4
  <2> QED
    BY <1>3, <2>1, <2>2
<1>5. ASSUME conn[c] = "open", ~window'[c].loggedIn
      PROVE  OutBy(z, room, Len(z) + 1)
  <2>1. CASE ~window[c].loggedIn
    <3>1. OutBy(z, room, Len(q) + 1)
      <4>1. OutBy(q, room, Len(q) + 1)
        BY <1>5, <2>1 DEF InOrder, LoggedOutLeaves
      <4> QED
        BY <1>1, <1>2, <4>1
    <3>2. \A j \in Len(q) + 1 .. (Len(z) + 1) - 1 : z[j].type \notin Entering
      <4> SUFFICES ASSUME NEW j \in Len(q) + 1 .. (Len(z) + 1) - 1
                   PROVE  z[j].type \notin Entering
        OBVIOUS
      <4>1. j \in DOMAIN z /\ j \notin DOMAIN q
        BY <1>1, LenProperties
      <4>2. j - Len(q) \in DOMAIN s /\ z[j] = s[j - Len(q)]
        BY <1>3, <4>1
      <4> QED
        BY <2>1, <4>2 DEF Acts, Says, MaySay, Has, Entering
    <3>3. Len(q) + 1 \in Nat \ {0} /\ Len(z) + 1 \in Nat /\ Len(q) + 1 <= Len(z) + 1
      BY <1>1
    <3> HIDE DEF z, q, room
    <3> QED
      BY <3>1, <3>2, <3>3, OutLater
  <2>2. CASE window[c].loggedIn
    <3>1. s = <<LeaveRoom>>
      BY <1>5, <2>2 DEF Acts
    <3>2. Len(s) = 1 /\ s[1].type = "leave_room"
      BY <3>1 DEF LeaveRoom
    <3>3. Len(z) = Len(q) + 1 /\ Len(z) \in DOMAIN z /\ Len(z) \notin DOMAIN q
      BY <1>1, <3>2, LenProperties
    <3>4. z[Len(z)] = s[Len(z) - Len(q)]
      BY <1>3, <3>3
    <3>5. Len(z) - Len(q) = 1
      BY <1>1, <3>3
    <3>6. z[Len(z)].type = "leave_room" /\ Len(z) \in Nat \ {0}
      BY <1>1, <3>2, <3>3, <3>4, <3>5
    <3> HIDE DEF z, q, room
    <3> QED
      BY <3>6, OutAfterLeaving
  <2> QED
    BY <2>1, <2>2
<1>6. LoginsOutside(toServer[c], current_room[c])'
  BY <1>1, <1>4 DEF LoginsOutside
<1> QED
  BY <1>1, <1>5, <1>6 DEF LoggedOutLeaves

\* A client that acts like that keeps its order.
LEMMA ActsInOrder ==
    ASSUME TypeOK, NEW c \in Client, InOrder(c), NEW s, Acts(c, s)
    PROVE  InOrder(c)'
<1> DEFINE q == toServer[c]
           a == toClient[c]
<1>1. /\ q \in Seq(Request) /\ s \in Seq(Request) /\ toServer'[c] = q \o s
      /\ a \in Seq(Reply)
  BY DEF Acts, Says, MaySay, TypeOK, ProtocolTypeOK
<1>2. \A t : Has(q \o s, t) => Has(q, t) \/ Has(s, t)
  BY <1>1, HasGrows
<1>3. \A t : Has(toClient'[c], t) => Has(a, t)
  BY <1>1, HasShrinks DEF Acts, TakesFirst
<1>4. window'[c].loggedIn => window[c].loggedIn \/ Has(a, "login_success")
  BY <1>1, QueueTail DEF Acts, TakesFirst, Has
<1>5. RegistersFirst(c)'
  <2>1. NoneAfter(q \o s, "login", "register")
    <3>1. NoneAfter(s, "login", "register")
      <4>1. \A i, j \in DOMAIN s : i < j => Len(s) # 1
        BY <1>1, LenProperties
      <4> QED
        BY <4>1 DEF NoneAfter, Acts, Says, MaySay, Has
    <3>2. ~Has(q, "login") \/ ~Has(s, "register")
      BY DEF Acts, Says, MaySay
    <3> QED
      BY <1>1, <3>1, <3>2, NoneAfterGrows DEF InOrder, RegistersFirst
  <2>2. NoneAfter(toClient'[c], "login_success", "register_success")
    BY <1>1, NoneAfterShrinks DEF Acts, TakesFirst, InOrder, RegistersFirst
  <2>3. Has(toClient'[c], "login_success") \/ window'[c].loggedIn
           => ~Has(q \o s, "register")
    BY <1>2, <1>3, <1>4 DEF InOrder, RegistersFirst, Acts, Says, MaySay
  <2>4. window'[c].loggedIn => ~Has(toClient'[c], "register_success")
    <3>1. CASE window[c].loggedIn
      BY <1>3, <3>1 DEF InOrder, RegistersFirst
    <3>2. ASSUME window'[c].loggedIn, ~window[c].loggedIn
          PROVE  ~Has(toClient'[c], "register_success")
      BY <1>1, <3>2, NoneAfterShrinks
      DEF Acts, TakesFirst, InOrder, RegistersFirst
    <3> QED
      BY <3>1, <3>2
  <2> QED
    BY <1>1, <2>1, <2>2, <2>3, <2>4 DEF RegistersFirst
<1>6. NamedInside(c)'
  <2>1. Has(s, "create_room") \/ Has(s, "join_room") =>
           conn[c] = "open" /\ window[c].loggedIn
    BY DEF Acts, Says, MaySay, Has
  <2> QED
    BY <1>1, <1>2, <1>3, <1>4, <2>1 DEF InOrder, NamedInside, Acts, Says, MaySay
<1>7. PagesFollowLogin(c)' /\ StartsEmpty(c)'
  BY DEF Acts, StartsEmpty
<1> QED
  BY <1>5, <1>6, <1>7, ActsOutside DEF InOrder

\* What a window writes gets through only while it is connected.
LEMMA WritesThrough ==
    ASSUME TypeOK, NEW c \in Client, NEW msgs \in Seq(Request), Writes(c, msgs)
    PROVE  \E s \in Seq(Request) :
              /\ s # <<>> => conn[c] = "open" /\ s = msgs
              /\ conn[c] = "open" => s = msgs
              /\ toServer'[c] = toServer[c] \o s
              /\ \A t : Has(s, t) => Has(msgs, t)
<1>1. CASE conn[c] = "open"
  BY <1>1 DEF Writes, TypeOK, ProtocolTypeOK
<1>2. CASE conn[c] # "open"
  <2>1. /\ <<>> \in Seq(Request) /\ \A t : ~Has(<<>>, t)
        /\ toServer'[c] = toServer[c] \o <<>>
    BY <1>2, ConcatEmptySeq DEF Writes, Has, TypeOK, ProtocolTypeOK
  <2> QED
    BY <1>2, <2>1
<1> QED
  BY <1>1, <1>2

\* Who is logged in changes by the server's answer, or by leaving.
LoginFollows(c, msgs) ==
    /\ toClient'[c] = toClient[c] \/ TakesFirst(c)
    /\ window'[c].loggedIn /\ ~window[c].loggedIn
          => TakesFirst(c) /\ Head(toClient[c]).type = "login_success"
    /\ window[c].loggedIn /\ ~window'[c].loggedIn => msgs = <<LeaveRoom>>
    /\ PagesFollowLogin(c)'

\* A window that writes such lines keeps its order,
LEMMA WritingInOrder ==
    ASSUME TypeOK, NEW c \in Client, InOrder(c), UNCHANGED serverVars,
           Up(c), conn' = conn, NEW msgs \in Seq(Request), Writes(c, msgs),
           MaySay(c, msgs), LoginFollows(c, msgs)
    PROVE  InOrder(c)'
<1>1. PICK s \in Seq(Request) :
         /\ s # <<>> => conn[c] = "open" /\ s = msgs
         /\ conn[c] = "open" => s = msgs
         /\ toServer'[c] = toServer[c] \o s
         /\ \A t : Has(s, t) => Has(msgs, t)
  BY WritesThrough
<1>2. MaySay(c, s)
  <2>1. CASE s = msgs
    BY <2>1
  <2>2. CASE s = <<>>
    BY <2>2 DEF MaySay, Has
  <2> QED
    BY <1>1, <2>1, <2>2
<1>3. Acts(c, s)
  BY <1>1, <1>2 DEF Acts, Says, LoginFollows, Up, serverVars
<1> QED
  BY <1>3, ActsInOrder

\* and so does one that writes none.
LEMMA SilentInOrder ==
    ASSUME TypeOK, NEW c \in Client, InOrder(c), UNCHANGED serverVars,
           Up(c), conn' = conn, toServer' = toServer, LoginFollows(c, <<>>)
    PROVE  InOrder(c)'
<1>1. <<>> \in Seq(Request) /\ <<>> # <<LeaveRoom>>
  OBVIOUS
<1>2. toServer'[c] = toServer[c] \o <<>>
  BY ConcatEmptySeq DEF TypeOK, ProtocolTypeOK
<1>3. MaySay(c, <<>>)
  BY DEF MaySay, Has
<1>4. Acts(c, <<>>)
  BY <1>1, <1>2, <1>3 DEF Acts, Says, LoginFollows, Up, serverVars
<1> QED
  BY <1>4, ActsInOrder

\* Which lines a window may always write.
LEMMA PlainWrites ==
    ASSUME NEW c \in Client
    PROVE  /\ \A m \in Request :
                 m.type \in {"get_rooms", "leave_room", "code_update",
                             "chat_message"}
                    => <<m>> \in Seq(Request) /\ MaySay(c, <<m>>)
           /\ <<LeaveRoom, GetRooms>> \in Seq(Request)
           /\ MaySay(c, <<LeaveRoom, GetRooms>>)
<1>1. \A m : Has(<<m>>, m.type) /\ \A t : Has(<<m>>, t) => m.type = t
  BY DEF Has
<1>2. \A t : Has(<<LeaveRoom, GetRooms>>, t) => t \in {"leave_room", "get_rooms"}
  BY DEF Has, LeaveRoom, GetRooms
<1>3. LeaveRoom \in Request /\ GetRooms \in Request
  BY RequestValues
<1> QED
  BY <1>1, <1>2, <1>3 DEF MaySay

\* A window whose login status stays needs no more than its page's.
LEMMA LoginStays ==
    ASSUME TypeOK, NEW c \in Client, NEW msgs,
           toClient'[c] = toClient[c] \/ TakesFirst(c),
           window'[c].loggedIn = window[c].loggedIn, PagesFollowLogin(c)'
    PROVE  LoginFollows(c, msgs)
BY DEF LoginFollows

\* A window that changes pages, or its editor, and says nothing.
LEMMA PagesInOrder ==
    ASSUME TypeOK, NEW c \in Client, InOrder(c), UNCHANGED serverVars,
           \/ GoToRegister(c) \/ GoToLogin(c) \/ OpenNewRoomDialog(c)
           \/ OpenTasks(c) \/ CloseTasks(c) \/ \E t \in Text : EditCode(c, t)
    PROVE  InOrder(c)'
<1>1. Up(c) /\ UNCHANGED protocolVars
  BY DEF GoToRegister, GoToLogin, OpenNewRoomDialog, OpenTasks, CloseTasks,
         EditCode, At
<1>2. window'[c].loggedIn = window[c].loggedIn /\ PagesFollowLogin(c)'
  <2>1. window[c] \in Window /\ PagesFollowLogin(c)
    BY DEF InOrder, TypeOK, ClientTypeOK
  <2>2. CASE GoToRegister(c) \/ GoToLogin(c)
    BY <2>1, <2>2
    DEF GoToRegister, GoToLogin, At, PagesFollowLogin, Window, TypeOK,
        ClientTypeOK
  <2>3. CASE OpenNewRoomDialog(c)
    BY <2>1, <2>3
    DEF OpenNewRoomDialog, At, PagesFollowLogin, Window, TypeOK, ClientTypeOK
  <2>4. CASE OpenTasks(c) \/ CloseTasks(c)
    BY <2>1, <2>4
    DEF OpenTasks, CloseTasks, At, PagesFollowLogin, Window, TypeOK,
        ClientTypeOK
  <2>5. CASE \E t \in Text : EditCode(c, t)
    BY <2>1, <2>5 DEF EditCode, PagesFollowLogin
  <2> QED
    BY <2>2, <2>3, <2>4, <2>5
<1> QED
  BY <1>1, <1>2, LoginStays, SilentInOrder DEF protocolVars

\* The dialog for a new room, and its request.
LEMMA NewRoomInOrder ==
    ASSUME TypeOK, NEW c \in Client, InOrder(c), UNCHANGED serverVars,
           CloseNewRoomDialog(c)
    PROVE  InOrder(c)'
<1> DEFINE m == [type |-> "create_room"]
<1>1. window[c] \in Window /\ PagesFollowLogin(c) /\ Up(c) /\ window[c].naming
  BY DEF InOrder, TypeOK, ClientTypeOK, CloseNewRoomDialog
<1>2. /\ window'[c].loggedIn = window[c].loggedIn /\ PagesFollowLogin(c)'
      /\ window[c].loggedIn
  BY <1>1
  DEF CloseNewRoomDialog, PagesFollowLogin, Window, TypeOK, ClientTypeOK
<1>3. CASE Sends(c, <<m>>)
  <2>1. <<m>> \in Seq(Request) /\ m.type = "create_room"
    BY RequestValues
  <2>2. MaySay(c, <<m>>)
    BY <1>2 DEF MaySay, Has
  <2>3. LoginFollows(c, <<m>>)
    BY <1>2, <1>3, LoginStays DEF Sends
  <2> QED
    BY <1>1, <1>3, <2>1, <2>2, <2>3, WritingInOrder DEF Sends
<1>4. CASE UNCHANGED protocolVars
  BY <1>1, <1>2, <1>4, LoginStays, SilentInOrder DEF protocolVars
<1> QED
  BY <1>3, <1>4 DEF CloseNewRoomDialog

\* A request to join the room that was clicked.
LEMMA JoinInOrder ==
    ASSUME TypeOK, NEW c \in Client, InOrder(c), UNCHANGED serverVars,
           NEW r, onJoinClicked(c, r)
    PROVE  InOrder(c)'
<1> DEFINE m == [type |-> "join_room", room_id |-> r]
<1>1. /\ Up(c) /\ Sends(c, <<m>>) /\ UNCHANGED window /\ r \in Nat
      /\ window[c].loggedIn /\ PagesFollowLogin(c)
  BY DEF onJoinClicked, At, clientVars, InOrder, PagesFollowLogin, TypeOK,
         ClientTypeOK, Window
<1>2. <<m>> \in Seq(Request) /\ m.type = "join_room"
  BY <1>1, RequestValues
<1>3. MaySay(c, <<m>>)
  BY <1>1 DEF MaySay, Has
<1>4. LoginFollows(c, <<m>>)
  BY <1>1, LoginStays DEF Sends, PagesFollowLogin
<1> QED
  BY <1>1, <1>2, <1>3, <1>4, WritingInOrder DEF Sends

\* Logging in and registering, from their pages.
LEMMA AccountsInOrder ==
    ASSUME TypeOK, NEW c \in Client, InOrder(c), UNCHANGED serverVars,
           NEW u \in User, NEW p \in Password, ~RegisterDuringLogin,
           LogIn(c, u, p) \/ Register(c, u, p)
    PROVE  InOrder(c)'
<1>1. window[c] \in Window /\ PagesFollowLogin(c)
  BY DEF InOrder, TypeOK, ClientTypeOK
<1>2. CASE LogIn(c, u, p)
  <2> DEFINE m == LoginMsg(u, p)
  <2>1. Up(c) /\ Sends(c, <<m>>) /\ window[c].page = "login"
    BY <1>2 DEF LogIn, onLoginAttempt, LoginClicked, At
  <2>2. window'[c].loggedIn = window[c].loggedIn /\ PagesFollowLogin(c)'
    BY <1>1, <1>2
    DEF LogIn, onLoginAttempt, PagesFollowLogin, Window, TypeOK, ClientTypeOK
  <2>3. <<m>> \in Seq(Request) /\ m.type = "login"
    BY RequestValues DEF LoginMsg
  <2>4. MaySay(c, <<m>>)
    BY <1>1, <2>1, <2>3 DEF MaySay, Has, PagesFollowLogin
  <2>5. LoginFollows(c, <<m>>)
    BY <2>1, <2>2, LoginStays DEF Sends
  <2> QED
    BY <2>1, <2>3, <2>4, <2>5, WritingInOrder DEF Sends
<1>3. CASE Register(c, u, p)
  <2> DEFINE m == RegisterMsg(u, p)
  <2>1. Up(c) /\ Sends(c, <<m>>) /\ window[c].page = "register"
    BY <1>3 DEF Register, onRegisterAttempt, RegisterClicked, At
  <2>2. window'[c].loggedIn = window[c].loggedIn /\ PagesFollowLogin(c)'
    BY <1>1, <1>3
    DEF Register, onRegisterAttempt, PagesFollowLogin, Window, TypeOK,
        ClientTypeOK
  <2>3. <<m>> \in Seq(Request) /\ m.type = "register"
    BY RequestValues DEF RegisterMsg
  <2>4. ~Has(toServer[c], "login") /\ ~Has(toClient[c], "login_success")
    BY <1>3 DEF Register, LoginOutstanding, Lines, Has
  <2>5. MaySay(c, <<m>>)
    BY <1>1, <2>1, <2>3, <2>4 DEF MaySay, Has, PagesFollowLogin
  <2>6. LoginFollows(c, <<m>>)
    BY <2>1, <2>2, LoginStays DEF Sends
  <2> QED
    BY <2>1, <2>3, <2>5, <2>6, WritingInOrder DEF Sends
<1> QED
  BY <1>2, <1>3

\* The ways out of the rooms: back to their list, and to the login page.
LEMMA LeavingInOrder ==
    ASSUME TypeOK, NEW c \in Client, InOrder(c), UNCHANGED serverVars,
           BackToRooms(c) \/ logout(c)
    PROVE  InOrder(c)'
<1>1. window[c] \in Window /\ PagesFollowLogin(c)
  BY DEF InOrder, TypeOK, ClientTypeOK
<1>2. CASE BackToRooms(c)
  <2>1. Up(c) /\ Sends(c, <<LeaveRoom, GetRooms>>)
    BY <1>2 DEF BackToRooms, At
  <2>2. window'[c].loggedIn = window[c].loggedIn /\ PagesFollowLogin(c)'
    BY <1>1, <1>2
    DEF BackToRooms, At, PagesFollowLogin, Window, TypeOK, ClientTypeOK
  <2> QED
    BY <2>1, <2>2, LoginStays, PlainWrites, WritingInOrder DEF Sends
<1>3. CASE logout(c)
  <2>1. Up(c) /\ Sends(c, <<LeaveRoom>>)
    BY <1>3 DEF logout
  <2>2. ~window'[c].loggedIn /\ PagesFollowLogin(c)'
    BY <1>1, <1>3
    DEF logout, PagesFollowLogin, Window, TypeOK, ClientTypeOK
  <2>3. LoginFollows(c, <<LeaveRoom>>)
    BY <2>1, <2>2 DEF LoginFollows, Sends
  <2>4. LeaveRoom \in Request /\ LeaveRoom.type = "leave_room"
    BY RequestValues DEF LeaveRoom
  <2> QED
    BY <2>1, <2>3, <2>4, PlainWrites, WritingInOrder DEF Sends
<1> QED
  BY <1>2, <1>3

\* Everything else a window sends: what it sends changes nobody's room.
LEMMA TalkInOrder ==
    ASSUME TypeOK, NEW c \in Client, InOrder(c), UNCHANGED serverVars,
           \/ refresh(c) \/ codeSyncTriggered(c)
           \/ \E t \in ChatText : sendChat(c, t)
    PROVE  InOrder(c)'
<1>1. window[c] \in Window /\ dash[c] \in Dash /\ PagesFollowLogin(c)
  BY DEF InOrder, TypeOK, ClientTypeOK
<1>2. Up(c) /\ UNCHANGED window
  BY DEF refresh, codeSyncTriggered, sendChat, At, clientVars
<1>3. PICK m \in Request :
         /\ Sends(c, <<m>>)
         /\ m.type \in {"get_rooms", "code_update", "chat_message"}
  <2>1. CASE refresh(c)
    BY <2>1, RequestValues DEF refresh, GetRooms
  <2>2. CASE codeSyncTriggered(c)
    <3>1. window[c].currentRoomId \in Nat /\ dash[c].editor \in Text
      BY <1>1 DEF Window, Dash
    <3> QED
      BY <2>2, <3>1, RequestValues DEF codeSyncTriggered
  <2>3. ASSUME NEW t \in ChatText, sendChat(c, t)
        PROVE  \E m \in Request :
                  /\ Sends(c, <<m>>)
                  /\ m.type \in {"get_rooms", "code_update", "chat_message"}
    <3>1. window[c].currentRoomId \in Nat /\ window[c].currentUser \in Name
      BY <1>1 DEF Window
    <3> QED
      BY <2>3, <3>1, RequestValues DEF sendChat
  <2> QED
    BY <2>1, <2>2, <2>3
<1>4. <<m>> \in Seq(Request) /\ MaySay(c, <<m>>)
  BY <1>3, PlainWrites
<1>5. LoginFollows(c, <<m>>)
  BY <1>1, <1>2, <1>3, LoginStays DEF Sends, PagesFollowLogin
<1> QED
  BY <1>2, <1>3, <1>4, <1>5, WritingInOrder DEF Sends

\* A window that handles a line of the server.
LEMMA DispatchInOrder ==
    ASSUME TypeOK, NEW c \in Client, InOrder(c), UNCHANGED serverVars,
           dispatch(c)
    PROVE  InOrder(c)'
<1>1. window[c] \in Window /\ PagesFollowLogin(c)
  BY DEF InOrder, TypeOK, ClientTypeOK
<1>2. Up(c) /\ conn' = conn /\ TakesFirst(c)
  BY DEF dispatch, Receives, TakesFirst, loginSuccess, loginFailed,
         registerSuccess, registerFailed, onRoomList, roomEntered,
         onJoinFailed, memberListReceived, userJoined, userLeft, codeUpdated,
         chatReceived, TypeOK, ProtocolTypeOK
<1>3. GetRooms \in Request /\ GetRooms.type = "get_rooms"
  BY RequestValues DEF GetRooms
<1>4. CASE loginSuccess(c)
  <2>1. Writes(c, <<GetRooms>>) /\ Head(toClient[c]).type = "login_success"
    BY <1>4 DEF loginSuccess, Receives
  <2>2. window'[c].loggedIn /\ PagesFollowLogin(c)'
    BY <1>1, <1>4
    DEF loginSuccess, PagesFollowLogin, Window, TypeOK, ClientTypeOK
  <2>3. LoginFollows(c, <<GetRooms>>)
    BY <1>2, <2>1, <2>2 DEF LoginFollows
  <2> QED
    BY <1>2, <1>3, <2>1, <2>3, PlainWrites, WritingInOrder
<1>5. CASE registerSuccess(c)
  <2>1. ~window[c].loggedIn
    <3>1. Has(toClient[c], "register_success")
      BY <1>5, QueueTail
      DEF registerSuccess, Receives, Has, TypeOK, ProtocolTypeOK
    <3> QED
      BY <3>1 DEF InOrder, RegistersFirst
  <2>2. /\ window'[c].loggedIn = window[c].loggedIn /\ PagesFollowLogin(c)'
        /\ toServer' = toServer
    BY <1>1, <1>5, <2>1
    DEF registerSuccess, PagesFollowLogin, Window, TypeOK, ClientTypeOK
  <2> QED
    BY <1>2, <2>2, LoginStays, SilentInOrder
<1>6. CASE userLeft(c)
  <2>1. Writes(c, <<GetRooms>>) /\ UNCHANGED window
    BY <1>6 DEF userLeft, clientVars
  <2>2. LoginFollows(c, <<GetRooms>>)
    BY <1>1, <1>2, <2>1, LoginStays DEF PagesFollowLogin
  <2> QED
    BY <1>2, <1>3, <2>1, <2>2, PlainWrites, WritingInOrder
<1>7. CASE roomEntered(c)
  <2>1. /\ window'[c].loggedIn = window[c].loggedIn /\ PagesFollowLogin(c)'
        /\ toServer' = toServer
    BY <1>1, <1>7
    DEF roomEntered, PagesFollowLogin, Window, TypeOK, ClientTypeOK
  <2> QED
    BY <1>2, <2>1, LoginStays, SilentInOrder
<1>8. CASE \/ loginFailed(c) \/ registerFailed(c) \/ onRoomList(c)
           \/ onJoinFailed(c) \/ memberListReceived(c) \/ userJoined(c)
           \/ codeUpdated(c) \/ chatReceived(c)
  <2>1. /\ window'[c].page = window[c].page
        /\ window'[c].naming = window[c].naming
        /\ window'[c].loggedIn = window[c].loggedIn /\ toServer' = toServer
    BY <1>1, <1>8
    DEF loginFailed, registerFailed, onRoomList, onJoinFailed,
        memberListReceived, userJoined, codeUpdated, chatReceived, clientVars,
        Window, TypeOK, ClientTypeOK
  <2>2. PagesFollowLogin(c)'
    BY <1>1, <2>1 DEF PagesFollowLogin
  <2> QED
    BY <1>2, <2>1, <2>2, LoginStays, SilentInOrder
<1> QED
  BY <1>4, <1>5, <1>6, <1>7, <1>8 DEF dispatch

\* A program that starts has nothing behind it, and one that ends has its
\* last lines cut off.
LEMMA LifeInOrder ==
    ASSUME TypeOK, MembersMatchSessions, NEW c \in Client, InOrder(c),
           UNCHANGED serverVars, Launch(c) \/ LaunchAlone(c) \/ CloseWindow(c)
    PROVE  InOrder(c)'
<1> DEFINE q == toServer[c]
<1>1. /\ q \in Seq(Request) /\ current_room' = current_room /\ username' = username
      /\ conn \in [Client -> ConnState]
  BY DEF TypeOK, ProtocolTypeOK, serverVars
<1>2. \A t : ~Has(<<>>, t) /\ DOMAIN <<>> = {}
  BY DEF Has
<1>3. CASE Launch(c) \/ LaunchAlone(c)
  <2>1. /\ conn[c] = "none" /\ conn'[c] # "none"
        /\ UNCHANGED <<toServer, toClient, window>>
    BY <1>1, <1>3 DEF Launch, LaunchAlone, clientVars
  <2>2. q = <<>> /\ toClient[c] = <<>> /\ window[c] = MainWindow
    BY <2>1 DEF InOrder, StartsEmpty
  <2>3. current_room[c] = NoRoom
    BY <2>1 DEF MembersMatchSessions
  <2>4. /\ ~window[c].loggedIn /\ window[c].page = "login"
        /\ ~window[c].naming
    BY <2>2 DEF MainWindow
  <2>5. LoggedOutLeaves(c)'
    <3>1. OutBy(<<>>, NoRoom, Len(<<>>) + 1)
      BY DEF OutBy
    <3> QED
      BY <1>1, <2>1, <2>2, <2>3, <3>1 DEF LoggedOutLeaves
  <2>6. NamedInside(c)'
    BY <1>1, <1>2, <2>1, <2>2, <2>3, <2>4 DEF NamedInside
  <2> QED
    BY <1>1, <2>1, <2>5, <2>6
    DEF InOrder, LoginsOutside, PagesFollowLogin, RegistersFirst, StartsEmpty
<1>4. CASE CloseWindow(c)
  <2>1. /\ conn'[c] \in {"hungup", "closed"} /\ toClient'[c] = <<>>
        /\ window'[c] = MainWindow
    BY <1>1, <1>4
    DEF CloseWindow, TypeOK, ProtocolTypeOK, ClientTypeOK
  <2>2. PICK n \in 0 .. Len(q) : toServer'[c] = SubSeq(q, 1, n)
    BY <1>4 DEF CloseWindow, TypeOK, ProtocolTypeOK
  <2>3. /\ ~MainWindow.loggedIn /\ MainWindow.page = "login"
        /\ ~MainWindow.naming
    BY DEF MainWindow
  <2>4. \A t : Has(toServer'[c], t) => Has(q, t)
    BY <1>1, <2>2, HasShrinks
  <2>5. LoginsOutside(toServer[c], current_room[c])'
    <3> SUFFICES ASSUME NEW i \in DOMAIN SubSeq(q, 1, n),
                        SubSeq(q, 1, n)[i].type = "login"
                 PROVE  OutBy(SubSeq(q, 1, n), current_room[c], i)
      BY <1>1, <2>2 DEF LoginsOutside
    <3>1. i \in DOMAIN q /\ q[i].type = "login" /\ i \in 1 .. n + 1
      BY <1>1, QueuePrefix, LenProperties
    <3> QED
      BY <1>1, <3>1, OutWhenCut DEF InOrder, LoginsOutside
  <2>6. RegistersFirst(c)'
    <3>1. NoneAfter(toServer'[c], "login", "register")
      BY <1>1, <2>2, NoneAfterShrinks DEF InOrder, RegistersFirst
    <3> QED
      BY <1>2, <2>1, <2>3, <3>1 DEF RegistersFirst, NoneAfter
  <2>7. NamedInside(c)'
    BY <1>1, <2>1, <2>3, <2>4 DEF InOrder, NamedInside
  <2> QED
    BY <2>1, <2>3, <2>5, <2>6, <2>7
    DEF InOrder, LoggedOutLeaves, PagesFollowLogin, StartsEmpty
<1> QED
  BY <1>3, <1>4

\* A client another one's step leaves alone keeps its order.
LEMMA ApartInOrder ==
    ASSUME NEW d \in Client, InOrder(d), UNCHANGED serverVars,
           conn'[d] = conn[d], toServer'[d] = toServer[d],
           toClient'[d] = toClient[d], window'[d] = window[d]
    PROVE  InOrder(d)'
BY DEF InOrder, LoginsOutside, LoggedOutLeaves, PagesFollowLogin,
       RegistersFirst, NamedInside, StartsEmpty, serverVars

\* What a window does leaves the other clients alone.
LEMMA OthersApart ==
    ASSUME TypeOK, NEW c \in Client,
           ClientTurn(c) \/ TimerTurn(c) \/ UserStep(c),
           NEW d \in Client \ {c}
    PROVE  /\ conn'[d] = conn[d] /\ toServer'[d] = toServer[d]
           /\ toClient'[d] = toClient[d] /\ window'[d] = window[d]
           /\ dash'[d] = dash[d]
<1> USE DEF TypeOK, ProtocolTypeOK, ClientTypeOK
<1>1. \A msgs : Writes(c, msgs) => toServer'[d] = toServer[d]
  BY DEF Writes
<1>2. \A msgs : Sends(c, msgs) =>
         /\ conn'[d] = conn[d] /\ toServer'[d] = toServer[d]
         /\ toClient'[d] = toClient[d]
  BY <1>1 DEF Sends
<1>3. \A types : Receives(c, types) =>
         conn'[d] = conn[d] /\ toClient'[d] = toClient[d]
  BY DEF Receives
<1>4. CASE ClientTurn(c)
  BY <1>1, <1>3, <1>4
  DEF ClientTurn, dispatch, loginSuccess, loginFailed, registerSuccess,
      registerFailed, onRoomList, roomEntered, onJoinFailed,
      memberListReceived, userJoined, userLeft, codeUpdated, chatReceived,
      applyRemoteCode, clientVars
<1>5. CASE TimerTurn(c)
  BY <1>2, <1>5 DEF TimerTurn, codeSyncTriggered
<1>6. ASSUME NEW t \in ChatText, Chat(c, t)
      PROVE  /\ conn'[d] = conn[d] /\ toServer'[d] = toServer[d]
             /\ toClient'[d] = toClient[d] /\ window'[d] = window[d]
             /\ dash'[d] = dash[d]
  BY <1>2, <1>6 DEF Chat, sendChat, clientVars
<1>7. CASE UserAction(c)
  <2>1. CASE Launch(c) \/ LaunchAlone(c) \/ CloseWindow(c)
    BY <2>1 DEF Launch, LaunchAlone, CloseWindow, clientVars
  <2>2. CASE ~(Launch(c) \/ LaunchAlone(c) \/ CloseWindow(c))
    BY <1>2, <1>7, <2>2
    DEF UserAction, GoToRegister, GoToLogin, LogIn, onLoginAttempt, Register,
        onRegisterAttempt, OpenNewRoomDialog, CloseNewRoomDialog,
        onJoinClicked, refresh, BackToRooms, logout, OpenTasks, CloseTasks,
        EditCode, clientVars, protocolVars
  <2> QED
    BY <2>1, <2>2
<1> QED
  BY <1>4, <1>5, <1>6, <1>7 DEF UserStep

\* Every step keeps every client's order.
LEMMA NextInOrder ==
    ASSUME ~RegisterDuringLogin, TypeOK, MembersMatchSessions, LoginsInOrder,
           [Next]_vars
    PROVE  LoginsInOrder'
<1>1. ASSUME NEW c \in Client, ClientTurn(c) \/ TimerTurn(c) \/ UserStep(c)
      PROVE  LoginsInOrder'
  <2>1. UNCHANGED serverVars /\ InOrder(c)
    BY <1>1 DEF ClientTurn, TimerTurn, UserStep, LoginsInOrder
  <2>2. InOrder(c)'
    <3>1. CASE ClientTurn(c)
      BY <2>1, <3>1, DispatchInOrder DEF ClientTurn
    <3>2. CASE TimerTurn(c)
      BY <2>1, <3>2, TalkInOrder DEF TimerTurn
    <3>3. ASSUME NEW t \in ChatText, Chat(c, t) PROVE InOrder(c)'
      BY <2>1, <3>3, TalkInOrder DEF Chat
    <3>4. CASE UserAction(c)
      BY <2>1, <3>4, LifeInOrder, PagesInOrder, NewRoomInOrder, JoinInOrder,
         AccountsInOrder, LeavingInOrder, TalkInOrder
      DEF UserAction
    <3> QED
      BY <1>1, <3>1, <3>2, <3>3, <3>4 DEF UserStep
  <2>3. ASSUME NEW d \in Client \ {c} PROVE InOrder(d)'
    BY <1>1, <2>1, OthersApart, ApartInOrder DEF LoginsInOrder
  <2> QED
    BY <2>2, <2>3 DEF LoginsInOrder
<1>2. CASE UNCHANGED vars
  <2>1. ASSUME NEW d \in Client PROVE InOrder(d)'
    BY <1>2, ApartInOrder
    DEF vars, protocolVars, clientVars, LoginsInOrder
  <2> QED
    BY <2>1 DEF LoginsInOrder
<1> QED
  BY <1>1, <1>2, ServerTurnInOrder, RestartInOrder DEF Next

(***************************************************************************)
(* As long as a user does not register while a login is being answered,    *)
(* every client's session is out of every room when its logins are read,   *)
(* whatever room changes, logouts, overlapping logins, hang-ups and        *)
(* restarts of the server come between.                                    *)
(***************************************************************************)
THEOREM LoginsAlwaysInOrder ==
    ASSUME ~RegisterDuringLogin
    PROVE  Spec => []LoginsInOrder
<1>1. Init => LoginsInOrder
  <2> SUFFICES ASSUME Init, NEW c \in Client PROVE InOrder(c)
    BY DEF LoginsInOrder
  <2>1. /\ toServer[c] = <<>> /\ toClient[c] = <<>> /\ window[c] = MainWindow
        /\ conn[c] = "none" /\ current_room[c] = NoRoom
    BY DEF Init, ProtocolInit, ClientInit, ServerInit
  <2>2. /\ ~window[c].loggedIn /\ window[c].page = "login"
        /\ ~window[c].naming
    BY <2>1 DEF MainWindow
  <2>3. \A t : ~Has(<<>>, t) /\ DOMAIN <<>> = {}
    BY DEF Has
  <2> QED
    BY <2>1, <2>2, <2>3
    DEF InOrder, LoginsOutside, LoggedOutLeaves, PagesFollowLogin,
        RegistersFirst, NoneAfter, NamedInside, StartsEmpty
<1>2. /\ TypeOK /\ MembersMatchSessions /\ LoginsInOrder
      /\ [Next]_vars
      => LoginsInOrder'
  BY NextInOrder
<1> QED
  BY <1>1, <1>2, TypeCorrect, MembersAlwaysMatch, PTL DEF Spec

-----------------------------------------------------------------------------
\* UniqueUserInRooms.

(***************************************************************************)
(* A window shows the rooms only after login_success, which the server     *)
(* sends a session it has named: so whoever asks for a room has a name.    *)
(***************************************************************************)
LEMMA EntersByName ==
    ASSUME TypeOK, LoginsInOrder, NEW c \in Client,
           HandleCreateRoom(c) \/ HandleJoinRoom(c)
    PROVE  username[c] # NoUser
<1>1. \/ Has(toServer[c], "create_room")
      \/ Has(toServer[c], "join_room")
  BY QueueTail
  DEF HandleCreateRoom, HandleJoinRoom, Reads, Has, TypeOK, ProtocolTypeOK
<1> QED
  BY <1>1 DEF LoginsInOrder, InOrder, NamedInside

\* A session's login is read while it is outside every room.
LEMMA LoginReadOutside ==
    ASSUME TypeOK, LoginsInOrder, NEW c \in Client, HandleLogin(c)
    PROVE  current_room[c] = NoRoom
<1>1. /\ toServer[c] # <<>> /\ Head(toServer[c]).type = "login"
  BY DEF HandleLogin, Reads
<1>2. 1 \in DOMAIN toServer[c] /\ toServer[c][1].type = "login"
  BY <1>1, QueueTail DEF TypeOK, ProtocolTypeOK
<1>3. OutBy(toServer[c], current_room[c], 1)
  BY <1>2 DEF LoginsInOrder, InOrder, LoginsOutside
<1> QED
  BY <1>3 DEF OutBy

\* No window sends session_restore.
LEMMA NobodyRestores ==
    ASSUME TypeOK, LoginsInOrder, NEW c \in Client
    PROVE  ~HandleSessionRestore(c)
<1> SUFFICES ASSUME HandleSessionRestore(c) PROVE FALSE
  OBVIOUS
<1>1. Has(toServer[c], "session_restore")
  BY QueueTail
  DEF HandleSessionRestore, Reads, Has, TypeOK, ProtocolTypeOK
<1> QED
  BY <1>1 DEF LoginsInOrder, InOrder, NamedInside

\* A step that lets nobody into a room, and renames nobody who is in one.
LEMMA StaysUnique ==
    ASSUME UniqueUserInRooms,
           \A d \in Client : current_room'[d] # NoRoom =>
              current_room[d] # NoRoom /\ username'[d] = username[d]
    PROVE  UniqueUserInRooms'
BY DEF UniqueUserInRooms

\* Whoever enters a room has a name, and nobody in a room has that name.
LEMMA EntersUnique ==
    ASSUME TypeOK, MembersMatchSessions, LoginsInOrder, UniqueUserInRooms,
           NEW c \in Client, HandleCreateRoom(c) \/ HandleJoinRoom(c)
    PROVE  UniqueUserInRooms'
<1>1. username' = username
  BY DEF HandleCreateRoom, HandleJoinRoom
<1>2. CASE current_room' = current_room
  BY <1>1, <1>2, StaysUnique
<1>3. ASSUME NEW r, current_room' = [current_room EXCEPT ![c] = r], MayEnter(c)
      PROVE  UniqueUserInRooms'
  <2>1. username[c] # NoUser
    BY EntersByName
  <2>2. ASSUME NEW d \in Client \ {c}, current_room[d] # NoRoom
        PROVE  username[d] # username[c]
    BY <1>3, <2>1, <2>2, EntersAlone DEF TypeOK
  <2>3. \A d \in Client \ {c} : current_room'[d] = current_room[d]
    BY <1>3 DEF TypeOK, ServerTypeOK
  <2> QED
    BY <1>1, <2>2, <2>3 DEF UniqueUserInRooms
<1> QED
  BY <1>2, <1>3 DEF HandleCreateRoom, HandleJoinRoom

\* A login changes the name of nobody who is in a room.
LEMMA LoginUnique ==
    ASSUME TypeOK, LoginsInOrder, UniqueUserInRooms, NEW c \in Client,
           HandleLogin(c)
    PROVE  UniqueUserInRooms'
<1>1. /\ current_room' = current_room
      /\ \A d \in Client \ {c} : username'[d] = username[d]
  BY DEF HandleLogin, TypeOK, ServerTypeOK
<1> QED
  BY <1>1, LoginReadOutside, StaysUnique

\* Every step keeps users unique.
LEMMA NextUnique ==
    ASSUME TypeOK, MembersMatchSessions, LoginsInOrder, UniqueUserInRooms,
           [Next]_vars
    PROVE  UniqueUserInRooms'
<1>1. ASSUME NEW c \in Client, ServerStep(c) PROVE UniqueUserInRooms'
  <2>1. CASE HandleSessionRestore(c)
    BY <2>1, NobodyRestores
  <2>2. CASE HandleLeaveRoom(c) \/ HandleDisconnect(c)
    <3>1. Vacate(c) /\ username' = username
      BY <2>2 DEF HandleLeaveRoom, HandleDisconnect
    <3> QED
      BY <3>1, VacateTalks, StaysUnique
  <2>3. CASE \/ HandleRegister(c) \/ HandleGetRooms(c) \/ HandleCodeUpdate(c)
             \/ HandleChatMessage(c) \/ SkipMalformed(c)
    <3>1. UNCHANGED <<username, current_room>>
      BY <2>3
      DEF HandleRegister, HandleGetRooms, HandleCodeUpdate, HandleChatMessage,
          SkipMalformed, serverVars
    <3> QED
      BY <3>1, StaysUnique
  <2> QED
    BY <1>1, <2>1, <2>2, <2>3, LoginUnique, EntersUnique DEF ServerStep
<1>2. ASSUME NEW c \in Client, ClientTurn(c) \/ TimerTurn(c) \/ UserStep(c)
      PROVE  UniqueUserInRooms'
  BY <1>2, StaysUnique DEF ClientTurn, TimerTurn, UserStep, serverVars
<1>3. CASE Restart
  BY <1>3, StaysUnique DEF Restart, ServerRestarts
<1>4. CASE UNCHANGED vars
  BY <1>4, StaysUnique DEF vars, serverVars
<1> QED
  BY <1>1, <1>2, <1>3, <1>4 DEF Next, ServerTurn

(***************************************************************************)
(* The server looks for a user's name in the rooms only when a session     *)
(* enters one (server.cpp:215-231, 254-263); that nobody is in two rooms   *)
(* at once, or in one room twice, also takes the clients' order of leaving *)
(* and logging in, which is why LoginsInOrder is part of the invariant.    *)
(***************************************************************************)
THEOREM UsersStayUnique ==
    ASSUME ~RegisterDuringLogin
    PROVE  Spec => []UniqueUserInRooms
<1>1. Init => UniqueUserInRooms
  BY DEF Init, ServerInit, UniqueUserInRooms
<1>2. /\ TypeOK /\ MembersMatchSessions /\ LoginsInOrder /\ UniqueUserInRooms
      /\ [Next]_vars
      => UniqueUserInRooms'
  BY NextUnique
<1> QED
  BY <1>1, <1>2, TypeCorrect, MembersAlwaysMatch, LoginsAlwaysInOrder, PTL
  DEF Spec

-----------------------------------------------------------------------------
\* The rooms, as the RoomBook has them.

\* What the server does for c is a turn of c in the book.
LEMMA ServerTurnBooks ==
    ASSUME ProtocolAssumption, TypeOK, TypeOK', MembersMatchSessions,
           LoginsInOrder, NEW c \in Client, ServerStep(c)
    PROVE  BookTurn(c) \/ UNCHANGED Book!vars
<1>1. ServerTypeOK /\ ServerTypeOK' /\ ServingTypeOK
  BY DEF TypeOK, ServingTypeOK
<1>2. ASSUME MayEnter(c) PROVE Book!Welcome(c)
  BY <1>1, <1>2, EntersAlone DEF Book!Welcome, Book!Outside, NoRoom
<1>3. ASSUME UNCHANGED <<current_room, rooms, nextId, username>>
      PROVE  UNCHANGED Book!vars
  BY <1>3, SameCodes DEF Book!vars
<1>4. CASE HandleCreateRoom(c) /\ MayEnter(c)
  <2>1. username' = username
    BY <1>4 DEF HandleCreateRoom
  <2>2. /\ Codes' = Append(Codes, Blank)
        /\ current_room' = [current_room EXCEPT ![c] = Len(Codes) + 1]
    BY <1>1, <1>4, CreateWrites
  <2>3. Book!Open(c)
    BY <1>2, <1>4, <2>1, <2>2 DEF Book!Open
  <2> QED
    BY <1>4, <2>3, EntersByName DEF BookTurn
<1>5. CASE HandleJoinRoom(c) /\ MayEnter(c) /\ Head(toServer[c]).room_id \in RoomId
  <2> DEFINE rid == Head(toServer[c]).room_id
  <2>1. /\ current_room' = [current_room EXCEPT ![c] = rid]
        /\ username' = username
    BY <1>5 DEF HandleJoinRoom
  <2>2. rid \in DOMAIN Codes /\ Codes' = Codes
    BY <1>1, <1>5, CodesType, JoinWritesNothing
  <2>3. Book!Enter(c)
    BY <1>2, <1>5, <2>1, <2>2 DEF Book!Enter
  <2> QED
    BY <1>5, <2>3, EntersByName DEF BookTurn
<1>6. CASE \/ HandleCreateRoom(c) /\ ~MayEnter(c)
           \/ /\ HandleJoinRoom(c)
              /\ ~(MayEnter(c) /\ Head(toServer[c]).room_id \in RoomId)
  BY <1>3, <1>6 DEF HandleCreateRoom, HandleJoinRoom
<1>7. CASE HandleLeaveRoom(c) \/ HandleDisconnect(c)
  <2>1. Vacate(c) /\ UNCHANGED <<username, nextId>>
    BY <1>7 DEF HandleLeaveRoom, HandleDisconnect
  <2>2. Codes' = Codes
    BY <1>1, <2>1, VacateWritesNothing
  <2>3. \/ current_room' = current_room
        \/ current_room' = [current_room EXCEPT ![c] = NoRoom]
    BY <2>1 DEF Vacate
  <2> QED
    BY <2>1, <2>2, <2>3 DEF BookTurn, Book!Leave, Book!Outside, NoRoom,
       Book!vars
<1>8. CASE HandleCodeUpdate(c)
  <2>1. CASE current_room[c] = NoRoom
    BY <1>3, <1>8, <2>1 DEF HandleCodeUpdate
  <2>2. CASE current_room[c] # NoRoom
    <3>1. \E t \in Text : Codes' = [Codes EXCEPT ![current_room[c]] = t]
      BY <1>1, <1>8, <2>2, UpdateWrites
    <3>2. UNCHANGED <<username, current_room>>
      BY <1>8 DEF HandleCodeUpdate
    <3> QED
      BY <2>2, <3>1, <3>2 DEF BookTurn, Book!Write, Book!Outside, NoRoom
  <2> QED
    BY <2>1, <2>2
<1>9. CASE HandleLogin(c)
  <2> DEFINE msg == Head(toServer[c])
  <2>1. msg.username \in Name
    BY <1>1, <1>9, ReadsType, RequestFields DEF HandleLogin, ServingTypeOK
  <2>2. /\ username' \in {username, [username EXCEPT ![c] = msg.username]}
        /\ UNCHANGED <<current_room, rooms, nextId>>
    BY <1>9 DEF HandleLogin
  <2>3. CASE username' = username
    BY <1>3, <2>2, <2>3
  <2>4. CASE username' = [username EXCEPT ![c] = msg.username]
    <3>1. Book!Rename(c)
      BY <2>1, <2>2, <2>4, SameCodes DEF Book!Rename
    <3> QED
      BY <1>9, <3>1, LoginReadOutside DEF BookTurn
  <2> QED
    BY <2>2, <2>3, <2>4
<1>10. CASE \/ HandleRegister(c) \/ HandleGetRooms(c)
            \/ HandleChatMessage(c) \/ SkipMalformed(c)
  BY <1>3, <1>10
  DEF HandleRegister, HandleGetRooms, HandleChatMessage, SkipMalformed,
      serverVars
<1> QED
  BY <1>4, <1>5, <1>6, <1>7, <1>8, <1>9, <1>10, NobodyRestores DEF ServerStep

\* A server that starts, the first time or again, begins a new book.
LEMMA NewBook ==
    /\ Init /\ TypeOK => Book!Init
    /\ Restart /\ TypeOK' => Book!Init'
<1>1. ASSUME Init, TypeOK PROVE Book!Init
  <2>1. Codes = <<>>
    BY <1>1, NoCodes DEF Init, ServerInit, TypeOK
  <2> QED
    BY <1>1, <2>1 DEF Init, ServerInit, Book!Init, Book!Outside, NoRoom
<1>2. ASSUME Restart, TypeOK' PROVE Book!Init'
  <2>1. (ServerTypeOK /\ nextId = 1 => Codes = <<>>)'
    BY NoCodes, PTL
  <2>2. Codes' = <<>>
    BY <1>2, <2>1 DEF Restart, ServerRestarts, TypeOK
  <2> QED
    BY <1>2, <2>2 DEF Restart, ServerRestarts, Book!Init, Book!Outside, NoRoom
<1> QED
  BY <1>1, <1>2

\* Every step keeps the book.
LEMMA NextBooks ==
    ASSUME ProtocolAssumption, TypeOK, TypeOK', MembersMatchSessions,
           LoginsInOrder, [Next]_vars
    PROVE  [(\E c \in Client : BookTurn(c)) \/ (Restart /\ Book!Init')]_(Book!vars)
<1>1. ASSUME NEW c \in Client, ServerTurn(c)
      PROVE  BookTurn(c) \/ UNCHANGED Book!vars
  BY <1>1, ServerTurnBooks DEF ServerTurn
<1>2. CASE UNCHANGED serverVars
  BY <1>2, SameCodes DEF serverVars, Book!vars
<1>3. ASSUME NEW c \in Client, ClientTurn(c) \/ TimerTurn(c) \/ UserStep(c)
      PROVE  UNCHANGED serverVars
  BY <1>3 DEF ClientTurn, TimerTurn, UserStep
<1>4. CASE Restart
  BY <1>4, NewBook
<1>5. CASE UNCHANGED vars
  BY <1>2, <1>5 DEF vars
<1> QED
  BY <1>1, <1>2, <1>3, <1>4, <1>5 DEF Next

(***************************************************************************)
(* The rooms of the whole program are the RoomBook's, and what             *)
(* ServerKeepsBook leaves to the clients they keep to: nobody comes into a *)
(* room without a name (server.cpp:215 and :254 would let it) and nobody   *)
(* changes its name inside one (server.cpp:182 would let it).              *)
(***************************************************************************)
THEOREM ProgramKeepsBook ==
    ASSUME ~RegisterDuringLogin
    PROVE  Spec => RoomsByTheBook
<1>1. Init /\ TypeOK => Book!Init
  BY NewBook
<1>2. /\ TypeOK /\ TypeOK' /\ MembersMatchSessions /\ LoginsInOrder
      /\ [Next]_vars
      => [(\E c \in Client : BookTurn(c)) \/ (Restart /\ Book!Init')]_(Book!vars)
  BY NextBooks, ProtocolAssumption
<1> QED
  BY <1>1, <1>2, TypeCorrect, MembersAlwaysMatch, LoginsAlwaysInOrder, PTL
  DEF Spec, RoomsByTheBook
=============================================================================
