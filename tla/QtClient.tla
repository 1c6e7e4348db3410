------------------------------ MODULE QtClient ------------------------------
(***************************************************************************)
(* The client program: client/MainWindow.cpp and its pages, driven by      *)
(* client/NetworkClient.cpp.  The GUI thread runs one event at a time:     *)
(* something the user does, one message of the server (the signal the I/O  *)
(* thread queued for it), or the end of the editor's sync timer.           *)
(*                                                                         *)
(* A modal QInputDialog runs a nested event loop: messages and timers are  *)
(* still served, the user is confined to the dialog.  Warning boxes only   *)
(* have an OK button and are left out.                                     *)
(***************************************************************************)
EXTENDS Protocol, FiniteSets

VARIABLES
    window,  \* window[c]: MainWindow, and its login, register and room pages
    dash     \* dash[c]: the DashboardWidget

clientVars == <<window, dash>>

Page == {"login", "register", "room", "dashboard", "tasks"}

Window ==
    [page : Page,
     currentUser : Name,
     currentRoomId : Nat,
     loggedIn : BOOLEAN,      \* setLoggedIn: the menu bar is visible
     loading : BOOLEAN,       \* loginPage->setLoading: its button is off
     registering : BOOLEAN,   \* registerPage->setLoading
     naming : BOOLEAN,        \* the "New Room" dialog is up
     roomList : SUBSET Nat]

Dash ==
    [editor : Text,
     syncTimer : BOOLEAN,     \* syncTimer->isActive()
     members : SUBSET User,
     chatList : Seq([sender : Name, text : ChatText])]

ClientTypeOK ==
    /\ window \in [Client -> Window]
    /\ dash \in [Client -> Dash]

MainWindow ==
    [page |-> "login", currentUser |-> NoUser, currentRoomId |-> NoRoom,
     loggedIn |-> FALSE, loading |-> FALSE, registering |-> FALSE,
     naming |-> FALSE, roomList |-> {}]

DashboardWidget ==
    [editor |-> Blank, syncTimer |-> FALSE, members |-> {}, chatList |-> <<>>]

ClientInit ==
    /\ window = [c \in Client |-> MainWindow]
    /\ dash = [c \in Client |-> DashboardWidget]

-----------------------------------------------------------------------------
\* The program is running, whether it is connected or not.
Up(c) == conn[c] \in {"open", "offline"}

\* NetworkClient::sendMessage, once for each of msgs.  Without a connection
\* async_write fails, and nothing looks at its error code.
Writes(c, msgs) ==
    toServer' = IF conn[c] = "open"
                THEN [toServer EXCEPT ![c] = @ \o msgs]
                ELSE toServer

Sends(c, msgs) == Writes(c, msgs) /\ UNCHANGED <<conn, toClient>>

\* The user is at page of c's window.
At(c, page) ==
    /\ Up(c)
    /\ window[c].page = page
    /\ ~window[c].naming

LoginMsg(u, p) == [type |-> "login", username |-> u, password |-> p]
RegisterMsg(u, p) == [type |-> "register", username |-> u, password |-> p]
GetRooms == [type |-> "get_rooms"]
LeaveRoom == [type |-> "leave_room"]

-----------------------------------------------------------------------------
\* What the user does.

\* main and MainWindow's constructor, with a server to connect to,
Launch(c) ==
    /\ conn[c] = "none"
    /\ conn' = [conn EXCEPT ![c] = "open"]
    /\ UNCHANGED <<toServer, toClient, clientVars>>

\* or with none: connect throws, the window comes up all the same, and
\* nothing connects it later.
LaunchAlone(c) ==
    /\ conn[c] = "none"
    /\ conn' = [conn EXCEPT ![c] = "offline"]
    /\ UNCHANGED <<toServer, toClient, clientVars>>

\* The program ends or is killed.  The lines TCP has not carried over are
\* lost, and so is all the window knew.
CloseWindow(c) ==
    /\ Up(c)
    /\ conn' = [conn EXCEPT ![c] = IF @ = "open" THEN "hungup" ELSE "closed"]
    /\ \E n \in 0 .. Len(toServer[c]) :
          toServer' = [toServer EXCEPT ![c] = SubSeq(@, 1, n)]
    /\ toClient' = [toClient EXCEPT ![c] = <<>>]
    /\ window' = [window EXCEPT ![c] = MainWindow]
    /\ dash' = [dash EXCEPT ![c] = DashboardWidget]

\* The buttons are off while an answer is awaited; the fields are filled in
\* (and, to register, pass validate()), which is what makes a User and a
\* Password of them.
LoginClicked(c) == At(c, "login") /\ ~window[c].loading
RegisterClicked(c) == At(c, "register") /\ ~window[c].registering

onLoginAttempt(c, u, p) ==
    /\ LoginClicked(c)
    /\ Sends(c, <<LoginMsg(u, p)>>)
    /\ window' = [window EXCEPT ![c].loading = TRUE]
    /\ UNCHANGED dash

\* The link stays enabled while a login is being answered.
GoToRegister(c) ==
    /\ At(c, "login")
    /\ window' = [window EXCEPT ![c].page = "register"]
    /\ UNCHANGED <<protocolVars, dash>>

GoToLogin(c) ==
    /\ At(c, "register")
    /\ window' = [window EXCEPT ![c].page = "login"]
    /\ UNCHANGED <<protocolVars, dash>>

onRegisterAttempt(c, u, p) ==
    /\ RegisterClicked(c)
    /\ Sends(c, <<RegisterMsg(u, p)>>)
    /\ window' = [window EXCEPT ![c].registering = TRUE]
    /\ UNCHANGED dash

\* onCreateClicked, up to its dialog.
OpenNewRoomDialog(c) ==
    /\ At(c, "room")
    /\ window' = [window EXCEPT ![c].naming = TRUE]
    /\ UNCHANGED <<protocolVars, dash>>

\* onCreateClicked, after its dialog.
CloseNewRoomDialog(c) ==
    /\ Up(c) /\ window[c].naming
    /\ window' = [window EXCEPT ![c].naming = FALSE]
    /\ \/ Sends(c, <<[type |-> "create_room"]>>)
       \/ UNCHANGED protocolVars
    /\ UNCHANGED dash

onJoinClicked(c, r) ==
    /\ At(c, "room") /\ r \in window[c].roomList
    /\ Sends(c, <<[type |-> "join_room", room_id |-> r]>>)
    /\ UNCHANGED clientVars

refresh(c) ==
    /\ At(c, "room")
    /\ Sends(c, <<GetRooms>>)
    /\ UNCHANGED clientVars

\* Mutant: goes back without telling the server.
BackToRooms_silently(c) ==
    /\ At(c, "dashboard") /\ window[c].loggedIn
    /\ Sends(c, <<GetRooms>>)
    /\ window' = [window EXCEPT ![c].page = "room",
                                ![c].currentRoomId = NoRoom]
    /\ UNCHANGED dash

\* The menu entry is there on the dashboard, when the menu bar is.
BackToRooms(c) ==
    /\ At(c, "dashboard") /\ window[c].loggedIn
    /\ Sends(c, <<LeaveRoom, GetRooms>>)
    /\ window' = [window EXCEPT ![c].page = "room",
                                ![c].currentRoomId = NoRoom]
    /\ UNCHANGED dash

\* Mutant: shows the login page without telling the server.
logout_silently(c) ==
    /\ Up(c) /\ ~window[c].naming
    /\ window[c].loggedIn \/ window[c].page = "dashboard"
    /\ window' = [window EXCEPT ![c] = [MainWindow EXCEPT
                                          !.registering = window[c].registering,
                                          !.roomList = window[c].roomList]]
    /\ UNCHANGED <<protocolVars, dash>>

\* From the menu bar on any page, or the dashboard's own button.
logout(c) ==
    /\ Up(c) /\ ~window[c].naming
    /\ window[c].loggedIn \/ window[c].page = "dashboard"
    /\ Sends(c, <<LeaveRoom>>)
    /\ window' = [window EXCEPT ![c].page = "login",
                                ![c].currentUser = NoUser,
                                ![c].currentRoomId = NoRoom,
                                ![c].loggedIn = FALSE,
                                ![c].loading = FALSE]
    /\ UNCHANGED dash

OpenTasks(c) ==
    /\ At(c, "dashboard")
    /\ window' = [window EXCEPT ![c].page = "tasks"]
    /\ UNCHANGED <<protocolVars, dash>>

CloseTasks(c) ==
    /\ At(c, "tasks")
    /\ window' = [window EXCEPT ![c].page = "dashboard"]
    /\ UNCHANGED <<protocolVars, dash>>

\* Mutant: shows the line at once, and again when the server relays it.
sendChat_showsOwn(c, text) ==
    /\ At(c, "dashboard")
    /\ Sends(c, <<[type |-> "chat_message", sender |-> window[c].currentUser,
                   room_id |-> window[c].currentRoomId, text |-> text]>>)
    /\ dash' = [dash EXCEPT ![c].chatList =
                  Append(@, [sender |-> window[c].currentUser, text |-> text])]
    /\ UNCHANGED window

sendChat(c, text) ==
    /\ At(c, "dashboard")
    /\ Sends(c, <<[type |-> "chat_message", sender |-> window[c].currentUser,
                   room_id |-> window[c].currentRoomId, text |-> text]>>)
    /\ UNCHANGED clientVars

\* codeEditor's textChanged restarts the single-shot timer.
EditCode(c, text) ==
    /\ At(c, "dashboard") /\ text # dash[c].editor
    /\ dash' = [dash EXCEPT ![c].editor = text, ![c].syncTimer = TRUE]
    /\ UNCHANGED <<protocolVars, window>>

\* The timer ends on whatever page is up.
codeSyncTriggered(c) ==
    /\ Up(c) /\ dash[c].syncTimer
    /\ Sends(c, <<[type |-> "code_update", code |-> dash[c].editor,
                   room_id |-> window[c].currentRoomId]>>)
    /\ dash' = [dash EXCEPT ![c].syncTimer = FALSE]
    /\ UNCHANGED window

-----------------------------------------------------------------------------
\* What a message of the server does, by its type.

Receives(c, types) ==
    /\ Up(c)
    /\ toClient[c] # <<>>
    /\ Head(toClient[c]).type \in types
    /\ toClient' = [toClient EXCEPT ![c] = Tail(@)]
    /\ UNCHANGED conn

\* Mutant: goes on to the rooms with the login button still off.
loginSuccess_staysLoading(c) ==
    /\ Receives(c, {"login_success"})
    /\ Writes(c, <<GetRooms>>)
    /\ window' = [window EXCEPT
                    ![c].currentUser = Head(toClient[c]).username,
                    ![c].loggedIn = TRUE,
                    ![c].page = "room"]
    /\ UNCHANGED dash

loginSuccess(c) ==
    /\ Receives(c, {"login_success"})
    /\ Writes(c, <<GetRooms>>)
    /\ window' = [window EXCEPT
                    ![c].currentUser = Head(toClient[c]).username,
                    ![c].loading = FALSE,
                    ![c].loggedIn = TRUE,
                    ![c].page = "room"]
    /\ UNCHANGED dash

loginFailed(c) ==
    /\ Receives(c, {"login_failed"})
    /\ window' = [window EXCEPT ![c].loading = FALSE]
    /\ UNCHANGED <<toServer, dash>>

registerSuccess(c) ==
    /\ Receives(c, {"register_success"})
    /\ window' = [window EXCEPT ![c].registering = FALSE, ![c].page = "login"]
    /\ UNCHANGED <<toServer, dash>>

registerFailed(c) ==
    /\ Receives(c, {"register_failed"})
    /\ window' = [window EXCEPT ![c].registering = FALSE]
    /\ UNCHANGED <<toServer, dash>>

onRoomList(c) ==
    /\ Receives(c, {"room_list"})
    /\ window' = [window EXCEPT ![c].roomList = Head(toClient[c]).rooms]
    /\ UNCHANGED <<toServer, dash>>

\* Mutant: without blockSignals, textChanged starts the timer.
applyRemoteCode_signals(c, text) ==
    dash' = [dash EXCEPT ![c].editor = text, ![c].syncTimer = TRUE]

\* The editor shows text; its signals are blocked, so no timer starts.
applyRemoteCode(c, text) == dash' = [dash EXCEPT ![c].editor = text]

\* Mutant: does not note which room it is.
roomEntered_anyRoom(c) ==
    /\ Receives(c, {"room_created", "room_joined"})
    /\ window' = [window EXCEPT ![c].page = "dashboard"]
    /\ UNCHANGED <<toServer, dash>>

\* Mutant: leaves the text of the room before in the editor.
roomEntered_keepsText(c) ==
    /\ Receives(c, {"room_created", "room_joined"})
    /\ window' = [window EXCEPT ![c].currentRoomId = Head(toClient[c]).room_id,
                                ![c].page = "dashboard"]
    /\ UNCHANGED <<toServer, dash>>

roomEntered(c) ==
    /\ Receives(c, {"room_created", "room_joined"})
    /\ LET msg == Head(toClient[c]) IN
       /\ window' = [window EXCEPT ![c].currentRoomId = msg.room_id,
                                   ![c].page = "dashboard"]
       /\ applyRemoteCode(c, IF msg.type = "room_joined" THEN msg.code
                                                         ELSE Blank)
    /\ UNCHANGED toServer

codeUpdated(c) ==
    /\ Receives(c, {"code_update"})
    /\ applyRemoteCode(c, Head(toClient[c]).code)
    /\ UNCHANGED <<toServer, window>>

memberListReceived(c) ==
    /\ Receives(c, {"member_list"})
    /\ dash' = [dash EXCEPT ![c].members = Head(toClient[c]).members]
    /\ UNCHANGED <<toServer, window>>

chatReceived(c) ==
    /\ Receives(c, {"chat_message"})
    /\ LET msg == Head(toClient[c]) IN
       dash' = [dash EXCEPT ![c].chatList =
                  Append(@, [sender |-> msg.sender, text |-> msg.text])]
    /\ UNCHANGED <<toServer, window>>

\* The "System" chat lines of userJoined and userLeft, and the warning box
\* of onJoinFailed, are left out.
userJoined(c) ==
    /\ Receives(c, {"user_joined"})
    /\ UNCHANGED <<toServer, clientVars>>

userLeft(c) ==
    /\ Receives(c, {"user_left"})
    /\ Writes(c, <<GetRooms>>)
    /\ UNCHANGED clientVars

onJoinFailed(c) ==
    /\ Receives(c, {"join_failed"})
    /\ UNCHANGED <<toServer, clientVars>>

\* NetworkClient::dispatch, and the slot its signal is connected to.
dispatch(c) ==
    \/ loginSuccess(c)   \/ loginFailed(c)
    \/ registerSuccess(c) \/ registerFailed(c)
    \/ onRoomList(c)     \/ roomEntered(c)        \/ onJoinFailed(c)
    \/ memberListReceived(c) \/ userJoined(c)     \/ userLeft(c)
    \/ codeUpdated(c)    \/ chatReceived(c)
=============================================================================
