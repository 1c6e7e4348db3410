------------------------------ MODULE CodeBROs ------------------------------
(***************************************************************************)
(* The whole program: one server and the client programs connected to it,  *)
(* each at the hands of a user.                                            *)
(***************************************************************************)
EXTENDS RoomServer, QtClient, FiniteSetsExt

CONSTANTS
    Closing,              \* whether client programs may end
    ServerMayDie,         \* whether the server may be killed and restarted
    RegisterDuringLogin,  \* whether a user may register while a login is
                          \* still being answered,
    LoginDuringLogin,     \* or log in again: the button is off, but logout
                          \* puts it on
    MaxInFlight,          \* bound: a user acts only while fewer than this many
                          \* lines are unread, on all connections
    MaxRooms              \* bound: rooms ever asked for

ASSUME SystemAssumption ==
    /\ {Closing, ServerMayDie} \subseteq BOOLEAN
    /\ {RegisterDuringLogin, LoginDuringLogin} \subseteq BOOLEAN
    /\ ServerMayDie => ~SaveMayFail
    /\ {MaxInFlight, MaxRooms} \subseteq Nat

VARIABLE said  \* the chat lines typed so far (each is typed once)

vars == <<protocolVars, serverVars, clientVars, said>>

Init == ProtocolInit /\ ServerInit /\ ClientInit /\ said = {}

-----------------------------------------------------------------------------
Lines(queue) == {queue[i] : i \in DOMAIN queue}

LoginOutstanding(c) ==
    \/ \E m \in Lines(toServer[c]) : m.type = "login"
    \/ \E m \in Lines(toClient[c]) : m.type = "login_success"

InFlight ==
    MapThenSumSet(LAMBDA c : Len(toServer[c]) + Len(toClient[c]), Client)

RoomsAskedFor ==
    nextId - 1 + MapThenSumSet(
        LAMBDA c : Cardinality({i \in DOMAIN toServer[c] :
                                    toServer[c][i].type = "create_room"}),
        Client)

LogIn(c, u, p) ==
    /\ LoginDuringLogin \/ ~LoginOutstanding(c)
    /\ onLoginAttempt(c, u, p)

Register(c, u, p) ==
    /\ RegisterDuringLogin \/ ~LoginOutstanding(c)
    /\ onRegisterAttempt(c, u, p)

Chat(c, text) == text \notin said /\ sendChat(c, text)

UserAction(c) ==
    \/ Launch(c) \/ LaunchAlone(c)
    \/ Closing /\ CloseWindow(c)
    \/ GoToRegister(c) \/ GoToLogin(c)
    \/ \E u \in User, p \in Password : LogIn(c, u, p) \/ Register(c, u, p)
    \/ OpenNewRoomDialog(c) \/ CloseNewRoomDialog(c)
    \/ \E r \in window[c].roomList : onJoinClicked(c, r)
    \/ refresh(c) \/ BackToRooms(c) \/ logout(c)
    \/ OpenTasks(c) \/ CloseTasks(c)
    \/ \E t \in Text : EditCode(c, t)

UserStep(c) ==
    /\ InFlight < MaxInFlight
    /\ \/ UserAction(c) /\ UNCHANGED said
       \/ \E t \in ChatText : Chat(c, t) /\ said' = said \cup {t}
    /\ UNCHANGED serverVars
    /\ RoomsAskedFor' <= MaxRooms

ServerTurn(c) == ServerStep(c) /\ UNCHANGED <<clientVars, said>>
ClientTurn(c) == dispatch(c) /\ UNCHANGED <<serverVars, said>>
TimerTurn(c) == codeSyncTriggered(c) /\ UNCHANGED <<serverVars, said>>

Restart == ServerMayDie /\ ServerRestarts /\ UNCHANGED <<clientVars, said>>

Next ==
    \/ Restart
    \/ \E c \in Client :
          ServerTurn(c) \/ ClientTurn(c) \/ TimerTurn(c) \/ UserStep(c)

Spec == Init /\ [][Next]_vars

\* The server's io_context and each client's event loop keep running; users
\* need not do anything.
Fairness ==
    \A c \in Client :
        /\ WF_vars(ServerTurn(c))
        /\ WF_vars(ClientTurn(c))
        /\ WF_vars(TimerTurn(c))

FairSpec == Spec /\ Fairness

-----------------------------------------------------------------------------
\* Messages, sessions, rooms and windows keep their types; whoever is in a
\* room is in one that exists.
TypeOK == ProtocolTypeOK /\ ServerTypeOK /\ ClientTypeOK /\ said \subseteq ChatText

Quiet(c) == toServer[c] = <<>> /\ toClient[c] = <<>>

(***************************************************************************)
(* A user is in at most one room, once, under any interleaving of logins,  *)
(* logouts and room changes of all clients: the "global check" of          *)
(* server.cpp:215 and :254 is made only on entry, so this also needs that  *)
(* nobody logs in under another name while in a room.                      *)
(***************************************************************************)
UniqueUserInRooms ==
    \A c, d \in Client :
        c # d /\ current_room[c] # NoRoom /\ current_room[d] # NoRoom
            => username[c] # username[d]

(***************************************************************************)
(* The rooms of the whole program are the RoomBook's, and stricter: who    *)
(* comes in has a name, nobody changes it inside, and only a restart of    *)
(* the server begins a new book.  OpenServer's clients rename themselves   *)
(* in a room (server.cpp:182); the windows do not.                         *)
(***************************************************************************)
Book == INSTANCE RoomBook WITH
            Guest <- Client, NoName <- NoUser,
            place <- current_room, name <- username, texts <- Codes

BookTurn(c) ==
    \/ username[c] # NoUser /\ (Book!Open(c) \/ Book!Enter(c))
    \/ Book!Leave(c)
    \/ Book!Write(c)
    \/ current_room[c] = NoRoom /\ Book!Rename(c)

RoomsByTheBook ==
    /\ Book!Init
    /\ [][(\E c \in Client : BookTurn(c)) \/ (Restart /\ Book!Init')]_(Book!vars)

(***************************************************************************)
(* Why that holds: a client asks to log in only when nothing it has sent   *)
(* leaves its session in a room, since every way back to the login page    *)
(* sends leave_room first (MainWindow.cpp:30-37, 172-182), and             *)
(* register_success, which also goes there, comes before login_success     *)
(* (MainWindow.cpp:49-70).                                                 *)
(***************************************************************************)
Has(queue, type) == \E i \in DOMAIN queue : queue[i].type = type

NoneAfter(queue, first, second) ==
    \A i, j \in DOMAIN queue :
        i < j /\ queue[i].type = first => queue[j].type # second

Entering == {"create_room", "join_room"}

\* A session now in room is in none when it comes to line i of queue.
OutBy(queue, room, i) ==
    \E k \in 0 .. i - 1 :
        /\ IF k = 0 THEN room = NoRoom ELSE queue[k].type = "leave_room"
        /\ \A j \in k + 1 .. i - 1 : queue[j].type \notin Entering

LoginsOutside(queue, room) ==
    \A i \in DOMAIN queue : queue[i].type = "login" => OutBy(queue, room, i)

LoggedOutLeaves(c) ==
    conn[c] = "open" /\ ~window[c].loggedIn
        => OutBy(toServer[c], current_room[c], Len(toServer[c]) + 1)

PagesFollowLogin(c) ==
    /\ window[c].page = "room" \/ window[c].naming => window[c].loggedIn
    /\ window[c].page \in {"login", "register"} => ~window[c].loggedIn

RegistersFirst(c) ==
    /\ NoneAfter(toServer[c], "login", "register")
    /\ NoneAfter(toClient[c], "login_success", "register_success")
    /\ Has(toClient[c], "login_success") \/ window[c].loggedIn
          => ~Has(toServer[c], "register")
    /\ window[c].loggedIn => ~Has(toClient[c], "register_success")

NamedInside(c) ==
    /\ \/ conn[c] = "open" /\ window[c].loggedIn
       \/ conn[c] = "open" /\ Has(toClient[c], "login_success")
       \/ Has(toServer[c], "create_room") \/ Has(toServer[c], "join_room")
       \/ current_room[c] # NoRoom
       => username[c] # NoUser
    /\ ~Has(toServer[c], "session_restore")

StartsEmpty(c) ==
    conn[c] = "none" => /\ toServer[c] = <<>> /\ toClient[c] = <<>>
                        /\ window[c] = MainWindow

InOrder(c) ==
    /\ LoginsOutside(toServer[c], current_room[c])
    /\ LoggedOutLeaves(c)
    /\ PagesFollowLogin(c)
    /\ RegistersFirst(c)
    /\ NamedInside(c)
    /\ StartsEmpty(c)

LoginsInOrder == \A c \in Client : InOrder(c)

(***************************************************************************)
(* Once nothing is in flight, a logged-in window and its session agree on  *)
(* the user and on the room, and a logged-out one's session is in no room  *)
(* (MainWindow.cpp:31-84, 172-182 against server.cpp:163-290).             *)
(***************************************************************************)
ClientServerAgree ==
    \A c \in Client : conn[c] = "open" /\ Quiet(c) =>
        LET w == window[c] IN
        /\ w.loggedIn => username[c] = w.currentUser
        /\ current_room[c] =
             IF w.loggedIn /\ w.page \in {"dashboard", "tasks"}
             THEN w.currentRoomId ELSE NoRoom

(***************************************************************************)
(* A button that is off is one whose answer is under way: while a window   *)
(* is connected, no order of answers, logouts and page changes leaves Log  *)
(* In or Register off with nothing to come that puts it on, provided the   *)
(* server's saves succeed (LoginWidget.cpp and RegisterWidget.cpp,         *)
(* setLoading; MainWindow.cpp:40-76, 172-182; server.cpp:144-202).         *)
(***************************************************************************)
Awaits(c, request, answers) ==
    \/ Has(toServer[c], request)
    \/ \E type \in answers : Has(toClient[c], type)

OffButtonsAwaited ==
    \A c \in Client : conn[c] = "open" =>
        /\ window[c].loading =>
              Awaits(c, "login", {"login_success", "login_failed"})
        /\ window[c].registering =>
              Awaits(c, "register", {"register_success", "register_failed"})

(***************************************************************************)
(* "Live member list updates as users join and leave" (README.md:134): a   *)
(* member that has handled all its messages shows exactly the users who    *)
(* are in its room now.                                                    *)
(***************************************************************************)
MemberListCurrent ==
    \A c \in Client :
        conn[c] = "open" /\ toClient[c] = <<>> /\ current_room[c] # NoRoom
            => dash[c].members =
                 {username[d] : d \in InRoom(current_room[c])}

Watching(r) == {c \in InRoom(r) : conn[c] = "open"}

Synced(r) == \A c \in InRoom(r) : Quiet(c) /\ ~dash[c].syncTimer

(***************************************************************************)
(* Once a room is quiet, everybody shows the room's code, except at most   *)
(* one member (the one whose update came last, overtaken on its own screen *)
(* by a colleague's earlier one): server.cpp:292-300,                      *)
(* DashboardWidget.cpp:158-163 and 276-291.                                *)
(***************************************************************************)
OneStraggler ==
    \A r \in RoomId : Synced(r) =>
        \A c, d \in Watching(r) :
            /\ dash[c].editor # rooms[r].code
            /\ dash[d].editor # rooms[r].code
            => c = d

(***************************************************************************)
(* Why that holds: whatever is still under way, at most one member of a    *)
(* room with no update of its own to come will end on another text than    *)
(* the room's, once its window has handled the lines on their way to it.   *)
(***************************************************************************)
Texts == {"code_update", "room_joined", "room_created"}

Shown(line) == IF line.type = "room_created" THEN Blank ELSE line.code

Textless(queue) == \A i \in DOMAIN queue : queue[i].type \notin Texts

\* The last text among the lines of queue.
Delivers(queue, text) ==
    \E i \in DOMAIN queue :
        /\ queue[i].type \in Texts /\ Shown(queue[i]) = text
        /\ \A j \in DOMAIN queue : j > i => queue[j].type \notin Texts

EndsOn(c, text) ==
    \/ Delivers(toClient[c], text)
    \/ Textless(toClient[c]) /\ dash[c].editor = text

Editing(c) == dash[c].syncTimer \/ Has(toServer[c], "code_update")

Astray(c) ==
    /\ conn[c] = "open" /\ current_room[c] # NoRoom
    /\ ~Editing(c)
    /\ ~EndsOn(c, rooms[current_room[c]].code)

OneAstray ==
    \A c \in Client : Astray(c) =>
        \A d \in InRoom(current_room[c]) \ {c} : ~Astray(d)

(***************************************************************************)
(* And who that is: a member goes astray only when the server reads an     *)
(* update of its own, which is not relayed to it (server.cpp:298); neither *)
(* an update of a colleague nor coming, going or losing the server's lines *)
(* leaves it with an old text.                                             *)
(***************************************************************************)
OnlyAuthorStrays ==
    [][\A c \in Client : ~Astray(c) /\ Astray(c)' =>
          /\ toServer[c] # <<>> /\ Head(toServer[c]).type = "code_update"
          /\ toServer'[c] = Tail(toServer[c])]_vars

(***************************************************************************)
(* Any two chat panels show the lines they share in the same order, the    *)
(* sender's own included (server.cpp:302-306 relays to everyone).          *)
(***************************************************************************)
ChatSameOrder ==
    \A c, d \in Client :
        \A i, j \in DOMAIN dash[c].chatList,
           k, l \in DOMAIN dash[d].chatList :
            /\ i < j
            /\ dash[c].chatList[i] = dash[d].chatList[k]
            /\ dash[c].chatList[j] = dash[d].chatList[l]
            => k < l

(***************************************************************************)
(* Why that holds: taking the lines a panel shows and those on their way   *)
(* to it together, no two clients are told two lines in different orders,  *)
(* and a line still on its way to the server has been told to nobody.      *)
(***************************************************************************)
IsChat(line, text) == line.type = "chat_message" /\ line.text = text

\* The i-th of the lines c shows and those on their way to c says text.
Places(c) == 1 .. Len(dash[c].chatList) + Len(toClient[c])

Tells(c, i, text) ==
    LET shown == dash[c].chatList IN
    IF i <= Len(shown) THEN shown[i].text = text
                       ELSE IsChat(toClient[c][i - Len(shown)], text)

Told(c, text) == \E i \in Places(c) : Tells(c, i, text)

Before(c, text1, text2) ==
    \E j \in Places(c) : /\ Tells(c, j, text2)
                         /\ \E i \in 1 .. j - 1 : Tells(c, i, text1)

Asks(c, text) == \E i \in DOMAIN toServer[c] : IsChat(toServer[c][i], text)

AsksOnce(c, text) ==
    \A i, j \in DOMAIN toServer[c] :
        IsChat(toServer[c][i], text) /\ IsChat(toServer[c][j], text) => i = j

ChatInOrder ==
    \A c, d \in Client, text \in ChatText :
        /\ \A text2 \in ChatText :
              ~(Before(c, text, text2) /\ Before(d, text2, text))
        /\ Asks(c, text) /\ Asks(d, text) => c = d /\ AsksOnce(c, text)
        /\ Asks(c, text) => ~Told(d, text)
        /\ Asks(c, text) \/ Told(c, text) => text \in said

(***************************************************************************)
(* A chat line never reaches another room than the one it was typed in,    *)
(* although the server ignores its room_id: when its turn comes, its       *)
(* author is still there, or nowhere.                                      *)
(***************************************************************************)
ChatStaysInRoom ==
    \A c \in Client :
        toServer[c] # <<>> /\ Head(toServer[c]).type = "chat_message"
            => current_room[c] \in {Head(toServer[c]).room_id, NoRoom}

-----------------------------------------------------------------------------
(***************************************************************************)
(* A login gets an answer, so the login page does not stay disabled, unless *)
(* the server goes away: a window that has lost it, or never found it, has *)
(* its button off for good (MainWindow.cpp:137-139).                       *)
(***************************************************************************)
LoginAnswered ==
    \A c \in Client :
        window[c].loading /\ conn[c] = "open"
            ~> ~window[c].loading \/ conn[c] # "open"

(***************************************************************************)
(* The room of a client that died is eventually told and rid of it.        *)
(***************************************************************************)
DeadClientsLeave ==
    \A c \in Client : conn[c] = "hungup" ~> current_room[c] = NoRoom

(***************************************************************************)
(* When users stop, so do the messages: no update of the editor or refresh *)
(* of the room list sets off another for ever (the "loop guards" of        *)
(* README.md:177).                                                         *)
(***************************************************************************)
TrafficDiesDown ==
    <>[][~ \E c \in Client : UserStep(c)]_vars
        => <>[](\A c \in Client : Quiet(c) /\ ~dash[c].syncTimer)

-----------------------------------------------------------------------------
(***************************************************************************)
(* What the documents promise and the code does not keep.                  *)
(***************************************************************************)

(***************************************************************************)
(* "Everyone in the room sees the same code editor" (README.md:13), with   *)
(* "last-write-wins" conflict resolution (README.md:153).                  *)
(***************************************************************************)
EditorsConverge ==
    \A r \in RoomId : Synced(r) =>
        \A c \in Watching(r) : dash[c].editor = rooms[r].code

(***************************************************************************)
(* "Log out to leave" (server.cpp:208): a window nobody is logged in to    *)
(* does not show a room.                                                   *)
(***************************************************************************)
LoggedOutShowsNoRoom ==
    \A c \in Client : ~window[c].loggedIn => window[c].page # "dashboard"
=============================================================================
