----------------------------- MODULE RoomServer -----------------------------
(***************************************************************************)
(* server/server.cpp and server/RoomManager.cpp: the sessions, the rooms   *)
(* and the account table.  One thread runs the io_context, so a handler is *)
(* one step: it takes one line off one connection, changes the rooms and   *)
(* writes its replies and broadcasts.  One action per message type, plus   *)
(* the end of a connection.                                                *)
(*                                                                         *)
(* A room's vector of weak_ptr<Session> is a set: the order of members is  *)
(* never observed, and a Session is never destroyed while it is a member.  *)
(***************************************************************************)
EXTENDS Protocol

CONSTANTS
    SavedAccounts,  \* what data/users.json may hold when the server starts
    SaveMayFail     \* whether UserStore::saveToFile may throw

ASSUME ServerAssumption ==
    /\ SavedAccounts \subseteq [User -> Password \cup {NoPassword}]
    /\ SaveMayFail \in BOOLEAN

VARIABLES
    username,      \* Session::username
    current_room,  \* Session::current_room, NoRoom when it is empty
    rooms,         \* RoomManager::rooms
    nextId,        \* RoomManager::nextId
    accounts       \* UserStore::users_, NoPassword: no such user

serverVars == <<username, current_room, rooms, nextId, accounts>>

\* Mutant: the first room is room_0.
RoomId_fromZero == 0 .. (nextId - 1)
RoomId == 1 .. (nextId - 1)
Room == [members : SUBSET Client, code : Text]

ServerTypeOK ==
    /\ username \in [Client -> Name]
    /\ nextId \in Nat \ {0}
    /\ current_room \in [Client -> RoomId \cup {NoRoom}]
    /\ rooms \in [RoomId -> Room]
    /\ accounts \in [User -> Password \cup {NoPassword}]

ServerInit ==
    /\ username = [c \in Client |-> NoUser]
    /\ current_room = [c \in Client |-> NoRoom]
    /\ nextId = 1
    /\ rooms = [r \in RoomId |-> [members |-> {}, code |-> Blank]]
    /\ accounts \in SavedAccounts

-----------------------------------------------------------------------------
\* RoomManager, and rooms as values.

listRooms == RoomId
createRoom == [members |-> {}, code |-> Blank]
addMember(room, c) == [room EXCEPT !.members = @ \cup {c}]
\* Mutant: erases only the pointers that have expired.
removeMember_expiredOnly(room, c) == room
removeMember(room, c) == [room EXCEPT !.members = @ \ {c}]

broadcastToRoom(room, m, exclude) == To(room.members \ exclude, m)

\* Mutant: also lists the sessions that have no name.
broadcastMemberList_unnamedToo(room) ==
    broadcastToRoom(room,
        [type |-> "member_list",
         members |-> {username[d] : d \in room.members}], {})

broadcastMemberList(room) ==
    broadcastToRoom(room,
        [type |-> "member_list",
         members |-> {username[d] : d \in room.members} \ {NoUser}], {})

-----------------------------------------------------------------------------
\* The decisions of the handlers.

MayRegister(msg) ==
    /\ msg.username # NoUser
    /\ msg.password # NoPassword
    /\ accounts[msg.username] = NoPassword

MayLogIn(msg) ==
    /\ msg.username # NoUser
    /\ msg.password = NoPassword \/ accounts[msg.username] = msg.password

NameInAnyRoom(c) ==
    /\ username[c] # NoUser
    /\ \E r \in RoomId : \E d \in rooms[r].members : username[d] = username[c]

\* Mutant: without the check over all rooms.
MayEnter_sessionOnly(c) == current_room[c] = NoRoom
MayEnter(c) == current_room[c] = NoRoom /\ ~NameInAnyRoom(c)

\* read_next: take the next line of c off its connection.
Reads(c, type) ==
    /\ conn[c] \in {"open", "hungup"}
    /\ toServer[c] # <<>>
    /\ Head(toServer[c]).type = type
    /\ toServer' = [toServer EXCEPT ![c] = Tail(@)]
    /\ UNCHANGED conn

-----------------------------------------------------------------------------
HandleSessionRestore(c) ==
    /\ Reads(c, "session_restore")
    /\ username' = [username EXCEPT ![c] = Head(toServer[c]).username]
    /\ UNCHANGED <<toClient, current_room, rooms, nextId, accounts>>

\* Mutant: gives no answer to a name that is taken.
HandleRegister_silentRefusal(c) ==
    /\ Reads(c, "register")
    /\ LET msg == Head(toServer[c]) IN
       \/ /\ MayRegister(msg)
          /\ accounts' = [accounts EXCEPT ![msg.username] = msg.password]
          /\ Post(To({c}, [type |-> "register_success"]))
       \/ ~MayRegister(msg) /\ UNCHANGED <<toClient, accounts>>
    /\ UNCHANGED <<username, current_room, rooms, nextId>>

\* The account is in the table before it is saved: if the save throws, the
\* exception ends the handler in read_next and the client gets no answer.
HandleRegister(c) ==
    /\ Reads(c, "register")
    /\ LET msg == Head(toServer[c]) IN
       \/ /\ MayRegister(msg)
          /\ accounts' = [accounts EXCEPT ![msg.username] = msg.password]
          /\ \/ Post(To({c}, [type |-> "register_success"]))
             \/ SaveMayFail /\ UNCHANGED toClient
       \/ /\ ~MayRegister(msg)
          /\ Post(To({c}, [type |-> "register_failed"]))
          /\ UNCHANGED accounts
    /\ UNCHANGED <<username, current_room, rooms, nextId>>

\* Likewise the session has its new name before updateLastLogin saves.
HandleLogin(c) ==
    /\ Reads(c, "login")
    /\ LET msg == Head(toServer[c]) IN
       \/ /\ MayLogIn(msg)
          /\ username' = [username EXCEPT ![c] = msg.username]
          /\ \/ Post(To({c}, [type |-> "login_success",
                              username |-> msg.username]))
             \/ /\ SaveMayFail /\ msg.password # NoPassword
                /\ UNCHANGED toClient
       \/ /\ ~MayLogIn(msg)
          /\ Post(To({c}, [type |-> "login_failed"]))
          /\ UNCHANGED username
    /\ UNCHANGED <<current_room, rooms, nextId, accounts>>

HandleGetRooms(c) ==
    /\ Reads(c, "get_rooms")
    /\ Post(To({c}, [type |-> "room_list", rooms |-> listRooms]))
    /\ UNCHANGED serverVars

HandleCreateRoom(c) ==
    /\ Reads(c, "create_room")
    /\ \/ /\ ~MayEnter(c)
          /\ Post(To({c}, [type |-> "join_failed"]))
          /\ UNCHANGED <<current_room, rooms, nextId>>
       \/ /\ MayEnter(c)
          /\ LET room == addMember(createRoom, c) IN
             /\ rooms' = [r \in 1 .. nextId |->
                            IF r = nextId THEN room ELSE rooms[r]]
             /\ Post(To({c}, [type |-> "room_created", room_id |-> nextId])
                     ++ broadcastMemberList(room))
          /\ current_room' = [current_room EXCEPT ![c] = nextId]
          /\ nextId' = nextId + 1
    /\ UNCHANGED <<username, accounts>>

HandleJoinRoom(c) ==
    /\ Reads(c, "join_room")
    /\ LET rid == Head(toServer[c]).room_id IN
       \/ /\ ~MayEnter(c) \/ rid \notin RoomId
          /\ Post(To({c}, [type |-> "join_failed"]))
          /\ UNCHANGED <<current_room, rooms>>
       \/ /\ MayEnter(c) /\ rid \in RoomId
          /\ LET room == addMember(rooms[rid], c) IN
             /\ rooms' = [rooms EXCEPT ![rid] = room]
             /\ Post(To({c}, [type |-> "room_joined", room_id |-> rid,
                              code |-> room.code])
                     ++ broadcastToRoom(room, [type |-> "user_joined",
                                         username |-> username[c]], {c})
                     ++ broadcastMemberList(room))
          /\ current_room' = [current_room EXCEPT ![c] = rid]
    /\ UNCHANGED <<username, nextId, accounts>>

\* Mutant: tells the room who is left before it removes the member.
Vacate_tellsFirst(c) ==
    /\ current_room[c] # NoRoom
    /\ LET rid == current_room[c] IN
       /\ rooms' = [rooms EXCEPT ![rid] = removeMember(@, c)]
       /\ Post(broadcastMemberList(rooms[rid]))
    /\ current_room' = [current_room EXCEPT ![c] = NoRoom]

\* What leave_room and handleDisconnect share.
Vacate(c) ==
    \/ /\ current_room[c] = NoRoom
       /\ UNCHANGED <<toClient, current_room, rooms>>
    \/ /\ current_room[c] # NoRoom
       /\ LET rid  == current_room[c]
              room == removeMember(rooms[rid], c) IN
          /\ rooms' = [rooms EXCEPT ![rid] = room]
          /\ Post(broadcastToRoom(room, [type |-> "user_left",
                                         username |-> username[c]], {})
                  ++ broadcastMemberList(room))
       /\ current_room' = [current_room EXCEPT ![c] = NoRoom]

HandleLeaveRoom(c) ==
    /\ Reads(c, "leave_room")
    /\ Vacate(c)
    /\ UNCHANGED <<username, nextId, accounts>>

\* Mutant: relays an update and does not keep it for those who join later.
HandleCodeUpdate_relaysOnly(c) ==
    /\ Reads(c, "code_update")
    /\ current_room[c] # NoRoom
    /\ Post(broadcastToRoom(rooms[current_room[c]], Head(toServer[c]), {c}))
    /\ UNCHANGED serverVars

\* The room is the session's own: msg.room_id is not looked at.
HandleCodeUpdate(c) ==
    /\ Reads(c, "code_update")
    /\ LET msg == Head(toServer[c])
           rid == current_room[c] IN
       \/ /\ rid = NoRoom
          /\ UNCHANGED <<toClient, rooms>>
       \/ /\ rid # NoRoom
          /\ rooms' = [rooms EXCEPT ![rid].code = msg.code]
          /\ Post(broadcastToRoom(rooms[rid], msg, {c}))
    /\ UNCHANGED <<username, current_room, nextId, accounts>>

\* Mutant: relays to the room the message names.
HandleChatMessage_namedRoom(c) ==
    /\ Reads(c, "chat_message")
    /\ LET msg == Head(toServer[c]) IN
       \/ msg.room_id \notin RoomId /\ UNCHANGED toClient
       \/ /\ msg.room_id \in RoomId
          /\ Post(broadcastToRoom(rooms[msg.room_id], msg, {}))
    /\ UNCHANGED serverVars

HandleChatMessage(c) ==
    /\ Reads(c, "chat_message")
    /\ \/ /\ current_room[c] = NoRoom
          /\ UNCHANGED toClient
       \/ /\ current_room[c] # NoRoom
          /\ Post(broadcastToRoom(rooms[current_room[c]],
                                  Head(toServer[c]), {}))
    /\ UNCHANGED serverVars

\* A line that is not JSON, has a field of the wrong type or an unknown type.
SkipMalformed(c) ==
    /\ Reads(c, "malformed")
    /\ UNCHANGED <<toClient, serverVars>>

\* Mutant: ends the session and forgets the room it is in.
HandleDisconnect_keepsRoom(c) ==
    /\ conn[c] = "hungup" /\ toServer[c] = <<>>
    /\ conn' = [conn EXCEPT ![c] = "closed"]
    /\ UNCHANGED <<toServer, toClient, serverVars>>

\* The read fails once every line sent before the hang-up has been read.
HandleDisconnect(c) ==
    /\ conn[c] = "hungup" /\ toServer[c] = <<>>
    /\ Vacate(c)
    /\ conn' = [conn EXCEPT ![c] = "closed"]
    /\ UNCHANGED <<toServer, username, nextId, accounts>>

Beginnings(queue) == {SubSeq(queue, 1, n) : n \in 0 .. Len(queue)}

\* The server is killed and started again.  Its sockets close under the
\* clients, who may still get some of what was written; sessions, rooms and
\* the room counter live in memory only.  The accounts are those of the file:
\* all of them, if saving never fails.
ServerRestarts ==
    /\ conn' = [c \in Client |-> CASE conn[c] = "open" -> "offline"
                                 [] conn[c] = "hungup" -> "closed"
                                 [] OTHER -> conn[c]]
    /\ toServer' = [c \in Client |-> <<>>]
    /\ toClient' \in [Client -> UNION {Beginnings(toClient[c]) : c \in Client}]
    /\ \A c \in Client : toClient'[c] \in Beginnings(toClient[c])
    /\ username' = [c \in Client |-> NoUser]
    /\ current_room' = [c \in Client |-> NoRoom]
    /\ nextId' = 1
    /\ rooms' = <<>>
    /\ UNCHANGED accounts

ServerStep(c) ==
    \/ HandleSessionRestore(c)
    \/ HandleRegister(c)
    \/ HandleLogin(c)
    \/ HandleGetRooms(c)
    \/ HandleCreateRoom(c)
    \/ HandleJoinRoom(c)
    \/ HandleLeaveRoom(c)
    \/ HandleCodeUpdate(c)
    \/ HandleChatMessage(c)
    \/ SkipMalformed(c)
    \/ HandleDisconnect(c)

-----------------------------------------------------------------------------
InRoom(r) == {c \in Client : current_room[c] = r}

\* The rooms' codes, in the order of their numbers.
Codes == [r \in RoomId |-> rooms[r].code]

(***************************************************************************)
(* Whatever clients send, a room's member list and the sessions' own       *)
(* current_room say the same, and a session that is gone is in no room:    *)
(* broadcastToRoom never finds an expired pointer (server.cpp:72-82,       *)
(* 100-111, 204-290; RoomManager.cpp:28-44).                               *)
(***************************************************************************)
MembersMatchSessions ==
    /\ \A r \in RoomId : rooms[r].members = InRoom(r)
    /\ \A c \in Client : current_room[c] # NoRoom
                            => conn[c] \in {"open", "hungup"}
=============================================================================
