-------------------------- MODULE RoomServerProofs --------------------------
(***************************************************************************)
(* Lemmas about the handlers of module RoomServer, whoever its clients     *)
(* are: OpenServerProofs and CodeBROsProofs rest on them.                  *)
(***************************************************************************)
EXTENDS RoomServer, SequenceTheorems, TLAPS

USE DEF NoRoom

\* What the handlers need of the state they start in.
ServingTypeOK == ProtocolTypeOK /\ ServerTypeOK

Outgoing == [Client -> Seq(Reply)]

-----------------------------------------------------------------------------
\* Lines and the connections they travel on.

(***************************************************************************)
(* What a step sends, one message to a set of clients or several in a row, *)
(* is a sequence of replies for each client.                               *)
(***************************************************************************)
LEMMA ToOutgoing ==
    ASSUME NEW S, NEW m \in Reply
    PROVE  To(S, m) \in Outgoing
BY DEF To, Outgoing

\* Two outgoing bundles, one after the other, are well-typed.
LEMMA ThenOutgoing ==
    ASSUME NEW out1 \in Outgoing, NEW out2 \in Outgoing
    PROVE  out1 ++ out2 \in Outgoing
BY DEF ++, Outgoing

\* What is posted to the clients are replies.
LEMMA PostType ==
    ASSUME ProtocolTypeOK, NEW out \in Outgoing, Post(out)
    PROVE  toClient' \in [Client -> Seq(Reply)]
BY DEF ProtocolTypeOK, Post, Outgoing

(***************************************************************************)
(* Reading a line leaves the other lines, and gives a request of the type  *)
(* that was asked for.                                                     *)
(***************************************************************************)
LEMMA ReadsType ==
    ASSUME ProtocolTypeOK, NEW c \in Client, NEW type, Reads(c, type)
    PROVE  /\ Head(toServer[c]) \in Request
           /\ Head(toServer[c]).type = type
           /\ toServer' \in [Client -> Seq(Request)]
           /\ conn' = conn
           /\ conn[c] \in {"open", "hungup"}
BY DEF ProtocolTypeOK, Reads

(***************************************************************************)
(* The fields of a request, by its type.                                   *)
(***************************************************************************)
LEMMA RequestFields ==
    ASSUME NEW m \in Request
    PROVE  /\ m.type \in {"login", "register"} =>
                m.username \in Name /\ m.password \in Password \cup {NoPassword}
           /\ m.type = "session_restore" => m.username \in Name
           /\ m.type = "join_room" => m.room_id \in Nat
           /\ m.type = "code_update" => m.code \in Text /\ m \in Reply
           /\ m.type = "chat_message" => m \in Reply
<1>1. CASE m \in [type : {"login", "register"}, username : Name,
                  password : Password \cup {NoPassword}]
  BY <1>1
<1>2. CASE m \in [type : {"session_restore"}, username : Name]
  BY <1>2
<1>3. CASE m \in [type : {"get_rooms", "create_room", "leave_room",
                          "malformed"}]
  BY <1>3
<1>4. CASE m \in [type : {"join_room"}, room_id : Nat]
  BY <1>4
<1>5. CASE m \in [type : {"code_update"}, room_id : Nat, code : Text]
  <2>1. m \in Reply
    BY <1>5 DEF Reply
  <2> QED
    BY <1>5, <2>1
<1>6. CASE m \in [type : {"chat_message"}, room_id : Nat, sender : Name,
                  text : ChatText]
  <2>1. m \in Reply
    BY <1>6 DEF Reply
  <2> QED
    BY <1>6, <2>1
<1> QED
  BY <1>1, <1>2, <1>3, <1>4, <1>5, <1>6 DEF Request

(***************************************************************************)
(* What a room is told is well formed: its member list, and news of one    *)
(* member.                                                                 *)
(***************************************************************************)
LEMMA MemberListOutgoing ==
    ASSUME ServerTypeOK, NEW room \in Room
    PROVE  broadcastMemberList(room) \in Outgoing
<1> DEFINE m == [type |-> "member_list",
                 members |-> {username[d] : d \in room.members} \ {NoUser}]
<1>1. m.members \subseteq User
  BY DEF ServerTypeOK, Room, Name
<1>2. m \in [type : {"member_list"}, members : SUBSET User]
  BY <1>1
<1>3. m \in Reply
  BY <1>2 DEF Reply
<1> QED
  BY <1>3, ToOutgoing DEF broadcastMemberList, broadcastToRoom

\* What broadcastToRoom sends of a well-typed message is well-typed.
LEMMA NewsOutgoing ==
    ASSUME ServerTypeOK, NEW room, NEW c \in Client, NEW S,
           NEW type \in {"user_joined", "user_left"}
    PROVE  broadcastToRoom(room, [type |-> type, username |-> username[c]], S)
             \in Outgoing
<1>1. [type |-> type, username |-> username[c]]
        \in [type : {"login_success", "user_joined", "user_left"},
             username : Name]
  BY DEF ServerTypeOK
<1>2. [type |-> type, username |-> username[c]] \in Reply
  BY <1>1 DEF Reply
<1> QED
  BY <1>2, ToOutgoing DEF broadcastToRoom

\* createRoom, addMember and removeMember return rooms.
LEMMA RoomValues ==
    ASSUME ProtocolAssumption, NEW c \in Client
    PROVE  /\ createRoom \in Room
           /\ \A room \in Room : /\ addMember(room, c) \in Room
                                 /\ removeMember(room, c) \in Room
BY DEF ProtocolAssumption, createRoom, addMember, removeMember, Room

-----------------------------------------------------------------------------
\* Type correctness.

\* Leaving the room keeps the types (server.cpp:100-111, 279-290).
LEMMA VacateType ==
    ASSUME ServingTypeOK, ProtocolAssumption, NEW c \in Client, Vacate(c)
    PROVE  /\ toClient' \in [Client -> Seq(Reply)]
           /\ current_room' \in [Client -> RoomId \cup {NoRoom}]
           /\ rooms' \in [RoomId -> Room]
<1>1. CASE current_room[c] = NoRoom /\ UNCHANGED <<toClient, current_room, rooms>>
  BY <1>1 DEF ServingTypeOK, ProtocolTypeOK, ServerTypeOK
<1>2. CASE current_room[c] # NoRoom
  <2> DEFINE rid == current_room[c]
             room == removeMember(rooms[rid], c)
             news == broadcastToRoom(room, [type |-> "user_left",
                                            username |-> username[c]], {})
  <2>1. rid \in RoomId /\ room \in Room
    BY <1>2, RoomValues DEF ServingTypeOK, ServerTypeOK
  <2>2. news ++ broadcastMemberList(room) \in Outgoing
    BY <2>1, NewsOutgoing, MemberListOutgoing, ThenOutgoing DEF ServingTypeOK
  <2>3. /\ rooms' = [rooms EXCEPT ![rid] = room]
        /\ Post(news ++ broadcastMemberList(room))
        /\ current_room' = [current_room EXCEPT ![c] = NoRoom]
    BY <1>2 DEF Vacate
  <2> QED
    BY <2>1, <2>2, <2>3, PostType DEF ServingTypeOK, ServerTypeOK
<1> QED
  BY <1>1, <1>2 DEF Vacate

\* session_restore keeps the types (server.cpp:139-142).
LEMMA SessionRestoreType ==
    ASSUME ServingTypeOK, NEW c \in Client, HandleSessionRestore(c)
    PROVE  ServingTypeOK'
<1>1. Reads(c, "session_restore")
  BY DEF HandleSessionRestore
<1>2. /\ toServer' \in [Client -> Seq(Request)] /\ conn' = conn
      /\ Head(toServer[c]).username \in Name
  BY <1>1, ReadsType, RequestFields DEF ServingTypeOK
<1> QED
  BY <1>2 DEF HandleSessionRestore, ServingTypeOK, ProtocolTypeOK, ServerTypeOK, RoomId

\* register keeps the types, with or without an answer (144-161).
LEMMA RegisterType ==
    ASSUME ServingTypeOK, NEW c \in Client, HandleRegister(c)
    PROVE  ServingTypeOK'
<1> DEFINE msg == Head(toServer[c])
<1>1. Reads(c, "register")
  BY DEF HandleRegister
<1>2. /\ toServer' \in [Client -> Seq(Request)] /\ conn' = conn
      /\ msg.username \in Name /\ msg.password \in Password \cup {NoPassword}
  BY <1>1, ReadsType, RequestFields DEF ServingTypeOK
<1>3. \A t \in {"register_success", "register_failed"} :
         To({c}, [type |-> t]) \in Outgoing
  BY ToOutgoing DEF Reply
<1>4. toClient' \in [Client -> Seq(Reply)]
  BY <1>3, PostType DEF HandleRegister, ServingTypeOK, ProtocolTypeOK
<1>5. accounts' \in [User -> Password \cup {NoPassword}]
  BY <1>2 DEF HandleRegister, ServingTypeOK, ServerTypeOK
<1> QED
  BY <1>2, <1>4, <1>5
  DEF HandleRegister, ServingTypeOK, ProtocolTypeOK, ServerTypeOK, RoomId

\* login keeps the types, with or without an answer (163-190).
LEMMA LoginType ==
    ASSUME ServingTypeOK, NEW c \in Client, HandleLogin(c)
    PROVE  ServingTypeOK'
<1> DEFINE msg == Head(toServer[c])
<1>1. Reads(c, "login")
  BY DEF HandleLogin
<1>2. /\ toServer' \in [Client -> Seq(Request)] /\ conn' = conn
      /\ msg.username \in Name
  BY <1>1, ReadsType, RequestFields DEF ServingTypeOK
<1>3. [type |-> "login_success", username |-> msg.username]
        \in [type : {"login_success", "user_joined", "user_left"},
             username : Name]
  BY <1>2
<1>4. /\ To({c}, [type |-> "login_success", username |-> msg.username])
           \in Outgoing
      /\ To({c}, [type |-> "login_failed"]) \in Outgoing
  BY <1>3, ToOutgoing DEF Reply
<1>5. toClient' \in [Client -> Seq(Reply)]
  BY <1>4, PostType DEF HandleLogin, ServingTypeOK, ProtocolTypeOK
<1>6. username' \in [Client -> Name]
  BY <1>2 DEF HandleLogin, ServingTypeOK, ServerTypeOK
<1> QED
  BY <1>2, <1>5, <1>6
  DEF HandleLogin, ServingTypeOK, ProtocolTypeOK, ServerTypeOK, RoomId

\* get_rooms keeps the types (192-202).
LEMMA GetRoomsType ==
    ASSUME ServingTypeOK, NEW c \in Client, HandleGetRooms(c)
    PROVE  ServingTypeOK'
<1>1. Reads(c, "get_rooms")
  BY DEF HandleGetRooms
<1>2. toServer' \in [Client -> Seq(Request)] /\ conn' = conn
  BY <1>1, ReadsType DEF ServingTypeOK
<1>3. [type |-> "room_list", rooms |-> listRooms] \in Reply
  BY DEF Reply, listRooms, RoomId
<1>4. toClient' \in [Client -> Seq(Reply)]
  BY <1>3, ToOutgoing, PostType DEF HandleGetRooms, ServingTypeOK
<1> QED
  BY <1>2, <1>4
  DEF HandleGetRooms, ServingTypeOK, ProtocolTypeOK, ServerTypeOK, serverVars, RoomId

\* create_room keeps the types: the new room has the next number
\* (204-235).
LEMMA CreateRoomType ==
    ASSUME ServingTypeOK, ProtocolAssumption, NEW c \in Client, HandleCreateRoom(c)
    PROVE  ServingTypeOK'
<1>1. Reads(c, "create_room")
  BY DEF HandleCreateRoom
<1>2. toServer' \in [Client -> Seq(Request)] /\ conn' = conn
  BY <1>1, ReadsType DEF ServingTypeOK
<1>3. CASE /\ Post(To({c}, [type |-> "join_failed"]))
           /\ UNCHANGED <<username, current_room, rooms, nextId, accounts>>
  <2>1. toClient' \in [Client -> Seq(Reply)]
    BY <1>3, ToOutgoing, PostType DEF ServingTypeOK, Reply
  <2> QED
    BY <1>2, <1>3, <2>1 DEF ServingTypeOK, ProtocolTypeOK, ServerTypeOK, RoomId
<1>4. CASE MayEnter(c)
  <2> DEFINE room == addMember(createRoom, c)
             out == To({c}, [type |-> "room_created", room_id |-> nextId])
                      ++ broadcastMemberList(room)
  <2>1. /\ rooms' = [r \in 1 .. nextId |->
                        IF r = nextId THEN room ELSE rooms[r]]
        /\ Post(out)
        /\ current_room' = [current_room EXCEPT ![c] = nextId]
        /\ nextId' = nextId + 1
        /\ UNCHANGED <<username, accounts>>
    BY <1>4 DEF HandleCreateRoom
  <2>2. room \in Room
    BY RoomValues
  <2>3. [type |-> "room_created", room_id |-> nextId] \in Reply
    BY DEF ServingTypeOK, ServerTypeOK, Reply
  <2>4. toClient' \in [Client -> Seq(Reply)]
    BY <2>1, <2>2, <2>3, ToOutgoing, MemberListOutgoing, ThenOutgoing, PostType
    DEF ServingTypeOK
  <2>5. nextId \in Nat /\ nextId # 0 /\ RoomId' = 1 .. nextId
    BY <2>1 DEF ServingTypeOK, ServerTypeOK, RoomId
  <2>6. current_room' \in [Client -> RoomId' \cup {NoRoom}]
    BY <2>1, <2>5 DEF ServingTypeOK, ServerTypeOK, RoomId
  <2>7. rooms' \in [RoomId' -> Room]
    BY <2>1, <2>2, <2>5 DEF ServingTypeOK, ServerTypeOK, RoomId
  <2> QED
    BY <1>2, <2>1, <2>4, <2>5, <2>6, <2>7
    DEF ServingTypeOK, ProtocolTypeOK, ServerTypeOK
<1> QED
  BY <1>3, <1>4 DEF HandleCreateRoom

\* join_room keeps the types: only rooms that exist are entered (237-277).
LEMMA JoinRoomType ==
    ASSUME ServingTypeOK, ProtocolAssumption, NEW c \in Client, HandleJoinRoom(c)
    PROVE  ServingTypeOK'
<1> DEFINE rid == Head(toServer[c]).room_id
<1>1. Reads(c, "join_room")
  BY DEF HandleJoinRoom
<1>2. toServer' \in [Client -> Seq(Request)] /\ conn' = conn
  BY <1>1, ReadsType DEF ServingTypeOK
<1>3. CASE /\ Post(To({c}, [type |-> "join_failed"]))
           /\ UNCHANGED <<username, current_room, rooms, nextId, accounts>>
  <2>1. toClient' \in [Client -> Seq(Reply)]
    BY <1>3, ToOutgoing, PostType DEF ServingTypeOK, Reply
  <2> QED
    BY <1>2, <1>3, <2>1 DEF ServingTypeOK, ProtocolTypeOK, ServerTypeOK, RoomId
<1>4. CASE MayEnter(c) /\ rid \in RoomId
  <2> DEFINE room == addMember(rooms[rid], c)
             reply == [type |-> "room_joined", room_id |-> rid,
                       code |-> room.code]
             news == broadcastToRoom(room, [type |-> "user_joined",
                                            username |-> username[c]], {c})
             out == To({c}, reply) ++ news ++ broadcastMemberList(room)
  <2>1. /\ rooms' = [rooms EXCEPT ![rid] = room]
        /\ Post(out)
        /\ current_room' = [current_room EXCEPT ![c] = rid]
        /\ UNCHANGED <<username, nextId, accounts>>
    BY <1>4 DEF HandleJoinRoom
  <2>2. room \in Room
    BY <1>4, RoomValues DEF ServingTypeOK, ServerTypeOK
  <2>3. reply \in [type : {"room_joined"}, room_id : Nat, code : Text]
    BY <1>4, <2>2 DEF Room, RoomId
  <2>4. To({c}, reply) \in Outgoing
    BY <2>3, ToOutgoing DEF Reply
  <2>5. out \in Outgoing
    BY <2>2, <2>4, NewsOutgoing, MemberListOutgoing, ThenOutgoing DEF ServingTypeOK
  <2>6. toClient' \in [Client -> Seq(Reply)]
    BY <2>1, <2>5, PostType DEF ServingTypeOK
  <2> QED
    BY <1>2, <1>4, <2>1, <2>2, <2>6
    DEF ServingTypeOK, ProtocolTypeOK, ServerTypeOK, RoomId
<1> QED
  BY <1>3, <1>4 DEF HandleJoinRoom

\* leave_room keeps the types.
LEMMA LeaveRoomType ==
    ASSUME ServingTypeOK, ProtocolAssumption, NEW c \in Client, HandleLeaveRoom(c)
    PROVE  ServingTypeOK'
<1>1. Reads(c, "leave_room") /\ Vacate(c)
  BY DEF HandleLeaveRoom
<1>2. toServer' \in [Client -> Seq(Request)] /\ conn' = conn
  BY <1>1, ReadsType DEF ServingTypeOK
<1> QED
  BY <1>1, <1>2, VacateType
  DEF HandleLeaveRoom, ServingTypeOK, ProtocolTypeOK, ServerTypeOK, RoomId

\* code_update keeps the types (292-300).
LEMMA CodeUpdateType ==
    ASSUME ServingTypeOK, NEW c \in Client, HandleCodeUpdate(c)
    PROVE  ServingTypeOK'
<1> DEFINE msg == Head(toServer[c])
           rid == current_room[c]
<1>1. Reads(c, "code_update")
  BY DEF HandleCodeUpdate
<1>2. /\ toServer' \in [Client -> Seq(Request)] /\ conn' = conn
      /\ msg.code \in Text /\ msg \in Reply
  BY <1>1, ReadsType, RequestFields DEF ServingTypeOK
<1>3. toClient' \in [Client -> Seq(Reply)]
  BY <1>2, ToOutgoing, PostType
  DEF HandleCodeUpdate, broadcastToRoom, ServingTypeOK, ProtocolTypeOK
<1>4. rooms' \in [RoomId -> Room]
  <2>1. CASE rid = NoRoom
    BY <2>1 DEF HandleCodeUpdate, ServingTypeOK, ServerTypeOK
  <2>2. CASE rid # NoRoom
    <3>1. rid \in RoomId /\ rooms[rid] \in Room
      BY <2>2 DEF ServingTypeOK, ServerTypeOK
    <3>2. [rooms[rid] EXCEPT !.code = msg.code] \in Room
      BY <1>2, <3>1 DEF Room
    <3>3. rooms' = [rooms EXCEPT ![rid] =
                      [rooms[rid] EXCEPT !.code = msg.code]]
      BY <2>2 DEF HandleCodeUpdate
    <3> QED
      BY <3>1, <3>2, <3>3 DEF ServingTypeOK, ServerTypeOK
  <2> QED
    BY <2>1, <2>2
<1> QED
  BY <1>2, <1>3, <1>4
  DEF HandleCodeUpdate, ServingTypeOK, ProtocolTypeOK, ServerTypeOK, RoomId

\* chat_message keeps the types (302-306).
LEMMA ChatMessageType ==
    ASSUME ServingTypeOK, NEW c \in Client, HandleChatMessage(c)
    PROVE  ServingTypeOK'
<1>1. Reads(c, "chat_message")
  BY DEF HandleChatMessage
<1>2. /\ toServer' \in [Client -> Seq(Request)] /\ conn' = conn
      /\ Head(toServer[c]) \in Reply
  BY <1>1, ReadsType, RequestFields DEF ServingTypeOK
<1>3. toClient' \in [Client -> Seq(Reply)]
  BY <1>2, ToOutgoing, PostType
  DEF HandleChatMessage, broadcastToRoom, ServingTypeOK, ProtocolTypeOK
<1> QED
  BY <1>2, <1>3
  DEF HandleChatMessage, ServingTypeOK, ProtocolTypeOK, ServerTypeOK, serverVars, RoomId

\* handleDisconnect keeps the types.
LEMMA DisconnectType ==
    ASSUME ServingTypeOK, ProtocolAssumption, NEW c \in Client, HandleDisconnect(c)
    PROVE  ServingTypeOK'
<1>1. /\ conn' \in [Client -> ConnState]
      /\ toServer' \in [Client -> Seq(Request)]
  BY DEF HandleDisconnect, ServingTypeOK, ProtocolTypeOK, ConnState
<1> QED
  BY <1>1, VacateType
  DEF HandleDisconnect, ServingTypeOK, ProtocolTypeOK, ServerTypeOK, RoomId

\* The types hold before anybody connects.
LEMMA InitType ==
    ASSUME ProtocolAssumption, ServerAssumption, ProtocolInit, ServerInit
    PROVE  ServingTypeOK
<1>1. ProtocolTypeOK
  BY DEF ProtocolInit, ProtocolTypeOK, ConnState
<1>2. RoomId = {}
  BY DEF ServerInit, RoomId
<1>3. rooms \in [RoomId -> Room]
  BY <1>2 DEF ServerInit
<1>4. /\ username \in [Client -> Name]
      /\ nextId \in Nat \ {0}
      /\ current_room \in [Client -> RoomId \cup {NoRoom}]
  BY DEF ServerInit, Name
<1>5. accounts \in [User -> Password \cup {NoPassword}]
  BY DEF ServerInit, ServerAssumption
<1> QED
  BY <1>1, <1>3, <1>4, <1>5 DEF ServingTypeOK, ServerTypeOK

\* Every step of the server keeps the types.
LEMMA ServerStepType ==
    ASSUME ServingTypeOK, ProtocolAssumption, NEW c \in Client, ServerStep(c)
    PROVE  ServingTypeOK'
<1>1. CASE SkipMalformed(c)
  <2>1. toServer' \in [Client -> Seq(Request)] /\ conn' = conn
    BY <1>1, ReadsType DEF SkipMalformed, ServingTypeOK
  <2> QED
    BY <1>1, <2>1
    DEF SkipMalformed, ServingTypeOK, ProtocolTypeOK, ServerTypeOK, serverVars, RoomId
<1> QED
  BY <1>1, SessionRestoreType, RegisterType, LoginType, GetRoomsType,
     CreateRoomType, JoinRoomType, LeaveRoomType, CodeUpdateType,
     ChatMessageType, DisconnectType
  DEF ServerStep

-----------------------------------------------------------------------------
\* Members and sessions.

(***************************************************************************)
(* What a step of the server can do to the rooms: nothing to who is where, *)
(* let a client into a room, or let it out of one.                         *)
(***************************************************************************)
Stays ==
    /\ UNCHANGED current_room
    /\ RoomId' = RoomId
    /\ \A r \in RoomId : rooms'[r].members = rooms[r].members

Enters(c) ==
    \E r \in RoomId' :
        /\ conn[c] \in {"open", "hungup"}
        /\ current_room[c] = NoRoom
        /\ current_room' = [current_room EXCEPT ![c] = r]
        /\ rooms'[r].members = IF r \in RoomId THEN rooms[r].members \cup {c}
                                              ELSE {c}
        /\ \A q \in RoomId' \ {r} : /\ q \in RoomId
                                   /\ rooms'[q].members = rooms[q].members

Leaves(c) ==
    /\ current_room[c] # NoRoom
    /\ current_room' = [current_room EXCEPT ![c] = NoRoom]
    /\ RoomId' = RoomId
    /\ \A r \in RoomId :
          rooms'[r].members = IF r = current_room[c]
                              THEN rooms[r].members \ {c}
                              ELSE rooms[r].members

\* Vacate(c) leaves c's room, if c has one, in both records of it.
LEMMA VacateMoves ==
    ASSUME ServingTypeOK, NEW c \in Client, Vacate(c), UNCHANGED nextId
    PROVE  \/ (Stays /\ current_room[c] = NoRoom)
           \/ Leaves(c)
<1>1. CASE current_room[c] = NoRoom
  BY <1>1 DEF Vacate, Stays, RoomId
<1>2. CASE current_room[c] # NoRoom
  <2> DEFINE rid == current_room[c]
  <2>1. /\ rooms' = [rooms EXCEPT ![rid] = removeMember(rooms[rid], c)]
        /\ current_room' = [current_room EXCEPT ![c] = NoRoom]
        /\ RoomId' = RoomId
        /\ rid \in RoomId
    BY <1>2 DEF Vacate, ServingTypeOK, ServerTypeOK, RoomId
  <2>2. rooms'[rid].members = rooms[rid].members \ {c}
    BY <2>1 DEF removeMember, ServingTypeOK, ServerTypeOK, Room
  <2>3. \A r \in RoomId \ {rid} : rooms'[r].members = rooms[r].members
    BY <2>1 DEF ServingTypeOK, ServerTypeOK
  <2> QED
    BY <1>2, <2>1, <2>2, <2>3 DEF Leaves
<1> QED
  BY <1>1, <1>2

\* create_room changes nothing, or lets c into the new room.
LEMMA CreateMoves ==
    ASSUME ServingTypeOK, NEW c \in Client, HandleCreateRoom(c)
    PROVE  Stays \/ Enters(c)
<1>1. conn[c] \in {"open", "hungup"}
  BY DEF HandleCreateRoom, Reads
<1>2. CASE ~MayEnter(c)
  BY <1>2 DEF HandleCreateRoom, Stays, RoomId
<1>3. CASE MayEnter(c)
  <2>1. /\ rooms' = [r \in 1 .. nextId |->
                        IF r = nextId THEN addMember(createRoom, c)
                                      ELSE rooms[r]]
        /\ current_room' = [current_room EXCEPT ![c] = nextId]
        /\ RoomId' = 1 .. nextId
        /\ nextId \in RoomId' /\ nextId \notin RoomId
        /\ \A q \in RoomId' \ {nextId} : q \in RoomId
    BY <1>3 DEF HandleCreateRoom, ServingTypeOK, ServerTypeOK, RoomId
  <2>2. rooms'[nextId].members = {c}
    BY <2>1 DEF addMember, createRoom
  <2> QED
    BY <1>1, <1>3, <2>1, <2>2 DEF Enters, MayEnter
<1> QED
  BY <1>2, <1>3

\* join_room changes nothing, or lets c into an existing room.
LEMMA JoinMoves ==
    ASSUME ServingTypeOK, NEW c \in Client, HandleJoinRoom(c)
    PROVE  Stays \/ Enters(c)
<1> DEFINE rid == Head(toServer[c]).room_id
<1>1. conn[c] \in {"open", "hungup"}
  BY DEF HandleJoinRoom, Reads
<1>2. CASE ~MayEnter(c) \/ rid \notin RoomId
  BY <1>2 DEF HandleJoinRoom, Stays, RoomId
<1>3. CASE MayEnter(c) /\ rid \in RoomId
  <2>1. /\ rooms' = [rooms EXCEPT ![rid] = addMember(rooms[rid], c)]
        /\ current_room' = [current_room EXCEPT ![c] = rid]
        /\ RoomId' = RoomId
    BY <1>3 DEF HandleJoinRoom, RoomId
  <2>2. rooms'[rid].members = rooms[rid].members \cup {c}
    BY <1>3, <2>1 DEF addMember, ServingTypeOK, ServerTypeOK, Room
  <2>3. \A q \in RoomId' \ {rid} : rooms'[q].members = rooms[q].members
    BY <2>1 DEF ServingTypeOK, ServerTypeOK
  <2> QED
    BY <1>1, <1>3, <2>1, <2>2, <2>3 DEF Enters, MayEnter
<1> QED
  BY <1>2, <1>3

\* code_update moves nobody.
LEMMA CodeUpdateMoves ==
    ASSUME ServingTypeOK, NEW c \in Client, HandleCodeUpdate(c)
    PROVE  Stays
<1>1. CASE current_room[c] = NoRoom
  BY <1>1 DEF HandleCodeUpdate, Stays, RoomId
<1>2. CASE current_room[c] # NoRoom
  BY <1>2 DEF HandleCodeUpdate, Stays, RoomId, ServingTypeOK, ServerTypeOK, Room
<1> QED
  BY <1>1, <1>2

\* A move keeps the member lists and current_room in step.
LEMMA MovesKeepMembers ==
    ASSUME ServingTypeOK, MembersMatchSessions, NEW c \in Client,
           Stays \/ Enters(c) \/ Leaves(c)
    PROVE  \A r \in RoomId' : rooms'[r].members = InRoom(r)'
<1>1. CASE Stays
  BY <1>1 DEF Stays, MembersMatchSessions, InRoom
<1>2. CASE Enters(c)
  <2>1. PICK r \in RoomId' :
        /\ current_room[c] = NoRoom
        /\ current_room' = [current_room EXCEPT ![c] = r]
        /\ rooms'[r].members = IF r \in RoomId THEN rooms[r].members \cup {c}
                                              ELSE {c}
        /\ \A q \in RoomId' \ {r} : /\ q \in RoomId
                                   /\ rooms'[q].members = rooms[q].members
    BY <1>2 DEF Enters
  <2>2. \A d \in Client : current_room'[d] =
                             IF d = c THEN r ELSE current_room[d]
    BY <2>1 DEF ServingTypeOK, ServerTypeOK
  <2>3. InRoom(r)' = InRoom(r) \cup {c}
    BY <2>2 DEF InRoom
  <2>4. r \notin RoomId => InRoom(r) = {}
    BY DEF InRoom, ServingTypeOK, ServerTypeOK, RoomId
  <2>5. \A q \in RoomId' \ {r} : q # NoRoom
    BY DEF RoomId
  <2>6. \A q \in RoomId' \ {r} : InRoom(q)' = InRoom(q)
    BY <2>1, <2>2, <2>5 DEF InRoom
  <2> QED
    BY <2>1, <2>3, <2>4, <2>6 DEF MembersMatchSessions
<1>3. CASE Leaves(c)
  <2>1. \A d \in Client : current_room'[d] =
                             IF d = c THEN NoRoom ELSE current_room[d]
    BY <1>3 DEF Leaves, ServingTypeOK, ServerTypeOK
  <2>2. \A r \in RoomId : r # NoRoom
    BY DEF RoomId
  <2>3. ASSUME NEW r \in RoomId, r = current_room[c]
        PROVE  InRoom(r)' = InRoom(r) \ {c}
    BY <2>1, <2>2, <2>3 DEF InRoom
  <2>4. ASSUME NEW r \in RoomId, r # current_room[c]
        PROVE  InRoom(r)' = InRoom(r)
    BY <2>1, <2>2, <2>4 DEF InRoom
  <2> QED
    BY <1>3, <2>3, <2>4 DEF Leaves, MembersMatchSessions
<1> QED
  BY <1>1, <1>2, <1>3

\* A move on a live connection keeps MembersMatchSessions.
LEMMA MovesKeepMatch ==
    ASSUME ServingTypeOK, MembersMatchSessions, NEW c \in Client,
           conn' = conn, Stays \/ Enters(c) \/ Leaves(c)
    PROVE  MembersMatchSessions'
<1>1. \A d \in Client : current_room'[d] # NoRoom =>
          current_room[d] # NoRoom \/ conn[d] \in {"open", "hungup"}
  BY DEF Stays, Enters, Leaves, ServingTypeOK, ServerTypeOK
<1> QED
  BY <1>1, MovesKeepMembers DEF MembersMatchSessions

\* Every step of the server keeps MembersMatchSessions.
LEMMA ServerStepMatch ==
    ASSUME ServingTypeOK, MembersMatchSessions, NEW c \in Client, ServerStep(c)
    PROVE  MembersMatchSessions'
<1>1. CASE HandleDisconnect(c)
  <2>1. /\ conn' = [conn EXCEPT ![c] = "closed"]
        /\ Vacate(c) /\ UNCHANGED nextId
    BY <1>1 DEF HandleDisconnect
  <2>2. (Stays /\ current_room[c] = NoRoom) \/ Leaves(c)
    BY <2>1, VacateMoves
  <2>3. \A d \in Client : current_room'[d] # NoRoom =>
              d # c /\ current_room[d] # NoRoom
    BY <2>2 DEF Stays, Leaves, ServingTypeOK, ServerTypeOK
  <2>4. \A d \in Client : d # c => conn'[d] = conn[d]
    BY <2>1 DEF ServingTypeOK, ProtocolTypeOK
  <2>5. \A r \in RoomId' : rooms'[r].members = InRoom(r)'
    BY <2>2, MovesKeepMembers
  <2> QED
    BY <2>3, <2>4, <2>5 DEF MembersMatchSessions
<1>2. CASE HandleCreateRoom(c)
  BY <1>2, CreateMoves, MovesKeepMatch DEF HandleCreateRoom, Reads
<1>3. CASE HandleJoinRoom(c)
  BY <1>3, JoinMoves, MovesKeepMatch DEF HandleJoinRoom, Reads
<1>4. CASE HandleLeaveRoom(c)
  BY <1>4, VacateMoves, MovesKeepMatch DEF HandleLeaveRoom, Reads
<1>5. CASE HandleCodeUpdate(c)
  BY <1>5, CodeUpdateMoves, MovesKeepMatch DEF HandleCodeUpdate, Reads
<1>6. CASE \/ HandleSessionRestore(c) \/ HandleRegister(c)
           \/ HandleLogin(c) \/ HandleGetRooms(c)
           \/ HandleChatMessage(c) \/ SkipMalformed(c)
  <2>1. Stays /\ conn' = conn
    BY <1>6
    DEF HandleSessionRestore, HandleRegister, HandleLogin, HandleGetRooms,
        HandleChatMessage, SkipMalformed, Reads, serverVars, Stays, RoomId
  <2> QED
    BY <2>1, MovesKeepMatch
<1> QED
  BY <1>1, <1>2, <1>3, <1>4, <1>5, <1>6 DEF ServerStep

\* So does every step that leaves the rooms alone and cuts off nobody who may
\* be in one.
LEMMA OthersKeepMatch ==
    ASSUME MembersMatchSessions, UNCHANGED serverVars,
           \A d \in Client : conn[d] \in {"open", "hungup"}
                                => conn'[d] \in {"open", "hungup"}
    PROVE  MembersMatchSessions'
BY DEF MembersMatchSessions, InRoom, serverVars, RoomId

-----------------------------------------------------------------------------
(***************************************************************************)
(* The rooms as those in them see them: the room's code, and who is where. *)
(***************************************************************************)

\* The rooms' codes are a sequence, one for each number given out.
LEMMA CodesType ==
    ServerTypeOK => /\ Codes \in Seq(Text)
                    /\ Len(Codes) = nextId - 1
                    /\ DOMAIN Codes = RoomId
<1> SUFFICES ASSUME ServerTypeOK
             PROVE  /\ Codes \in Seq(Text)
                    /\ Len(Codes) = nextId - 1
                    /\ DOMAIN Codes = RoomId
  OBVIOUS
<1>1. nextId - 1 \in Nat /\ nextId \in Nat
  BY DEF ServerTypeOK
<1>2. Codes \in [1 .. (nextId - 1) -> Text]
  BY DEF Codes, RoomId, Room, ServerTypeOK
<1>3. Codes \in Seq(Text)
  BY <1>1, <1>2
<1>4. Len(Codes) = nextId - 1
  BY <1>1, <1>2, <1>3, LenProperties
<1> QED
  BY <1>2, <1>3, <1>4 DEF RoomId

\* Steps that leave the rooms leave their codes.
LEMMA SameCodes ==
    ASSUME UNCHANGED <<rooms, nextId>>
    PROVE  Codes' = Codes
BY DEF Codes, RoomId

\* Before the first room is opened there are no codes.
LEMMA NoCodes ==
    ASSUME ServerTypeOK, nextId = 1
    PROVE  Codes = <<>>
<1>1. Len(Codes) = 0 /\ Codes \in Seq(Text)
  BY CodesType
<1> QED
  BY <1>1, EmptySeq

(***************************************************************************)
(* The check on entry (server.cpp:206-227, 239-264) looks at every room:   *)
(* who passes it is in none, and nobody in a room has its name if it has   *)
(* one.                                                                    *)
(***************************************************************************)
LEMMA EntersAlone ==
    ASSUME ServerTypeOK, MembersMatchSessions, NEW c \in Client, MayEnter(c)
    PROVE  /\ current_room[c] = NoRoom
           /\ \A h \in Client : /\ current_room[h] # NoRoom
                                /\ username[h] = username[c]
                                => username[c] = NoUser
<1>1. ASSUME NEW h \in Client, current_room[h] # NoRoom,
             username[h] = username[c]
      PROVE  username[c] = NoUser
  <2>1. current_room[h] \in RoomId /\ h \in rooms[current_room[h]].members
    BY <1>1 DEF ServerTypeOK, MembersMatchSessions, InRoom
  <2> QED
    BY <1>1, <2>1 DEF MayEnter, NameInAnyRoom
<1> QED
  BY <1>1 DEF MayEnter

\* Whoever opens a room is in it, and its code is blank.
LEMMA CreateWrites ==
    ASSUME ProtocolAssumption, ServerTypeOK, ServerTypeOK', NEW c \in Client,
           HandleCreateRoom(c), MayEnter(c)
    PROVE  /\ Codes' = Append(Codes, Blank)
           /\ current_room' = [current_room EXCEPT ![c] = Len(Codes) + 1]
<1>1. /\ rooms' = [r \in 1 .. nextId |->
                      IF r = nextId THEN addMember(createRoom, c)
                                    ELSE rooms[r]]
      /\ current_room' = [current_room EXCEPT ![c] = nextId]
      /\ nextId' = nextId + 1
      /\ nextId \in Nat \ {0}
  BY DEF HandleCreateRoom, ServerTypeOK
<1>2. /\ Codes \in Seq(Text) /\ Codes' \in Seq(Text)
      /\ Len(Codes) = nextId - 1 /\ Len(Codes') = nextId' - 1
  <2>1. (Codes \in Seq(Text) /\ Len(Codes) = nextId - 1)'
    BY CodesType, PTL
  <2> QED
    BY <2>1, CodesType
<1>3. /\ Codes' = [r \in 1 .. nextId |-> rooms'[r].code]
      /\ Codes = [r \in 1 .. (nextId - 1) |-> rooms[r].code]
  BY <1>1 DEF Codes, RoomId
<1>4. \A r \in 1 .. nextId :
         Codes'[r] = IF r = nextId THEN Blank ELSE Codes[r]
  BY <1>1, <1>3 DEF addMember, createRoom
<1>5. /\ Append(Codes, Blank) \in Seq(Text)
      /\ Len(Append(Codes, Blank)) = nextId
      /\ \A r \in 1 .. nextId :
            Append(Codes, Blank)[r] = IF r = nextId THEN Blank ELSE Codes[r]
  BY <1>1, <1>2, AppendProperties DEF ProtocolAssumption
<1>6. Len(Codes') = nextId /\ Len(Codes) + 1 = nextId
  BY <1>1, <1>2
<1>7. Codes' = Append(Codes, Blank)
  BY <1>2, <1>4, <1>5, <1>6, SeqEqual
<1> QED
  BY <1>1, <1>6, <1>7

\* A room that keeps its code: every room keeps its code.
LEMMA KeepsCodes ==
    ASSUME ServerTypeOK, nextId' = nextId, NEW r \in RoomId, NEW room,
           room.code = rooms[r].code, rooms' = [rooms EXCEPT ![r] = room]
    PROVE  Codes' = Codes
<1>1. RoomId' = RoomId
  BY DEF RoomId
<1>2. \A i \in RoomId : rooms'[i].code = rooms[i].code
  BY DEF ServerTypeOK
<1> QED
  BY <1>1, <1>2 DEF Codes

\* Joining a room (server.cpp:258-276) changes no code.
LEMMA JoinWritesNothing ==
    ASSUME ServerTypeOK, NEW c \in Client, HandleJoinRoom(c)
    PROVE  Codes' = Codes
<1> DEFINE rid == Head(toServer[c]).room_id
<1>1. CASE rid \in RoomId /\ rooms' = [rooms EXCEPT ![rid] =
                                          addMember(rooms[rid], c)]
  <2>1. addMember(rooms[rid], c).code = rooms[rid].code
    BY <1>1 DEF addMember, ServerTypeOK, Room
  <2>2. nextId' = nextId
    BY DEF HandleJoinRoom
  <2> QED
    BY <1>1, <2>1, <2>2, KeepsCodes
<1>2. CASE rooms' = rooms
  BY <1>2, SameCodes DEF HandleJoinRoom
<1> QED
  BY <1>1, <1>2 DEF HandleJoinRoom

\* Nor does leaving one (server.cpp:100-111, 279-290).
LEMMA VacateWritesNothing ==
    ASSUME ServerTypeOK, NEW c \in Client, Vacate(c), nextId' = nextId
    PROVE  Codes' = Codes
<1> DEFINE rid == current_room[c]
<1>1. CASE rid = NoRoom
  BY <1>1, SameCodes DEF Vacate
<1>2. CASE rid # NoRoom
  <2>1. rid \in RoomId
    BY <1>2 DEF ServerTypeOK
  <2>2. rooms' = [rooms EXCEPT ![rid] = removeMember(rooms[rid], c)]
    BY <1>2 DEF Vacate
  <2>3. removeMember(rooms[rid], c).code = rooms[rid].code
    BY <2>1 DEF removeMember, ServerTypeOK, Room
  <2> QED
    BY <2>1, <2>2, <2>3, KeepsCodes
<1> QED
  BY <1>1, <1>2

\* A code update is written into the room its sender is in.
LEMMA UpdateWrites ==
    ASSUME ServingTypeOK, NEW c \in Client, HandleCodeUpdate(c),
           current_room[c] # NoRoom
    PROVE  \E t \in Text : Codes' = [Codes EXCEPT ![current_room[c]] = t]
<1> DEFINE msg == Head(toServer[c])
           rid == current_room[c]
<1>1. msg.code \in Text
  BY ReadsType, RequestFields DEF HandleCodeUpdate, ServingTypeOK
<1>2. /\ rooms' = [rooms EXCEPT ![rid].code = msg.code]
      /\ nextId' = nextId
      /\ rid \in RoomId
  BY DEF HandleCodeUpdate, ServingTypeOK, ServerTypeOK
<1>3. RoomId' = RoomId
  BY <1>2 DEF RoomId
<1>4. \A r \in RoomId : rooms'[r].code = IF r = rid THEN msg.code
                                                  ELSE rooms[r].code
  BY <1>2 DEF ServingTypeOK, ServerTypeOK, Room
<1>5. Codes' = [Codes EXCEPT ![rid] = msg.code]
  BY <1>3, <1>4 DEF Codes
<1> QED
  BY <1>1, <1>5
=============================================================================
