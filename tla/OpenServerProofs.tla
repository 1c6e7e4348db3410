-------------------------- MODULE OpenServerProofs --------------------------
(***************************************************************************)
(* Proofs about the server under any client (module OpenServer), for every *)
(* set of clients, users and lines sent, and for every bound.              *)
(***************************************************************************)
EXTENDS OpenServer, RoomServerProofs, FiniteSetTheorems

USE DEF NoRoom

\* Whatever a client does keeps the types.
LEMMA ClientStepType ==
    ASSUME TypeOK, OpenAssumption, NEW c \in Client,
           ClientStep(c), UNCHANGED serverVars
    PROVE  TypeOK'
<1>1. ServerTypeOK'
  BY DEF TypeOK, ServerTypeOK, serverVars, RoomId
<1>2. CASE Connect(c)
  BY <1>1, <1>2 DEF Connect, TypeOK, ProtocolTypeOK, ConnState
<1>3. ASSUME NEW m \in Sent, SendLine(c, m) PROVE TypeOK'
  <2>1. m \in Request
    BY DEF OpenAssumption
  <2> QED
    BY <1>1, <1>3, <2>1 DEF SendLine, TypeOK, ProtocolTypeOK
<1>4. CASE ReadLines(c)
  BY <1>1, <1>4 DEF ReadLines, TypeOK, ProtocolTypeOK
<1>5. CASE HangUp(c)
  <2>1. PICK n \in 0 .. Len(toServer[c]) :
           toServer' = [toServer EXCEPT ![c] = SubSeq(@, 1, n)]
    BY <1>5 DEF HangUp
  <2>2. SubSeq(toServer[c], 1, n) \in Seq(Request)
    BY SubSeqProperties DEF TypeOK, ProtocolTypeOK
  <2> QED
    BY <1>1, <1>5, <2>1, <2>2 DEF HangUp, TypeOK, ProtocolTypeOK, ConnState
<1> QED
  BY <1>2, <1>3, <1>4, <1>5 DEF ClientStep

\* Every step keeps the types.
LEMMA NextType ==
    ASSUME TypeOK, ProtocolAssumption, OpenAssumption, [Next]_vars
    PROVE  TypeOK'
<1>1. ASSUME NEW c \in Client, ServerStep(c) PROVE TypeOK'
  BY <1>1, ServerStepType DEF TypeOK, ServingTypeOK
<1>2. ASSUME NEW c \in Client, ClientStep(c), UNCHANGED serverVars
      PROVE  TypeOK'
  BY <1>2, ClientStepType
<1>3. CASE UNCHANGED vars
  BY <1>3
  DEF vars, protocolVars, serverVars, TypeOK, ProtocolTypeOK, ServerTypeOK, RoomId
<1> QED
  BY <1>1, <1>2, <1>3 DEF Next

(***************************************************************************)
(* Every variable keeps its type, whatever lines clients send and in       *)
(* whatever order: in particular nobody is ever in a room that does not    *)
(* exist, so getRoom(current_room) is never null (server.cpp:72-98, 292).  *)
(***************************************************************************)
THEOREM TypeCorrect == Spec => []TypeOK
<1>1. Init => TypeOK
  BY InitType, ProtocolAssumption, ServerAssumption
  DEF Init, TypeOK, ServingTypeOK
<1>2. TypeOK /\ [Next]_vars => TypeOK'
  BY NextType, ProtocolAssumption, OpenAssumption
<1> QED
  BY <1>1, <1>2, PTL DEF Spec

-----------------------------------------------------------------------------
\* Members and sessions.

\* Every step keeps MembersMatchSessions.
LEMMA NextMatch ==
    ASSUME TypeOK, MembersMatchSessions, [Next]_vars
    PROVE  MembersMatchSessions'
<1>1. ASSUME NEW c \in Client, ServerStep(c) PROVE MembersMatchSessions'
  BY <1>1, ServerStepMatch DEF TypeOK, ServingTypeOK
<1>2. ASSUME NEW c \in Client, ClientStep(c), UNCHANGED serverVars
      PROVE  MembersMatchSessions'
  <2>1. \A d \in Client : conn[d] \in {"open", "hungup"}
                             => conn'[d] \in {"open", "hungup"}
    BY <1>2
    DEF ClientStep, Connect, SendLine, ReadLines, HangUp, TypeOK, ProtocolTypeOK
  <2> QED
    BY <1>2, <2>1, OthersKeepMatch
<1>3. CASE UNCHANGED vars
  BY <1>3 DEF vars, protocolVars, serverVars, MembersMatchSessions, InRoom, RoomId
<1> QED
  BY <1>1, <1>2, <1>3 DEF Next

(***************************************************************************)
(* The member lists of the RoomManager and the sessions' current_room      *)
(* always say the same, and no session that is gone is in a room, for any  *)
(* number of clients that do anything at all.                              *)
(***************************************************************************)
THEOREM MembersAlwaysMatch == Spec => []MembersMatchSessions
<1>1. Init => MembersMatchSessions
  BY DEF Init, ServerInit, MembersMatchSessions, InRoom, RoomId
<1>2. TypeOK /\ MembersMatchSessions /\ [Next]_vars => MembersMatchSessions'
  BY NextMatch
<1> QED
  BY <1>1, <1>2, TypeCorrect, PTL DEF Spec

-----------------------------------------------------------------------------
\* The rooms implement the RoomBook.

\* The room whose member list names c is c's current_room.
LEMMA PlaceIsCurrentRoom ==
    TypeOK /\ MembersMatchSessions => Places = current_room
<1> SUFFICES ASSUME TypeOK, MembersMatchSessions
             PROVE  Places = current_room
  OBVIOUS
<1>1. ASSUME NEW c \in Client PROVE Place(c) = current_room[c]
  <2>1. \A r \in RoomId : c \in rooms[r].members <=> current_room[c] = r
    BY DEF MembersMatchSessions, InRoom
  <2>2. CASE current_room[c] = NoRoom
    <3>1. \A r \in RoomId : r # NoRoom
      BY DEF RoomId
    <3> QED
      BY <2>1, <2>2, <3>1 DEF Place
  <2>3. CASE current_room[c] \in RoomId
    <3>1. c \in rooms[Place(c)].members /\ Place(c) \in RoomId
      BY <2>1, <2>3 DEF Place
    <3> QED
      BY <2>1, <3>1
  <2> QED
    BY <2>2, <2>3 DEF TypeOK, ServerTypeOK
<1> QED
  BY <1>1 DEF Places, TypeOK, ServerTypeOK

\* The initial states are initial states of the RoomBook.
LEMMA BookInit ==
    ASSUME TypeOK, MembersMatchSessions, Init
    PROVE  Book!Init
<1>1. Places = [c \in Client |-> Book!Outside]
  BY PlaceIsCurrentRoom DEF Init, ServerInit, Book!Outside
<1>2. Codes = <<>>
  BY NoCodes DEF Init, ServerInit, TypeOK
<1> QED
  BY <1>1, <1>2 DEF Init, ServerInit, Book!Init

\* Every step is a step of the RoomBook or leaves it alone.
LEMMA BookStep ==
    ASSUME ProtocolAssumption, TypeOK, MembersMatchSessions,
           TypeOK', MembersMatchSessions', [Next]_vars
    PROVE  [Book!Next]_(Book!vars)
<1>1. Places = current_room /\ Places' = current_room'
  <2>1. (Places = current_room)'
    BY PlaceIsCurrentRoom, PTL
  <2> QED
    BY <2>1, PlaceIsCurrentRoom
<1>2. ServerTypeOK /\ ServerTypeOK' /\ ServingTypeOK
  BY DEF TypeOK, ServingTypeOK
<1>3. ASSUME NEW c \in Client, MayEnter(c) PROVE Book!Welcome(c)
  BY <1>1, <1>2, <1>3, EntersAlone DEF Book!Welcome, Book!Outside
<1>4. ASSUME UNCHANGED <<current_room, rooms, nextId, username>>
      PROVE  UNCHANGED Book!vars
  BY <1>1, <1>4, SameCodes DEF Book!vars
<1>5. ASSUME NEW c \in Client, NEW n \in Name,
             username' = [username EXCEPT ![c] = n],
             UNCHANGED <<current_room, rooms, nextId>>
      PROVE  Book!Rename(c)
  BY <1>1, <1>5, SameCodes DEF Book!Rename
<1>6. ASSUME NEW c \in Client, Vacate(c), UNCHANGED <<username, nextId>>
      PROVE  Book!Leave(c) \/ UNCHANGED Book!vars
  <2>1. Codes' = Codes
    BY <1>2, <1>6, VacateWritesNothing
  <2>2. \/ current_room' = current_room
        \/ current_room' = [current_room EXCEPT ![c] = NoRoom]
    BY <1>6 DEF Vacate
  <2> QED
    BY <1>1, <1>6, <2>1, <2>2 DEF Book!Leave, Book!Outside, Book!vars
<1>7. ASSUME NEW c \in Client, HandleCreateRoom(c)
      PROVE  Book!Open(c) \/ UNCHANGED Book!vars
  <2>1. CASE ~MayEnter(c)
    BY <1>4, <1>7, <2>1 DEF HandleCreateRoom
  <2>2. CASE MayEnter(c)
    <3>1. username' = username
      BY <1>7 DEF HandleCreateRoom
    <3>2. /\ Codes' = Append(Codes, Blank)
          /\ current_room' = [current_room EXCEPT ![c] = Len(Codes) + 1]
      BY <1>2, <1>7, <2>2, CreateWrites
    <3> QED
      BY <1>1, <1>3, <2>2, <3>1, <3>2 DEF Book!Open
  <2> QED
    BY <2>1, <2>2
<1>8. ASSUME NEW c \in Client, HandleJoinRoom(c)
      PROVE  Book!Enter(c) \/ UNCHANGED Book!vars
  <2> DEFINE rid == Head(toServer[c]).room_id
  <2>1. CASE ~MayEnter(c) \/ rid \notin RoomId
    BY <1>4, <1>8, <2>1 DEF HandleJoinRoom
  <2>2. CASE MayEnter(c) /\ rid \in RoomId
    <3>1. /\ current_room' = [current_room EXCEPT ![c] = rid]
          /\ username' = username
      BY <1>8, <2>2 DEF HandleJoinRoom
    <3>2. rid \in DOMAIN Codes /\ Codes' = Codes
      BY <1>2, <1>8, <2>2, CodesType, JoinWritesNothing
    <3> QED
      BY <1>1, <1>3, <2>2, <3>1, <3>2 DEF Book!Enter
  <2> QED
    BY <2>1, <2>2
<1>9. ASSUME NEW c \in Client, HandleCodeUpdate(c)
      PROVE  Book!Write(c) \/ UNCHANGED Book!vars
  <2>1. CASE current_room[c] = NoRoom
    BY <1>4, <1>9, <2>1 DEF HandleCodeUpdate
  <2>2. CASE current_room[c] # NoRoom
    <3>1. \E t \in Text : Codes' = [Codes EXCEPT ![current_room[c]] = t]
      BY <1>2, <1>9, <2>2, UpdateWrites
    <3>2. UNCHANGED <<username, current_room>>
      BY <1>9 DEF HandleCodeUpdate
    <3> QED
      BY <1>1, <2>2, <3>1, <3>2 DEF Book!Write, Book!Outside
  <2> QED
    BY <2>1, <2>2
<1>10. ASSUME NEW c \in Client, HandleSessionRestore(c) \/ HandleLogin(c)
       PROVE  Book!Rename(c) \/ UNCHANGED Book!vars
  <2> DEFINE msg == Head(toServer[c])
  <2>1. msg.username \in Name
    BY <1>10, ReadsType, RequestFields
    DEF HandleSessionRestore, HandleLogin, TypeOK
  <2>2. /\ username' \in {username, [username EXCEPT ![c] = msg.username]}
        /\ UNCHANGED <<current_room, rooms, nextId>>
    BY <1>10 DEF HandleSessionRestore, HandleLogin
  <2> QED
    BY <1>4, <1>5, <2>1, <2>2
<1>11. ASSUME NEW c \in Client, ServerStep(c)
       PROVE  [Book!Next]_(Book!vars)
  <2>1. CASE HandleLeaveRoom(c) \/ HandleDisconnect(c)
    BY <1>6, <2>1 DEF HandleLeaveRoom, HandleDisconnect, Book!Next
  <2>2. CASE \/ HandleRegister(c) \/ HandleGetRooms(c)
             \/ HandleChatMessage(c) \/ SkipMalformed(c)
    BY <1>4, <2>2
    DEF HandleRegister, HandleGetRooms, HandleChatMessage, SkipMalformed,
        serverVars
  <2> QED
    BY <1>7, <1>8, <1>9, <1>10, <1>11, <2>1, <2>2 DEF ServerStep, Book!Next
<1>12. CASE UNCHANGED serverVars
  BY <1>4, <1>12 DEF serverVars
<1> QED
  BY <1>11, <1>12 DEF Next, vars

(***************************************************************************)
(* The server keeps the RoomBook's promises, for every number of clients   *)
(* sending anything: nobody is in two rooms, nobody enters under a name    *)
(* that is already in a room (server.cpp:215, 254), a room's code changes  *)
(* only at the hand of a member and outlives its members (rooms are never  *)
(* removed, RoomManager.cpp:5-9).                                          *)
(***************************************************************************)
THEOREM ServerKeepsBook == Spec => BookSpec
<1>1. Init => Book!Init
  <2>1. Init => TypeOK /\ MembersMatchSessions
    BY InitType, ProtocolAssumption, ServerAssumption
    DEF Init, ServerInit, TypeOK, ServingTypeOK, MembersMatchSessions, InRoom,
        RoomId
  <2> QED
    BY <2>1, BookInit
<1>2. /\ TypeOK /\ MembersMatchSessions /\ TypeOK' /\ MembersMatchSessions'
      /\ [Next]_vars
      => [Book!Next]_(Book!vars)
  BY BookStep, ProtocolAssumption
<1> QED
  BY <1>1, <1>2, TypeCorrect, MembersAlwaysMatch, PTL
  DEF Spec, BookSpec, Book!Spec

-----------------------------------------------------------------------------
\* Code and chat stay in their room.

\* How many code and chat lines a queue holds is a number, zero for an empty one.
LEMMA RelaysCounted ==
    ASSUME NEW S, NEW q \in Seq(S)
    PROVE  /\ Cardinality(Relays(q)) \in Nat
           /\ Cardinality(Relays(<<>>)) = 0
<1>1. Len(q) \in Nat /\ DOMAIN q = 1 .. Len(q)
  BY LenProperties
<1>2. IsFiniteSet(1 .. Len(q))
  BY <1>1, FS_Interval
<1>3. Relays(q) \in SUBSET (1 .. Len(q))
  BY <1>1 DEF Relays
<1>4. IsFiniteSet(Relays(q))
  BY <1>2, <1>3, FS_Subset
<1>5. Relays(<<>>) = {}
  BY DEF Relays
<1> QED
  BY <1>4, <1>5, FS_CardinalityType, FS_EmptySet

\* A bundle of neither code nor chat.
Quiet(out) == \A d \in Client : Relays(out[d]) = {}

\* One message that is neither, to some clients.
LEMMA ToQuiet ==
    ASSUME NEW S, NEW m, m.type \notin Relayed
    PROVE  Quiet(To(S, m))
BY DEF Quiet, Relays, To

\* Appending lines that are neither adds none.
LEMMA RelaysAppended ==
    ASSUME NEW S, NEW q \in Seq(S), NEW s \in Seq(S), Relays(s) = {}
    PROVE  Relays(q \o s) = Relays(q)
<1>1. /\ Len(q) \in Nat /\ Len(s) \in Nat /\ q \o s \in Seq(S)
      /\ Len(q \o s) = Len(q) + Len(s)
      /\ DOMAIN q = 1 .. Len(q) /\ DOMAIN s = 1 .. Len(s)
      /\ DOMAIN (q \o s) = 1 .. Len(q) + Len(s)
  BY ConcatProperties, LenProperties
<1>2. ASSUME NEW i \in 1 .. Len(q) + Len(s), ~(i <= Len(q))
      PROVE  (q \o s)[i].type \notin Relayed
  <2>1. i - Len(q) \in 1 .. Len(s)
    BY <1>1, <1>2
  <2>2. (q \o s)[i] = s[i - Len(q)]
    BY <1>2, ConcatProperties
  <2>3. s[i - Len(q)].type \notin Relayed
    BY <1>1, <2>1 DEF Relays
  <2> QED
    BY <2>2, <2>3
<1>3. \A i \in 1 .. Len(q) : /\ (q \o s)[i] = q[i]
                             /\ i \in 1 .. Len(q) + Len(s)
  <2>1. \A i \in 1 .. Len(q) : i \in 1 .. Len(q) + Len(s) /\ i <= Len(q)
    BY <1>1
  <2> QED
    BY <2>1, ConcatProperties
<1>4. ASSUME NEW i \in Relays(q \o s) PROVE i \in Relays(q)
  <2>1. i \in 1 .. Len(q) + Len(s) /\ (q \o s)[i].type \in Relayed
    BY <1>1 DEF Relays
  <2>2. i <= Len(q)
    BY <1>2, <2>1
  <2>3. i \in 1 .. Len(q)
    BY <1>1, <2>1, <2>2
  <2> QED
    BY <1>1, <1>3, <2>1, <2>3 DEF Relays
<1>5. ASSUME NEW i \in Relays(q) PROVE i \in Relays(q \o s)
  <2>1. i \in 1 .. Len(q) /\ q[i].type \in Relayed
    BY <1>1 DEF Relays
  <2> QED
    BY <1>1, <1>3, <2>1 DEF Relays
<1> QED
  BY <1>4, <1>5

\* Two such bundles, one after the other.
LEMMA ThenQuiet ==
    ASSUME NEW out1 \in Outgoing, NEW out2 \in Outgoing,
           Quiet(out1), Quiet(out2)
    PROVE  Quiet(out1 ++ out2)
<1> SUFFICES ASSUME NEW d \in Client PROVE Relays(out1[d] \o out2[d]) = {}
  BY DEF Quiet, ++
<1>1. out1[d] \in Seq(Reply) /\ out2[d] \in Seq(Reply)
  BY DEF Outgoing
<1> QED
  BY <1>1, RelaysAppended DEF Quiet

\* What a room is told of its members.
LEMMA MembersQuiet ==
    ASSUME NEW room, NEW c, NEW S, NEW type \in {"user_joined", "user_left"}
    PROVE  /\ Quiet(broadcastMemberList(room))
           /\ Quiet(broadcastToRoom(room, [type |-> type,
                                           username |-> username[c]], S))
BY ToQuiet DEF broadcastMemberList, broadcastToRoom, Relayed

\* The step gives nobody another line of code or chat.
Unrelayed == \A d \in Client : Relays(toClient'[d]) = Relays(toClient[d])

\* Posting such a bundle.
LEMMA PostQuiet ==
    ASSUME ServingTypeOK, NEW out \in Outgoing, Quiet(out), Post(out)
    PROVE  Unrelayed
<1>1. ASSUME NEW d \in Client PROVE Relays(toClient[d] \o out[d]) = Relays(toClient[d])
  <2>1. toClient[d] \in Seq(Reply) /\ out[d] \in Seq(Reply)
    BY DEF ServingTypeOK, ProtocolTypeOK, Outgoing
  <2> QED
    BY <2>1, RelaysAppended DEF Quiet
<1> QED
  BY <1>1 DEF Post, Unrelayed

\* A handler that answers c only.
LEMMA AnswerQuiet ==
    ASSUME ServingTypeOK, NEW c, NEW m \in Reply, m.type \notin Relayed,
           Post(To({c}, m))
    PROVE  Unrelayed
BY ToOutgoing, ToQuiet, PostQuiet

\* Leaving a room.
LEMMA VacateQuiet ==
    ASSUME ServingTypeOK, ProtocolAssumption, NEW c \in Client, Vacate(c)
    PROVE  Unrelayed
<1>1. CASE current_room[c] = NoRoom
  BY <1>1 DEF Vacate, Unrelayed
<1>2. CASE current_room[c] # NoRoom
  <2> DEFINE room == removeMember(rooms[current_room[c]], c)
             news == broadcastToRoom(room, [type |-> "user_left",
                                            username |-> username[c]], {})
  <2>1. Post(news ++ broadcastMemberList(room)) /\ current_room[c] \in RoomId
    BY <1>2 DEF Vacate, ServingTypeOK, ServerTypeOK
  <2>2. room \in Room
    BY <2>1, RoomValues DEF ServingTypeOK, ServerTypeOK
  <2>3. news \in Outgoing /\ broadcastMemberList(room) \in Outgoing
    BY <2>2, NewsOutgoing, MemberListOutgoing DEF ServingTypeOK
  <2>4. Quiet(news ++ broadcastMemberList(room))
    BY <2>3, MembersQuiet, ThenQuiet
  <2> QED
    BY <2>1, <2>3, <2>4, ThenOutgoing, PostQuiet
<1> QED
  BY <1>1, <1>2

\* Entering a room, a new one or one there was.
LEMMA EntryQuiet ==
    ASSUME ServingTypeOK, ProtocolAssumption, NEW c \in Client,
           HandleCreateRoom(c) \/ HandleJoinRoom(c)
    PROVE  Unrelayed
<1> DEFINE no == [type |-> "join_failed"]
<1>1. ASSUME Post(To({c}, no)) PROVE Unrelayed
  <2>1. no \in Reply /\ no.type \notin Relayed
    BY DEF Reply, Relayed
  <2> QED
    BY <1>1, <2>1, AnswerQuiet
<1>2. CASE HandleCreateRoom(c)
  <2> DEFINE room == addMember(createRoom, c)
             reply == [type |-> "room_created", room_id |-> nextId]
  <2>1. CASE ~MayEnter(c)
    BY <1>1, <1>2, <2>1 DEF HandleCreateRoom
  <2>2. CASE MayEnter(c)
    <3>1. Post(To({c}, reply) ++ broadcastMemberList(room))
      BY <1>2, <2>2 DEF HandleCreateRoom
    <3>2. room \in Room /\ reply \in Reply /\ reply.type \notin Relayed
      BY RoomValues DEF ServingTypeOK, ServerTypeOK, Reply, Relayed
    <3>3. /\ To({c}, reply) \in Outgoing /\ Quiet(To({c}, reply))
          /\ broadcastMemberList(room) \in Outgoing
          /\ Quiet(broadcastMemberList(room))
      BY <3>2, ToOutgoing, ToQuiet, MemberListOutgoing, MembersQuiet
      DEF ServingTypeOK
    <3> HIDE DEF room, reply
    <3> QED
      BY <3>1, <3>3, ThenOutgoing, ThenQuiet, PostQuiet
  <2> QED
    BY <2>1, <2>2
<1>3. CASE HandleJoinRoom(c)
  <2> DEFINE rid == Head(toServer[c]).room_id
             room == addMember(rooms[rid], c)
             reply == [type |-> "room_joined", room_id |-> rid,
                       code |-> room.code]
             joined == broadcastToRoom(room, [type |-> "user_joined",
                                              username |-> username[c]], {c})
             list == broadcastMemberList(room)
  <2>1. CASE ~MayEnter(c) \/ rid \notin RoomId
    BY <1>1, <1>3, <2>1 DEF HandleJoinRoom
  <2>2. CASE MayEnter(c) /\ rid \in RoomId
    <3>1. Post(To({c}, reply) ++ joined ++ list)
      BY <1>3, <2>2 DEF HandleJoinRoom
    <3>2. room \in Room /\ rid \in Nat
      BY <2>2, RoomValues DEF ServingTypeOK, ServerTypeOK, RoomId
    <3>3. reply \in [type : {"room_joined"}, room_id : Nat, code : Text]
      BY <3>2 DEF Room
    <3>4. reply \in Reply /\ reply.type \notin Relayed
      BY <3>3 DEF Reply, Relayed
    <3>5. /\ To({c}, reply) \in Outgoing /\ Quiet(To({c}, reply))
          /\ joined \in Outgoing /\ Quiet(joined)
          /\ list \in Outgoing /\ Quiet(list)
      BY <3>2, <3>4, ToOutgoing, ToQuiet, NewsOutgoing, MemberListOutgoing,
         MembersQuiet
      DEF ServingTypeOK
    <3> HIDE DEF room, reply, joined, list
    <3>6. To({c}, reply) ++ joined \in Outgoing /\ Quiet(To({c}, reply) ++ joined)
      BY <3>5, ThenOutgoing, ThenQuiet
    <3> QED
      BY <3>1, <3>5, <3>6, ThenOutgoing, ThenQuiet, PostQuiet
  <2> QED
    BY <2>1, <2>2
<1> QED
  BY <1>2, <1>3

\* Every handler but those two relays nothing.
LEMMA HandlersQuiet ==
    ASSUME ServingTypeOK, ProtocolAssumption, NEW c \in Client, ServerStep(c),
           ~HandleCodeUpdate(c), ~HandleChatMessage(c)
    PROVE  Unrelayed
<1> DEFINE msg == Head(toServer[c])
<1>1. CASE HandleRegister(c)
  <2>1. \A t \in {"register_success", "register_failed"} :
           [type |-> t] \in Reply /\ [type |-> t].type \notin Relayed
    BY DEF Reply, Relayed
  <2>2. \/ UNCHANGED toClient
        \/ \E t \in {"register_success", "register_failed"} :
              Post(To({c}, [type |-> t]))
    BY <1>1 DEF HandleRegister
  <2> QED
    BY <2>1, <2>2, AnswerQuiet DEF Unrelayed
<1>2. CASE HandleLogin(c)
  <2> DEFINE yes == [type |-> "login_success", username |-> msg.username]
             no == [type |-> "login_failed"]
  <2>1. msg.username \in Name
    BY <1>2, ReadsType, RequestFields DEF HandleLogin, ServingTypeOK
  <2>2. /\ yes \in Reply /\ yes.type \notin Relayed
        /\ no \in Reply /\ no.type \notin Relayed
    BY <2>1 DEF Reply, Relayed
  <2>3. UNCHANGED toClient \/ Post(To({c}, yes)) \/ Post(To({c}, no))
    BY <1>2 DEF HandleLogin
  <2> QED
    BY <2>2, <2>3, AnswerQuiet DEF Unrelayed
<1>3. CASE HandleGetRooms(c)
  <2> DEFINE m == [type |-> "room_list", rooms |-> listRooms]
  <2>1. m \in Reply /\ m.type \notin Relayed
    BY DEF Reply, listRooms, RoomId, Relayed
  <2> QED
    BY <1>3, <2>1, AnswerQuiet DEF HandleGetRooms
<1>4. CASE HandleLeaveRoom(c) \/ HandleDisconnect(c)
  BY <1>4, VacateQuiet DEF HandleLeaveRoom, HandleDisconnect
<1>5. CASE SkipMalformed(c) \/ HandleSessionRestore(c)
  BY <1>5 DEF SkipMalformed, HandleSessionRestore, Unrelayed
<1> QED
  BY <1>1, <1>2, <1>3, <1>4, <1>5, EntryQuiet DEF ServerStep

\* Those two relay to the room the sender is in, and have taken its line.
LEMMA RelaysReachRoom ==
    ASSUME ServingTypeOK, MembersMatchSessions, NEW c \in Client,
           HandleCodeUpdate(c) \/ HandleChatMessage(c),
           NEW d \in Client, toClient'[d] # toClient[d]
    PROVE  /\ Len(toServer'[c]) < Len(toServer[c])
           /\ current_room[c] = current_room[d]
           /\ current_room[d] # NoRoom
<1> DEFINE rid == current_room[c]
<1>1. Len(toServer'[c]) < Len(toServer[c])
  <2>1. toServer[c] # <<>> /\ toServer'[c] = Tail(toServer[c])
    BY DEF HandleCodeUpdate, HandleChatMessage, Reads, ServingTypeOK,
           ProtocolTypeOK
  <2>2. PICK q \in Seq(Request) : q = toServer[c]
    BY DEF ServingTypeOK, ProtocolTypeOK
  <2>3. Len(Tail(q)) = Len(q) - 1 /\ Len(q) \in Nat
    BY <2>1, <2>2, HeadTailProperties, LenProperties
  <2> QED
    BY <2>1, <2>2, <2>3
<1>2. /\ rid # NoRoom
      /\ \E m, S : Post(broadcastToRoom(rooms[rid], m, S))
  BY DEF HandleCodeUpdate, HandleChatMessage
<1>3. PICK m, S : Post(broadcastToRoom(rooms[rid], m, S))
  BY <1>2
<1>4. d \in rooms[rid].members
  <2>1. CASE d \notin rooms[rid].members
    <3>1. broadcastToRoom(rooms[rid], m, S)[d] = <<>>
      BY <2>1 DEF broadcastToRoom, To
    <3>2. PICK q \in Seq(Reply) : q = toClient[d]
      BY DEF ServingTypeOK, ProtocolTypeOK
    <3>3. q \o <<>> = q
      BY ConcatEmptySeq
    <3>4. toClient'[d] = toClient[d]
      BY <1>3, <3>1, <3>2, <3>3 DEF Post
    <3> QED
      BY <3>4
  <2> QED
    BY <2>1
<1>5. rid \in RoomId
  BY <1>2 DEF ServingTypeOK, ServerTypeOK
<1>6. current_room[d] = rid
  BY <1>4, <1>5 DEF MembersMatchSessions, InRoom
<1> QED
  BY <1>1, <1>2, <1>6

\* The condition of RelayStaysInRoom, for one receiver.
RelayToRoom(d) ==
    Cardinality(Relays(toClient'[d])) > Cardinality(Relays(toClient[d]))
        => \E c \in Client : /\ Len(toServer'[c]) < Len(toServer[c])
                             /\ current_room[c] = current_room[d]
                             /\ current_room[d] # NoRoom

\* Every step.
LEMMA NextRelays ==
    ASSUME TypeOK, MembersMatchSessions, ProtocolAssumption, Next,
           NEW d \in Client
    PROVE  RelayToRoom(d)
<1>1. /\ Cardinality(Relays(toClient[d])) \in Nat
      /\ Cardinality(Relays(<<>>)) = 0
  <2>1. toClient[d] \in Seq(Reply)
    BY DEF TypeOK, ProtocolTypeOK
  <2> QED
    BY <2>1, RelaysCounted
<1>2. CASE Relays(toClient'[d]) = Relays(toClient[d])
  BY <1>1, <1>2 DEF RelayToRoom
<1>3. ASSUME NEW c \in Client, ServerStep(c) PROVE RelayToRoom(d)
  <2>1. CASE HandleCodeUpdate(c) \/ HandleChatMessage(c)
    BY <1>2, <2>1, RelaysReachRoom DEF RelayToRoom, TypeOK, ServingTypeOK
  <2>2. CASE ~HandleCodeUpdate(c) /\ ~HandleChatMessage(c)
    BY <1>2, <1>3, <2>2, HandlersQuiet DEF Unrelayed, TypeOK, ServingTypeOK
  <2> QED
    BY <2>1, <2>2
<1>4. ASSUME NEW c \in Client, ClientStep(c) PROVE RelayToRoom(d)
  <2>1. toClient'[d] \in {<<>>, toClient[d]}
    BY <1>4 DEF ClientStep, Connect, SendLine, ReadLines, HangUp, TypeOK,
                ProtocolTypeOK
  <2>2. CASE toClient'[d] = <<>>
    BY <1>1, <2>2 DEF RelayToRoom
  <2> QED
    BY <1>2, <2>1, <2>2
<1> QED
  BY <1>3, <1>4 DEF Next

(***************************************************************************)
(* Code and chat never leave the sender's room, whatever clients send and  *)
(* whatever room their lines name: who is told more of either is in the    *)
(* room of a client whose line has just been read (server.cpp:292-306).    *)
(***************************************************************************)
THEOREM RelaysStayInRoom == Spec => RelayStaysInRoom
<1>1. TypeOK /\ MembersMatchSessions /\ [Next]_vars
        => [\A d \in Client : RelayToRoom(d)]_vars
  BY NextRelays, ProtocolAssumption
<1>2. RelayStaysInRoom <=> [][\A d \in Client : RelayToRoom(d)]_vars
  BY DEF RelayStaysInRoom, RelayToRoom
<1> QED
  BY <1>1, <1>2, TypeCorrect, MembersAlwaysMatch, PTL DEF Spec
=============================================================================
