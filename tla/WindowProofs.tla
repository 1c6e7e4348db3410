---------------------------- MODULE WindowProofs ----------------------------
(***************************************************************************)
(* Proofs about what the windows of the whole program show (module         *)
(* CodeBROs): the chat, the member list, the user and the room, the text   *)
(* in the editor, and the buttons that wait for an answer.                 *)
(***************************************************************************)
EXTENDS CodeBROsProofs

-----------------------------------------------------------------------------
\* What the server writes when it has read a line of c.

Entered == {"room_created", "room_joined"}

\* Why d may be written m: chat lines are those just read, and only c itself
\* is told of its login and of the room it enters.
Fits(c, d, m) ==
    /\ m.type = "chat_message"
          => Reads(c, "chat_message") /\ m = Head(toServer[c])
    /\ m.type = "login_success"
          => c = d /\ Reads(c, "login") /\ m.username = username'[c]
    /\ m.type \in Entered
          => /\ c = d
             /\ Reads(c, "create_room") \/ Reads(c, "join_room")
             /\ current_room[c] = NoRoom
             /\ m.room_id = current_room'[c] /\ m.room_id # NoRoom

Carries(c, out) ==
    \A d \in Client : \A m \in Lines(out[d]) : Fits(c, d, m)

\* Whoever enters a room is told so, once.
Welcomes(c, out) ==
    current_room'[c] \notin {NoRoom, current_room[c]}
        => /\ \E m \in Lines(out[c]) : m.type \in Entered
           /\ \A t, u \in Entered : NoneAfter(out[c], t, u)

\* One message to some clients.
LEMMA ToCarries ==
    ASSUME NEW c, NEW S, NEW m, \A d \in S : Fits(c, d, m)
    PROVE  Carries(c, To(S, m))
BY DEF Carries, To, Lines

\* Where the parts of a queue are once they are one.
LEMMA QueueParts ==
    ASSUME NEW S, NEW q \in Seq(S), NEW s \in Seq(S)
    PROVE  /\ \A i \in 1 .. Len(q) : (q \o s)[i] = q[i]
           /\ \A i \in 1 .. Len(s) : /\ Len(q) + i \in DOMAIN (q \o s)
                                     /\ (q \o s)[Len(q) + i] = s[i]
<1>1. \A i \in 1 .. Len(q) : (q \o s)[i] = q[i]
  BY ConcatProperties, LenProperties
<1>2. ASSUME NEW i \in 1 .. Len(s)
      PROVE  /\ Len(q) + i \in DOMAIN (q \o s)
             /\ (q \o s)[Len(q) + i] = s[i]
  <2>1. /\ Len(q) \in Nat /\ Len(s) \in Nat
        /\ Len(q \o s) = Len(q) + Len(s) /\ q \o s \in Seq(S)
    BY ConcatProperties, LenProperties
  <2>2. Len(q) + i \in 1 .. Len(q) + Len(s) /\ ~(Len(q) + i <= Len(q))
        /\ (Len(q) + i) - Len(q) = i
    BY <2>1
  <2>3. (q \o s)[Len(q) + i] = s[(Len(q) + i) - Len(q)]
    BY <2>2, ConcatProperties
  <2>4. Len(q) + i \in DOMAIN (q \o s)
    BY <2>1, <2>2, LenProperties
  <2> QED
    BY <2>2, <2>3, <2>4
<1> QED
  BY <1>1, <1>2

\* What a queue holds after another one has been appended.
LEMMA LinesGrow ==
    ASSUME NEW S, NEW q \in Seq(S), NEW s \in Seq(S)
    PROVE  \A m : m \in Lines(q \o s) <=> m \in Lines(q) \/ m \in Lines(s)
<1>1. \A m \in Lines(q \o s) : m \in Lines(q) \/ m \in Lines(s)
  BY QueueGrows DEF Lines
<1>2. ASSUME NEW i \in DOMAIN s
      PROVE  /\ Len(q) + i \in DOMAIN (q \o s)
             /\ (q \o s)[Len(q) + i] = s[i]
  BY QueueParts, LenProperties
<1>3. \A i \in DOMAIN q : i \in DOMAIN (q \o s) /\ (q \o s)[i] = q[i]
  BY ConcatProperties, LenProperties
<1>4. \A m \in Lines(s) : m \in Lines(q \o s)
  BY <1>2 DEF Lines
<1>5. \A m \in Lines(q) : m \in Lines(q \o s)
  BY <1>3 DEF Lines
<1> QED
  BY <1>1, <1>4, <1>5

\* Two bundles that fit, one after the other, fit.
LEMMA ThenCarries ==
    ASSUME NEW c, NEW out1 \in Outgoing, NEW out2 \in Outgoing,
           Carries(c, out1), Carries(c, out2)
    PROVE  Carries(c, out1 ++ out2)
<1> SUFFICES ASSUME NEW d \in Client, NEW m \in Lines(out1[d] \o out2[d])
             PROVE  Fits(c, d, m)
  BY DEF Carries, ++
<1>1. out1[d] \in Seq(Reply) /\ out2[d] \in Seq(Reply)
  BY DEF Outgoing
<1> QED
  BY <1>1, LinesGrow DEF Carries

\* Queues are put together from either side.
LEMMA QueuesAssociative ==
    ASSUME NEW S, NEW q1 \in Seq(S), NEW q2 \in Seq(S), NEW q3 \in Seq(S)
    PROVE  (q1 \o q2) \o q3 = q1 \o (q2 \o q3)
BY ConcatAssociative, SMTT(60)

\* Bundles are put together from either side.
LEMMA ThenAssociative ==
    ASSUME NEW out1 \in Outgoing, NEW out2 \in Outgoing, NEW out3 \in Outgoing
    PROVE  out1 ++ out2 ++ out3 = out1 ++ (out2 ++ out3)
<1>1. ASSUME NEW d \in Client
      PROVE  (out1[d] \o out2[d]) \o out3[d] = out1[d] \o (out2[d] \o out3[d])
  <2>1. \E q1, q2, q3 \in Seq(Reply) :
           q1 = out1[d] /\ q2 = out2[d] /\ q3 = out3[d]
    BY DEF Outgoing
  <2>2. PICK q1, q2, q3 \in Seq(Reply) :
           q1 = out1[d] /\ q2 = out2[d] /\ q3 = out3[d]
    BY <2>1
  <2>3. (q1 \o q2) \o q3 = q1 \o (q2 \o q3)
    BY QueuesAssociative
  <2> QED
    BY <2>2, <2>3
<1> QED
  BY <1>1 DEF ++

\* Posting nothing.
LEMMA NothingPosted ==
    ASSUME TypeOK, NEW c \in Client, UNCHANGED toClient
    PROVE  \E out \in Outgoing : Post(out) /\ Carries(c, out)
<1> DEFINE out == [d \in Client |-> <<>>]
<1>1. out \in Outgoing /\ Carries(c, out)
  BY DEF Outgoing, Carries, Lines
<1>2. /\ \A d \in Client : toClient[d] \o <<>> = toClient[d]
      /\ toClient = [d \in Client |-> toClient[d]]
  BY ConcatEmptySeq DEF TypeOK, ProtocolTypeOK
<1>3. Post(out)
  BY <1>2 DEF Post
<1> QED
  BY <1>1, <1>3

\* What a room is told of its members is for anybody.
LEMMA MembersCarry ==
    ASSUME NEW room, NEW c \in Client, NEW e, NEW S,
           NEW type \in {"user_joined", "user_left"}
    PROVE  /\ Carries(e, broadcastMemberList(room))
           /\ Carries(e, broadcastToRoom(room, [type |-> type,
                                                username |-> username[c]], S))
BY ToCarries DEF broadcastMemberList, broadcastToRoom, Fits, Entered

\* and not that somebody enters.
LEMMA MembersNoEntry ==
    ASSUME NEW room, NEW c \in Client, NEW S, NEW d \in Client,
           NEW t \in Entered
    PROVE  /\ ~Has(broadcastMemberList(room)[d], t)
           /\ ~Has(broadcastToRoom(room, [type |-> "user_joined",
                                         username |-> username[c]], S)[d], t)
<1>1. \A m, R : m.type \notin Entered => ~Has(To(R, m)[d], t)
  BY DEF To, Has
<1> QED
  BY <1>1 DEF broadcastMemberList, broadcastToRoom, Entered

\* A handler that only answers c.
LEMMA AnswerCarries ==
    ASSUME NEW c \in Client, NEW m \in Reply, Fits(c, c, m), Post(To({c}, m))
    PROVE  \E out \in Outgoing : Post(out) /\ Carries(c, out)
BY ToCarries, ToOutgoing

\* Leaving a room.
LEMMA VacateCarries ==
    ASSUME TypeOK, NEW c \in Client, Vacate(c)
    PROVE  \E out \in Outgoing : Post(out) /\ Carries(c, out)
<1>1. CASE current_room[c] = NoRoom
  BY <1>1, NothingPosted DEF Vacate
<1>2. CASE current_room[c] # NoRoom
  <2> DEFINE room == removeMember(rooms[current_room[c]], c)
             news == broadcastToRoom(room, [type |-> "user_left",
                                            username |-> username[c]], {})
  <2>1. Post(news ++ broadcastMemberList(room)) /\ current_room[c] \in RoomId
    BY <1>2 DEF Vacate, TypeOK, ServerTypeOK
  <2>2. room \in Room
    BY <2>1, RoomValues, ProtocolAssumption DEF TypeOK, ServerTypeOK
  <2>3. /\ news \in Outgoing /\ broadcastMemberList(room) \in Outgoing
        /\ Carries(c, news) /\ Carries(c, broadcastMemberList(room))
    BY <2>2, NewsOutgoing, MemberListOutgoing, MembersCarry DEF TypeOK
  <2> QED
    BY <2>1, <2>3, ThenOutgoing, ThenCarries
<1> QED
  BY <1>1, <1>2

\* A handler that lets c into no room.
LEMMA NobodyWelcomed ==
    ASSUME NEW c \in Client, current_room'[c] \in {NoRoom, current_room[c]},
           \E out \in Outgoing : Post(out) /\ Carries(c, out)
    PROVE  \E out \in Outgoing : Post(out) /\ Carries(c, out) /\ Welcomes(c, out)
BY DEF Welcomes

\* Entering a room, a new one or one there was.
LEMMA EntryNews ==
    ASSUME TypeOK, NEW c \in Client, HandleCreateRoom(c) \/ HandleJoinRoom(c)
    PROVE  \E out \in Outgoing : Post(out) /\ Carries(c, out) /\ Welcomes(c, out)
<1> DEFINE no == [type |-> "join_failed"]
<1>1. ASSUME Post(To({c}, no)), UNCHANGED current_room
      PROVE  \E out \in Outgoing : Post(out) /\ Carries(c, out) /\ Welcomes(c, out)
  <2>1. no \in Reply /\ Fits(c, c, no)
    BY DEF Reply, Fits, Entered
  <2> QED
    BY <1>1, <2>1, AnswerCarries, NobodyWelcomed
<1>2. ASSUME NEW reply \in Reply, reply.type \in Entered, Fits(c, c, reply),
             NEW news \in Outgoing, Carries(c, news),
             \A t \in Entered : ~Has(news[c], t),
             Post(To({c}, reply) ++ news)
      PROVE  \E out \in Outgoing : Post(out) /\ Carries(c, out) /\ Welcomes(c, out)
  <2> DEFINE out == To({c}, reply) ++ news
  <2>1. To({c}, reply) \in Outgoing /\ Carries(c, To({c}, reply))
    BY <1>2, ToOutgoing, ToCarries
  <2>2. out \in Outgoing /\ Carries(c, out)
    BY <1>2, <2>1, ThenOutgoing, ThenCarries
  <2>3. reply \in Lines(out[c])
    <3>1. out[c] = <<reply>> \o news[c]
      BY DEF ++, To
    <3>2. <<reply>> \in Seq(Reply) /\ news[c] \in Seq(Reply)
      BY <1>2 DEF Outgoing
    <3>3. reply \in Lines(<<reply>>)
      BY DEF Lines
    <3> QED
      BY <3>1, <3>2, <3>3, LinesGrow
  <2>4. \A t, u \in Entered : NoneAfter(out[c], t, u)
    <3>1. out[c] = <<reply>> \o news[c]
      BY DEF ++, To
    <3>2. PICK s \in Seq(Reply) : s = news[c]
      BY <1>2 DEF Outgoing
    <3>3. <<reply>> \in Seq(Reply) /\ \A t, u : NoneAfter(<<reply>>, t, u)
      BY <1>2 DEF NoneAfter
    <3>4. \A t, u \in Entered : NoneAfter(s, t, u) /\ ~Has(s, u)
      BY <1>2, <3>2 DEF NoneAfter, Has
    <3>5. \A t, u \in Entered : NoneAfter(<<reply>> \o s, t, u)
      BY <3>3, <3>4, NoneAfterGrows
    <3> QED
      BY <3>1, <3>2, <3>5
  <2>5. Welcomes(c, out)
    BY <1>2, <2>3, <2>4 DEF Welcomes
  <2> QED
    BY <1>2, <2>2, <2>5
<1>3. CASE HandleCreateRoom(c)
  <2> DEFINE room == addMember(createRoom, c)
             reply == [type |-> "room_created", room_id |-> nextId]
             news == broadcastMemberList(room)
  <2>1. CASE ~MayEnter(c)
    BY <1>1, <1>3, <2>1 DEF HandleCreateRoom
  <2>2. CASE MayEnter(c)
    <3>1. /\ Reads(c, "create_room") /\ Post(To({c}, reply) ++ news)
          /\ current_room' = [current_room EXCEPT ![c] = nextId]
          /\ current_room[c] = NoRoom
      BY <1>3, <2>2 DEF HandleCreateRoom, MayEnter
    <3>2. /\ nextId \in Nat \ {0} /\ current_room'[c] = nextId /\ room \in Room
          /\ reply \in Reply
      BY <3>1, RoomValues, ProtocolAssumption DEF TypeOK, ServerTypeOK, Reply
    <3>3. /\ news \in Outgoing /\ Carries(c, news)
          /\ \A t \in Entered : ~Has(news[c], t)
      BY <3>2, MemberListOutgoing, MembersCarry, MembersNoEntry DEF TypeOK
    <3>4. Fits(c, c, reply) /\ reply.type \in Entered
      BY <3>1, <3>2 DEF Fits, Entered, NoRoom
    <3> QED
      BY <1>2, <3>1, <3>2, <3>3, <3>4
  <2> QED
    BY <2>1, <2>2
<1>4. CASE HandleJoinRoom(c)
  <2> DEFINE rid == Head(toServer[c]).room_id
             room == addMember(rooms[rid], c)
             reply == [type |-> "room_joined", room_id |-> rid,
                       code |-> room.code]
             joined == broadcastToRoom(room, [type |-> "user_joined",
                                              username |-> username[c]], {c})
             list == broadcastMemberList(room)
  <2>1. CASE ~MayEnter(c) \/ rid \notin RoomId
    BY <1>1, <1>4, <2>1 DEF HandleJoinRoom
  <2>2. CASE MayEnter(c) /\ rid \in RoomId
    <3>1. /\ Reads(c, "join_room")
          /\ Post(To({c}, reply) ++ joined ++ list)
          /\ current_room' = [current_room EXCEPT ![c] = rid]
          /\ current_room[c] = NoRoom
      BY <1>4, <2>2 DEF HandleJoinRoom, MayEnter
    <3>2. room \in Room /\ rid \in Nat \ {0} /\ current_room'[c] = rid
      BY <2>2, <3>1, RoomValues, ProtocolAssumption
      DEF TypeOK, ServerTypeOK, RoomId
    <3>3. reply \in [type : {"room_joined"}, room_id : Nat, code : Text]
      BY <3>2 DEF Room
    <3>4. reply \in Reply
      BY <3>3 DEF Reply
    <3>5. /\ joined \in Outgoing /\ list \in Outgoing
          /\ Carries(c, joined) /\ Carries(c, list)
      BY <3>2, NewsOutgoing, MemberListOutgoing, MembersCarry DEF TypeOK
    <3>6. joined ++ list \in Outgoing /\ Carries(c, joined ++ list)
      BY <3>5, ThenOutgoing, ThenCarries
    <3>7. \A t \in Entered : ~Has((joined ++ list)[c], t)
      <4>1. \A t \in Entered : ~Has(joined[c], t) /\ ~Has(list[c], t)
        BY MembersNoEntry
      <4>2. (joined ++ list)[c] = joined[c] \o list[c]
        BY DEF ++
      <4>3. joined[c] \in Seq(Reply) /\ list[c] \in Seq(Reply)
        BY <3>5 DEF Outgoing
      <4> HIDE DEF joined, list
      <4> QED
        BY <4>1, <4>2, <4>3, HasGrows
    <3>8. Fits(c, c, reply) /\ reply.type \in Entered
      BY <3>1, <3>2 DEF Fits, Entered, NoRoom
    <3>9. To({c}, reply) ++ joined ++ list = To({c}, reply) ++ (joined ++ list)
      <4> HIDE DEF joined, list, reply
      <4> QED
        BY <3>4, <3>5, ToOutgoing, ThenAssociative
    <3> HIDE DEF reply, joined, list
    <3> QED
      BY <1>2, <3>1, <3>4, <3>6, <3>7, <3>8, <3>9
  <2> QED
    BY <2>1, <2>2
<1> QED
  BY <1>3, <1>4

\* Every handler.
LEMMA ServerNews ==
    ASSUME TypeOK, NEW c \in Client, ServerStep(c)
    PROVE  \E out \in Outgoing : Post(out) /\ Carries(c, out) /\ Welcomes(c, out)
<1> DEFINE msg == Head(toServer[c])
<1>1. CASE HandleRegister(c)
  <2>1. \A t \in {"register_success", "register_failed"} :
           [type |-> t] \in Reply /\ Fits(c, c, [type |-> t])
    BY DEF Reply, Fits, Entered
  <2>2. \/ UNCHANGED toClient
        \/ \E t \in {"register_success", "register_failed"} :
              Post(To({c}, [type |-> t]))
    BY <1>1 DEF HandleRegister
  <2>3. current_room'[c] = current_room[c]
    BY <1>1 DEF HandleRegister
  <2> QED
    BY <2>1, <2>2, <2>3, NothingPosted, AnswerCarries, NobodyWelcomed
<1>2. CASE HandleLogin(c)
  <2>1. /\ Reads(c, "login") /\ msg.username \in Name
        /\ current_room'[c] = current_room[c]
    BY <1>2, ReadsType, RequestFields DEF HandleLogin, TypeOK
  <2>2. CASE MayLogIn(msg)
    <3> DEFINE m == [type |-> "login_success", username |-> msg.username]
    <3>1. username'[c] = msg.username
      BY <1>2, <2>2 DEF HandleLogin, TypeOK, ServerTypeOK
    <3>2. m \in Reply /\ Fits(c, c, m)
      BY <2>1, <3>1 DEF Reply, Fits, Entered
    <3>3. UNCHANGED toClient \/ Post(To({c}, m))
      BY <1>2, <2>2 DEF HandleLogin
    <3> QED
      BY <2>1, <3>2, <3>3, NothingPosted, AnswerCarries, NobodyWelcomed
  <2>3. CASE ~MayLogIn(msg)
    <3>1. /\ [type |-> "login_failed"] \in Reply
          /\ Fits(c, c, [type |-> "login_failed"])
      BY DEF Reply, Fits, Entered
    <3>2. Post(To({c}, [type |-> "login_failed"]))
      BY <1>2, <2>3 DEF HandleLogin
    <3> QED
      BY <2>1, <3>1, <3>2, AnswerCarries, NobodyWelcomed
  <2> QED
    BY <2>2, <2>3
<1>3. CASE HandleGetRooms(c)
  <2> DEFINE m == [type |-> "room_list", rooms |-> listRooms]
  <2>1. m \in Reply /\ Fits(c, c, m)
    BY DEF Reply, listRooms, RoomId, Fits, Entered
  <2>2. Post(To({c}, m)) /\ current_room'[c] = current_room[c]
    BY <1>3 DEF HandleGetRooms, serverVars
  <2> QED
    BY <2>1, <2>2, AnswerCarries, NobodyWelcomed
<1>4. CASE HandleLeaveRoom(c) \/ HandleDisconnect(c)
  <2>1. Vacate(c)
    BY <1>4 DEF HandleLeaveRoom, HandleDisconnect
  <2> QED
    BY <2>1, VacateTalks, VacateCarries, NobodyWelcomed
<1>5. CASE HandleCodeUpdate(c) \/ HandleChatMessage(c)
  <2>1. /\ Reads(c, "code_update") \/ Reads(c, "chat_message")
        /\ current_room'[c] = current_room[c]
    BY <1>5 DEF HandleCodeUpdate, HandleChatMessage, serverVars
  <2>2. /\ msg \in Reply /\ msg.type \in {"code_update", "chat_message"}
        /\ Reads(c, msg.type)
    BY <2>1, ReadsType, RequestFields DEF TypeOK
  <2>3. \A d : Fits(c, d, msg)
    BY <2>2 DEF Fits, Entered
  <2>4. \A room, S : /\ broadcastToRoom(room, msg, S) \in Outgoing
                     /\ Carries(c, broadcastToRoom(room, msg, S))
    BY <2>2, <2>3, ToOutgoing, ToCarries DEF broadcastToRoom
  <2>5. \/ UNCHANGED toClient
        \/ \E room, S : Post(broadcastToRoom(room, msg, S))
    BY <1>5 DEF HandleCodeUpdate, HandleChatMessage
  <2> QED
    BY <2>1, <2>4, <2>5, NothingPosted, NobodyWelcomed
<1>6. CASE SkipMalformed(c) \/ HandleSessionRestore(c)
  BY <1>6, NothingPosted, NobodyWelcomed
  DEF SkipMalformed, HandleSessionRestore, serverVars
<1> QED
  BY <1>1, <1>2, <1>3, <1>4, <1>5, <1>6, EntryNews DEF ServerStep

-----------------------------------------------------------------------------
\* The chat.  What a client is told, and in which order, seldom changes:

NothingNew(d) ==
    \A s, t \in ChatText : /\ Told(d, t)' => Told(d, t)
                           /\ Before(d, s, t)' => Before(d, s, t)

\* not when every line of the new state has a place in the old one, in the
\* same order,
LEMMA SameOrder ==
    ASSUME NEW d \in Client, NEW max \in Nat, Places(d)' = 1 .. max,
           NEW n \in Nat, NEW p \in Nat,
           \A i \in 1 .. max, t \in ChatText : Tells(d, i, t)' =>
              /\ i <= n => i \in Places(d) /\ Tells(d, i, t)
              /\ i > n => i + p \in Places(d) /\ Tells(d, i + p, t)
    PROVE  NothingNew(d)
<1> DEFINE old(i) == IF i <= n THEN i ELSE i + p
<1>1. \A i \in 1 .. max, t \in ChatText :
         Tells(d, i, t)' => old(i) \in Places(d) /\ Tells(d, old(i), t)
  OBVIOUS
<1>2. \A j \in 1 .. max : \A i \in 1 .. j - 1 :
         i \in 1 .. max /\ old(i) \in 1 .. old(j) - 1
  OBVIOUS
<1> HIDE DEF old
<1>3. ASSUME NEW t \in ChatText, Told(d, t)' PROVE Told(d, t)
  BY <1>1, <1>3 DEF Told
<1>4. ASSUME NEW s \in ChatText, NEW t \in ChatText, Before(d, s, t)'
      PROVE  Before(d, s, t)
  <2>1. PICK j \in 1 .. max : /\ Tells(d, j, t)'
                              /\ \E i \in 1 .. j - 1 : Tells(d, i, s)'
    BY <1>4 DEF Before
  <2>2. PICK i \in 1 .. j - 1 : Tells(d, i, s)'
    BY <2>1
  <2>3. /\ old(j) \in Places(d) /\ Tells(d, old(j), t)
        /\ old(i) \in 1 .. old(j) - 1 /\ Tells(d, old(i), s)
    BY <1>1, <1>2, <2>1, <2>2
  <2> QED
    BY <2>3 DEF Before
<1> QED
  BY <1>3, <1>4 DEF NothingNew

\* Nothing is new if what is at a place now was there before.
LEMMA StillTold ==
    ASSUME NEW d \in Client, NEW max \in Nat, Places(d)' = 1 .. max,
           \A i \in 1 .. max, t \in ChatText :
              Tells(d, i, t)' => i \in Places(d) /\ Tells(d, i, t)
    PROVE  NothingNew(d)
<1>1. \A i \in 1 .. max : i + 0 = i /\ ~(i <= 0)
  OBVIOUS
<1>2. \A i \in 1 .. max, t \in ChatText : Tells(d, i, t)' =>
         /\ i <= 0 => i \in Places(d) /\ Tells(d, i, t)
         /\ i > 0 => i + 0 \in Places(d) /\ Tells(d, i + 0, t)
  BY <1>1
<1> QED
  BY <1>2, SameOrder

\* The places of d: the chat shown, then the lines on their way.
LEMMA ShownAndComing ==
    ASSUME TypeOK, NEW d \in Client
    PROVE  /\ dash[d].chatList \in Seq([sender : Name, text : ChatText])
           /\ toClient[d] \in Seq(Reply)
           /\ \E a, b \in Nat :
                 /\ a = Len(dash[d].chatList) /\ b = Len(toClient[d])
                 /\ Places(d) = 1 .. a + b /\ DOMAIN toClient[d] = 1 .. b
                 /\ \A i, t : Tells(d, i, t) <=>
                       IF i <= a THEN dash[d].chatList[i].text = t
                                 ELSE IsChat(toClient[d][i - a], t)
<1>1. /\ dash[d].chatList \in Seq([sender : Name, text : ChatText])
      /\ toClient[d] \in Seq(Reply)
  BY DEF TypeOK, ProtocolTypeOK, ClientTypeOK, Dash
<1> QED
  BY <1>1, LenProperties DEF Places, Tells

\* when a line that is no chat line is handled,
LEMMA HandledNothingNew ==
    ASSUME TypeOK, NEW d \in Client, toClient[d] # <<>>,
           toClient'[d] = Tail(toClient[d]),
           Head(toClient[d]).type # "chat_message",
           dash'[d].chatList = dash[d].chatList
    PROVE  NothingNew(d)
<1> DEFINE shown == dash[d].chatList
           q == toClient[d]
<1>1. PICK a, b \in Nat :
         /\ a = Len(shown) /\ b = Len(q)
         /\ Places(d) = 1 .. a + b /\ DOMAIN q = 1 .. b
         /\ \A i, t : Tells(d, i, t) <=> IF i <= a THEN shown[i].text = t
                                                   ELSE IsChat(q[i - a], t)
  BY ShownAndComing
<1>2. /\ q \in Seq(Reply) /\ b > 0 /\ Len(Tail(q)) = b - 1
      /\ \A i \in 1 .. b - 1 : Tail(q)[i] = q[i + 1]
  BY <1>1, ShownAndComing, QueueTail, LenProperties
<1>3. /\ Places(d)' = 1 .. a + (b - 1)
      /\ \A i, t : Tells(d, i, t)' <=> IF i <= a THEN shown[i].text = t
                                                 ELSE IsChat(Tail(q)[i - a], t)
  BY <1>1, <1>2 DEF Places, Tells
<1>4. ASSUME NEW i \in 1 .. a + (b - 1), NEW t \in ChatText, Tells(d, i, t)'
      PROVE  /\ i <= a => i \in Places(d) /\ Tells(d, i, t)
             /\ i > a => i + 1 \in Places(d) /\ Tells(d, i + 1, t)
  <2>1. i \in 1 .. a + b /\ i + 1 \in 1 .. a + b
    BY <1>2
  <2>2. i > a => /\ i - a \in 1 .. b - 1 /\ (i + 1) - a = (i - a) + 1
                 /\ ~(i <= a) /\ ~(i + 1 <= a)
    BY <1>2
  <2> QED
    BY <1>1, <1>2, <1>3, <1>4, <2>1, <2>2
<1>5. a + (b - 1) \in Nat
  BY <1>2
<1> HIDE DEF shown, q
<1> QED
  BY <1>3, <1>4, <1>5, SameOrder

\* when a chat line on its way gets shown,
LEMMA ShownNothingNew ==
    ASSUME TypeOK, NEW d \in Client, toClient[d] # <<>>,
           toClient'[d] = Tail(toClient[d]),
           NEW line, line = Head(toClient[d]), line.type = "chat_message",
           dash'[d].chatList = Append(dash[d].chatList,
                                 [sender |-> line.sender, text |-> line.text])
    PROVE  NothingNew(d)
<1> DEFINE shown == dash[d].chatList
           q == toClient[d]
           new == Append(shown, [sender |-> line.sender, text |-> line.text])
<1>1. PICK a, b \in Nat :
         /\ a = Len(shown) /\ b = Len(q)
         /\ Places(d) = 1 .. a + b /\ DOMAIN q = 1 .. b
         /\ \A i, t : Tells(d, i, t) <=> IF i <= a THEN shown[i].text = t
                                                   ELSE IsChat(q[i - a], t)
  BY ShownAndComing
<1>2. /\ q \in Seq(Reply) /\ b > 0 /\ Len(Tail(q)) = b - 1 /\ line = q[1]
      /\ \A i \in 1 .. b - 1 : Tail(q)[i] = q[i + 1]
  BY <1>1, ShownAndComing, QueueTail, LenProperties
<1>3. line.sender \in Name /\ line.text \in ChatText
  BY <1>1, <1>2, ReplyFields
<1>4. /\ Len(new) = a + 1 /\ new[a + 1].text = line.text
      /\ \A i \in 1 .. a : new[i] = shown[i]
  BY <1>1, <1>3, ShownAndComing, AppendProperties
<1>5. /\ Places(d)' = 1 .. (a + 1) + (b - 1)
      /\ \A i, t : Tells(d, i, t)' <=> IF i <= a + 1 THEN new[i].text = t
                                       ELSE IsChat(Tail(q)[i - (a + 1)], t)
  BY <1>2, <1>4 DEF Places, Tells
<1>6. (a + 1) + (b - 1) = a + b
  OBVIOUS
<1>7. ASSUME NEW i \in 1 .. a + b, NEW t \in ChatText, Tells(d, i, t)'
      PROVE  i \in Places(d) /\ Tells(d, i, t)
  <2>1. CASE i <= a
    <3>1. i \in 1 .. a /\ i <= a + 1 /\ i \in 1 .. a + b
      BY <2>1
    <3>2. new[i] = shown[i]
      BY <1>4, <3>1
    <3>3. new[i].text = t
      BY <1>5, <1>7, <3>1
    <3>4. shown[i].text = t
      BY <3>2, <3>3
    <3> QED
      BY <1>1, <2>1, <3>1, <3>4
  <2>2. CASE i = a + 1
    <3>1. line.text = t /\ i - a = 1 /\ ~(i <= a) /\ i <= a + 1
      BY <1>4, <1>5, <1>7, <2>2
    <3> QED
      BY <1>1, <1>2, <3>1 DEF IsChat
  <2>3. CASE i > a + 1
    <3>1. /\ i - (a + 1) \in 1 .. b - 1 /\ (i - (a + 1)) + 1 = i - a
          /\ ~(i <= a + 1) /\ ~(i <= a)
      BY <1>2, <2>3
    <3> QED
      BY <1>1, <1>2, <1>5, <1>7, <3>1
  <2> QED
    BY <2>1, <2>2, <2>3
<1> HIDE DEF shown, q, new
<1> QED
  BY <1>5, <1>6, <1>7, StillTold

\* when the end of what is coming is lost, or the window is closed,
LEMMA CutNothingNew ==
    ASSUME TypeOK, NEW d \in Client,
           \/ /\ dash'[d].chatList = dash[d].chatList
              /\ \E n \in 0 .. Len(toClient[d]) :
                    toClient'[d] = SubSeq(toClient[d], 1, n)
           \/ dash'[d].chatList = <<>> /\ toClient'[d] = <<>>
    PROVE  NothingNew(d)
<1> DEFINE shown == dash[d].chatList
           q == toClient[d]
<1>1. PICK a, b \in Nat :
         /\ a = Len(shown) /\ b = Len(q)
         /\ Places(d) = 1 .. a + b /\ DOMAIN q = 1 .. b
         /\ \A i, t : Tells(d, i, t) <=> IF i <= a THEN shown[i].text = t
                                                   ELSE IsChat(q[i - a], t)
  BY ShownAndComing
<1>2. ASSUME NEW n \in 0 .. b, toClient'[d] = SubSeq(q, 1, n),
             dash'[d].chatList = shown
      PROVE  NothingNew(d)
  <2>1. /\ Len(SubSeq(q, 1, n)) = n
        /\ \A i \in 1 .. n : SubSeq(q, 1, n)[i] = q[i]
    BY <1>1, ShownAndComing, QueuePrefix, LenProperties
  <2>2. /\ Places(d)' = 1 .. a + n
        /\ \A i, t : Tells(d, i, t)' <=>
              IF i <= a THEN shown[i].text = t
                        ELSE IsChat(SubSeq(q, 1, n)[i - a], t)
    BY <1>1, <1>2, <2>1 DEF Places, Tells
  <2>3. ASSUME NEW i \in 1 .. a + n, NEW t \in ChatText, Tells(d, i, t)'
        PROVE  i \in Places(d) /\ Tells(d, i, t)
    <3>1. i \in 1 .. a + b /\ (~(i <= a) => i - a \in 1 .. n)
      OBVIOUS
    <3> QED
      BY <1>1, <2>1, <2>2, <2>3, <3>1
  <2>4. a + n \in Nat
    OBVIOUS
  <2> HIDE DEF shown, q
  <2> QED
    BY <2>2, <2>3, <2>4, StillTold
<1>3. CASE dash'[d].chatList = <<>> /\ toClient'[d] = <<>>
  BY <1>3 DEF NothingNew, Told, Before, Places
<1> QED
  BY <1>1, <1>2, <1>3

\* What a client is told after one more bundle of lines.
LEMMA HeardPlaces ==
    ASSUME TypeOK, NEW d \in Client, dash'[d].chatList = dash[d].chatList,
           NEW s \in Seq(Reply), toClient'[d] = toClient[d] \o s
    PROVE  \E max, e \in Nat :
              /\ Places(d) = 1 .. max /\ Places(d)' = 1 .. max + e
              /\ e = Len(s)
              /\ \A i \in 1 .. max : \A t : Tells(d, i, t)' <=> Tells(d, i, t)
              /\ \A i \in 1 .. e : \A t : Tells(d, max + i, t)' <=> IsChat(s[i], t)
<1> DEFINE shown == dash[d].chatList
           q == toClient[d]
<1>1. PICK a, b \in Nat :
         /\ a = Len(shown) /\ b = Len(q)
         /\ Places(d) = 1 .. a + b /\ DOMAIN q = 1 .. b
         /\ \A i, t : Tells(d, i, t) <=> IF i <= a THEN shown[i].text = t
                                                   ELSE IsChat(q[i - a], t)
  BY ShownAndComing
<1>2. PICK e \in Nat : e = Len(s)
  BY LenProperties
<1>3. /\ Len(q \o s) = b + e
      /\ \A i \in 1 .. b : (q \o s)[i] = q[i]
      /\ \A i \in 1 .. e : (q \o s)[b + i] = s[i]
  <2>1. PICK r \in Seq(Reply) : r = q /\ Len(r) = b
    BY <1>1, ShownAndComing
  <2>2. Len(r \o s) = b + e
    BY <1>2, <2>1, QueueGrows
  <2>3. /\ \A i \in 1 .. b : (r \o s)[i] = r[i]
        /\ \A i \in 1 .. e : (r \o s)[b + i] = s[i]
    <3>1. /\ \A i \in 1 .. Len(r) : (r \o s)[i] = r[i]
          /\ \A i \in 1 .. Len(s) : (r \o s)[Len(r) + i] = s[i]
      BY QueueParts
    <3> QED
      BY <1>2, <2>1, <3>1
  <2> QED
    BY <2>1, <2>2, <2>3
<1>4. /\ Places(d)' = 1 .. a + (b + e)
      /\ \A i, t : Tells(d, i, t)' <=> IF i <= a THEN shown[i].text = t
                                       ELSE IsChat((q \o s)[i - a], t)
  BY <1>1, <1>3 DEF Places, Tells
<1>5. \A i \in 1 .. a + b : ~(i <= a) => i - a \in 1 .. b
  OBVIOUS
<1>6. \A i \in 1 .. e : (a + b) + i - a = b + i /\ ~((a + b) + i <= a)
  OBVIOUS
<1>7. a + (b + e) = (a + b) + e /\ a + b \in Nat
  OBVIOUS
<1>8. \A i \in 1 .. a + b : \A t : Tells(d, i, t)' <=> Tells(d, i, t)
  BY <1>1, <1>3, <1>4, <1>5
<1>9. ASSUME NEW i \in 1 .. e, NEW t
      PROVE  Tells(d, (a + b) + i, t)' <=> IsChat(s[i], t)
  <2>1. Tells(d, (a + b) + i, t)' <=> IsChat((q \o s)[b + i], t)
    <3>1. PICK k : k = (a + b) + i
      OBVIOUS
    <3>2. k - a = b + i /\ ~(k <= a)
      BY <3>1
    <3>3. Tells(d, k, t)' <=> IsChat((q \o s)[k - a], t)
      BY <1>4, <3>2
    <3> QED
      BY <3>1, <3>2, <3>3
  <2> QED
    BY <1>3, <2>1
<1> QED
  BY <1>1, <1>2, <1>4, <1>7, <1>8, <1>9

\* and when it hears no chat line.
LEMMA HeardNothingNew ==
    ASSUME TypeOK, NEW d \in Client, dash'[d].chatList = dash[d].chatList,
           NEW s \in Seq(Reply), toClient'[d] = toClient[d] \o s,
           \A m \in Lines(s) : m.type # "chat_message"
    PROVE  NothingNew(d)
<1>1. PICK max, e \in Nat :
              /\ Places(d) = 1 .. max /\ Places(d)' = 1 .. max + e
              /\ e = Len(s)
              /\ \A i \in 1 .. max : \A t : Tells(d, i, t)' <=> Tells(d, i, t)
              /\ \A i \in 1 .. e : \A t : Tells(d, max + i, t)' <=> IsChat(s[i], t)
  BY HeardPlaces
<1>2. \A i \in 1 .. e : \A t : ~IsChat(s[i], t)
  BY <1>1, LenProperties DEF Lines, IsChat
<1>3. ASSUME NEW i \in 1 .. max + e, NEW t \in ChatText, Tells(d, i, t)'
      PROVE  i \in Places(d) /\ Tells(d, i, t)
  <2>1. CASE i <= max
    BY <1>1, <1>3, <2>1
  <2>2. CASE i > max
    <3>1. PICK k \in 1 .. e : i = max + k
      <4>1. i - max \in 1 .. e /\ i = max + (i - max)
        BY <2>2
      <4> QED
        BY <4>1
    <3> QED
      BY <1>1, <1>2, <1>3, <3>1
  <2> QED
    BY <2>1, <2>2
<1>4. max + e \in Nat
  OBVIOUS
<1> QED
  BY <1>1, <1>3, <1>4, StillTold

\* Nothing is new when neither the chat nor the lines for d change.
LEMMA SameNothingNew ==
    ASSUME NEW d \in Client, dash'[d].chatList = dash[d].chatList,
           toClient'[d] = toClient[d]
    PROVE  NothingNew(d)
BY DEF NothingNew, Told, Before, Places, Tells

\* Nor do the chat lines on their way to the server,
NoNewAsk(d) ==
    \A t \in ChatText : /\ Asks(d, t)' => Asks(d, t)
                        /\ AsksOnce(d, t) => AsksOnce(d, t)'

\* when the last ones are lost, or what is added is no chat,
NoChatSent(d) ==
    \/ toServer'[d] = toServer[d]
    \/ \E n \in 0 .. Len(toServer[d]) :
          toServer'[d] = SubSeq(toServer[d], 1, n)
    \/ \E s \in Seq(Request) : /\ ~Has(s, "chat_message")
                               /\ toServer'[d] = toServer[d] \o s

\* or when one is read.
LEMMA AskedLess ==
    ASSUME TypeOK, NEW d \in Client,
           \/ NoChatSent(d)
           \/ toServer[d] # <<>> /\ toServer'[d] = Tail(toServer[d])
    PROVE  NoNewAsk(d)
<1> DEFINE q == toServer[d]
<1>1. q \in Seq(Request)
  BY DEF TypeOK, ProtocolTypeOK
<1>2. CASE toServer'[d] = q
  BY <1>2 DEF NoNewAsk, Asks, AsksOnce
<1>3. CASE q # <<>> /\ toServer'[d] = Tail(q)
  <2>1. \A i \in DOMAIN Tail(q) : /\ i \in Nat /\ i + 1 \in DOMAIN q
                                  /\ Tail(q)[i] = q[i + 1]
    BY <1>1, <1>3, QueueTail
  <2>2. \A i, j \in Nat : i + 1 = j + 1 => i = j
    OBVIOUS
  <2> HIDE DEF q
  <2>3. ASSUME NEW t \in ChatText, Asks(d, t)' PROVE Asks(d, t)
    BY <1>3, <2>1, <2>3 DEF Asks, q
  <2>4. ASSUME NEW t \in ChatText, AsksOnce(d, t) PROVE AsksOnce(d, t)'
    BY <1>3, <2>1, <2>2, <2>4 DEF AsksOnce, q
  <2> QED
    BY <2>3, <2>4 DEF NoNewAsk
<1>4. ASSUME NEW n \in 0 .. Len(q), toServer'[d] = SubSeq(q, 1, n)
      PROVE  NoNewAsk(d)
  BY <1>1, <1>4, QueuePrefix DEF NoNewAsk, Asks, AsksOnce
<1>5. ASSUME NEW s \in Seq(Request), ~Has(s, "chat_message"),
             toServer'[d] = q \o s
      PROVE  NoNewAsk(d)
  <2>1. \A i \in DOMAIN (q \o s) : \A t :
           IsChat((q \o s)[i], t) => i \in DOMAIN q /\ (q \o s)[i] = q[i]
    BY <1>1, <1>5, QueueGrows DEF Has, IsChat
  <2> QED
    BY <1>5, <2>1 DEF NoNewAsk, Asks, AsksOnce
<1> QED
  BY <1>2, <1>3, <1>4, <1>5 DEF NoChatSent

\* A client that writes no chat line sends none.
LEMMA WritesNoChat ==
    ASSUME TypeOK, NEW c \in Client, NEW msgs \in Seq(Request),
           Writes(c, msgs), ~Has(msgs, "chat_message")
    PROVE  NoChatSent(c)
BY WritesThrough DEF NoChatSent

\* Then the order stays as it is.
LEMMA KeepsChat ==
    ASSUME ChatInOrder, said' = said,
           \A d \in Client : NothingNew(d) /\ NoNewAsk(d)
    PROVE  ChatInOrder'
BY DEF ChatInOrder, NothingNew, NoNewAsk

\* What the user does, short of chatting.
LEMMA ActionKeepsChat ==
    ASSUME TypeOK, NEW c \in Client, UserAction(c)
    PROVE  NothingNew(c) /\ NoChatSent(c)
<1>1. CASE Launch(c) \/ LaunchAlone(c)
  BY <1>1, SameNothingNew DEF Launch, LaunchAlone, clientVars, NoChatSent
<1>2. CASE CloseWindow(c)
  <2>1. dash'[c].chatList = <<>> /\ toClient'[c] = <<>>
    BY <1>2 DEF CloseWindow, DashboardWidget, TypeOK, ProtocolTypeOK, ClientTypeOK
  <2>2. \E n \in 0 .. Len(toServer[c]) : toServer'[c] = SubSeq(toServer[c], 1, n)
    BY <1>2 DEF CloseWindow, TypeOK, ProtocolTypeOK
  <2> QED
    BY <2>1, <2>2, CutNothingNew DEF NoChatSent
<1>3. ASSUME NEW msgs \in Seq(Request), ~Has(msgs, "chat_message"),
             Sends(c, msgs), UNCHANGED dash
      PROVE  NothingNew(c) /\ NoChatSent(c)
  BY <1>3, SameNothingNew, WritesNoChat DEF Sends
<1>4. \A m \in Request : /\ <<m>> \in Seq(Request)
                         /\ m.type # "chat_message" => ~Has(<<m>>, "chat_message")
  BY DEF Has
<1>5. /\ GetRooms \in Request /\ GetRooms.type = "get_rooms"
      /\ LeaveRoom \in Request /\ LeaveRoom.type = "leave_room"
      /\ <<LeaveRoom, GetRooms>> \in Seq(Request)
      /\ ~Has(<<LeaveRoom, GetRooms>>, "chat_message")
  BY RequestValues DEF GetRooms, LeaveRoom, Has
<1>6. ASSUME NEW u \in User, NEW p \in Password, LogIn(c, u, p) \/ Register(c, u, p)
      PROVE  NothingNew(c) /\ NoChatSent(c)
  <2>1. /\ LoginMsg(u, p) \in Request /\ LoginMsg(u, p).type = "login"
        /\ RegisterMsg(u, p) \in Request /\ RegisterMsg(u, p).type = "register"
    BY RequestValues DEF LoginMsg, RegisterMsg
  <2>2. /\ UNCHANGED dash
        /\ Sends(c, <<LoginMsg(u, p)>>) \/ Sends(c, <<RegisterMsg(u, p)>>)
    BY <1>6 DEF LogIn, onLoginAttempt, Register, onRegisterAttempt
  <2> QED
    BY <1>3, <1>4, <2>1, <2>2
<1>7. CASE CloseNewRoomDialog(c)
  <2>1. [type |-> "create_room"] \in Request
    BY RequestValues
  <2>2. /\ UNCHANGED dash
        /\ Sends(c, <<[type |-> "create_room"]>>) \/ UNCHANGED protocolVars
    BY <1>7 DEF CloseNewRoomDialog
  <2>3. CASE UNCHANGED protocolVars
    BY <2>2, <2>3, SameNothingNew DEF protocolVars, NoChatSent
  <2> QED
    BY <1>3, <1>4, <2>1, <2>2, <2>3
<1>8. ASSUME NEW r \in window[c].roomList, onJoinClicked(c, r)
      PROVE  NothingNew(c) /\ NoChatSent(c)
  <2>1. r \in Nat
    BY DEF TypeOK, ClientTypeOK, Window
  <2>2. [type |-> "join_room", room_id |-> r] \in Request
    BY <2>1, RequestValues
  <2>3. Sends(c, <<[type |-> "join_room", room_id |-> r]>>) /\ UNCHANGED dash
    BY <1>8 DEF onJoinClicked, clientVars
  <2> QED
    BY <1>3, <1>4, <2>2, <2>3
<1>9. CASE refresh(c) \/ BackToRooms(c) \/ logout(c)
  <2>1. /\ UNCHANGED dash
        /\ \/ Sends(c, <<GetRooms>>) \/ Sends(c, <<LeaveRoom>>)
           \/ Sends(c, <<LeaveRoom, GetRooms>>)
    BY <1>9 DEF refresh, BackToRooms, logout, clientVars
  <2> QED
    BY <1>3, <1>4, <1>5, <2>1
<1>10. CASE \/ GoToRegister(c) \/ GoToLogin(c) \/ OpenNewRoomDialog(c)
            \/ OpenTasks(c) \/ CloseTasks(c) \/ \E t \in Text : EditCode(c, t)
  <2>1. UNCHANGED protocolVars /\ dash'[c].chatList = dash[c].chatList
    BY <1>10
    DEF GoToRegister, GoToLogin, OpenNewRoomDialog, OpenTasks, CloseTasks,
        EditCode, TypeOK, ClientTypeOK, Dash
  <2> QED
    BY <2>1, SameNothingNew DEF protocolVars, NoChatSent
<1> QED
  BY <1>1, <1>2, <1>6, <1>7, <1>8, <1>9, <1>10 DEF UserAction

\* What the editor's timer and the server's messages do.
LEMMA TimerKeepsChat ==
    ASSUME TypeOK, NEW c \in Client, codeSyncTriggered(c)
    PROVE  NothingNew(c) /\ NoChatSent(c)
<1> DEFINE m == [type |-> "code_update", code |-> dash[c].editor,
                 room_id |-> window[c].currentRoomId]
<1>1. dash[c].editor \in Text /\ window[c].currentRoomId \in Nat
  BY DEF TypeOK, ClientTypeOK, Dash, Window
<1>2. m \in Request /\ m.type = "code_update"
  BY <1>1, RequestValues
<1>3. Sends(c, <<m>>) /\ dash'[c].chatList = dash[c].chatList
  BY DEF codeSyncTriggered, TypeOK, ClientTypeOK, Dash
<1>4. <<m>> \in Seq(Request) /\ ~Has(<<m>>, "chat_message")
  BY <1>2 DEF Has
<1> HIDE DEF m
<1> QED
  BY <1>3, <1>4, SameNothingNew, WritesNoChat DEF Sends

\* Whatever a window handles is not new to it, and it sends no chat.
LEMMA DispatchKeepsChat ==
    ASSUME TypeOK, NEW c \in Client, dispatch(c)
    PROVE  NothingNew(c) /\ NoChatSent(c)
<1>1. toClient[c] # <<>> /\ toClient'[c] = Tail(toClient[c])
  BY DEF dispatch, loginSuccess, loginFailed, registerSuccess, registerFailed,
         onRoomList, roomEntered, onJoinFailed, memberListReceived, userJoined,
         userLeft, codeUpdated, chatReceived, Receives, TypeOK, ProtocolTypeOK
<1>2. CASE chatReceived(c)
  <2> DEFINE m == Head(toClient[c])
  <2>1. /\ m.type = "chat_message" /\ UNCHANGED toServer
        /\ dash'[c].chatList = Append(dash[c].chatList,
                                      [sender |-> m.sender, text |-> m.text])
    BY <1>2 DEF chatReceived, Receives, TypeOK, ClientTypeOK, Dash
  <2> HIDE DEF m
  <2> QED
    BY <1>1, <2>1, ShownNothingNew DEF m, NoChatSent
<1>3. CASE loginSuccess(c) \/ userLeft(c)
  <2>1. /\ Head(toClient[c]).type # "chat_message"
        /\ Writes(c, <<GetRooms>>) /\ UNCHANGED dash
    BY <1>3 DEF loginSuccess, userLeft, Receives, clientVars
  <2>2. <<GetRooms>> \in Seq(Request) /\ ~Has(<<GetRooms>>, "chat_message")
    BY RequestValues DEF GetRooms, Has
  <2> QED
    BY <1>1, <2>1, <2>2, HandledNothingNew, WritesNoChat
<1>4. CASE \/ loginFailed(c) \/ registerSuccess(c) \/ registerFailed(c)
           \/ onRoomList(c) \/ roomEntered(c) \/ onJoinFailed(c)
           \/ memberListReceived(c) \/ userJoined(c) \/ codeUpdated(c)
  <2>1. Head(toClient[c]).type # "chat_message" /\ UNCHANGED toServer
    BY <1>4
    DEF loginFailed, registerSuccess, registerFailed, onRoomList, roomEntered,
        onJoinFailed, memberListReceived, userJoined, codeUpdated, Receives
  <2>2. dash'[c].chatList = dash[c].chatList
    BY <1>4
    DEF loginFailed, registerSuccess, registerFailed, onRoomList, roomEntered,
        onJoinFailed, memberListReceived, userJoined, codeUpdated,
        applyRemoteCode, clientVars, TypeOK, ClientTypeOK, Dash
  <2> QED
    BY <1>1, <2>1, <2>2, HandledNothingNew DEF NoChatSent
<1> QED
  BY <1>2, <1>3, <1>4 DEF dispatch

\* What the server does, short of relaying a chat line, and its restart.
LEMMA ServerKeepsChat ==
    ASSUME TypeOK, NEW c \in Client, ServerTurn(c), ~HandleChatMessage(c),
           NEW d \in Client
    PROVE  NothingNew(d) /\ NoNewAsk(d)
<1>1. ServerStep(c) /\ dash' = dash
  BY DEF ServerTurn, clientVars
<1>2. ~Reads(c, "chat_message")
  BY <1>1
  DEF ServerStep, HandleSessionRestore, HandleRegister, HandleLogin,
      HandleGetRooms, HandleCreateRoom, HandleJoinRoom, HandleLeaveRoom,
      HandleCodeUpdate, SkipMalformed, HandleDisconnect, Reads
<1>3. PICK out \in Outgoing : Post(out) /\ Carries(c, out)
  BY <1>1, ServerNews
<1>4. /\ out[d] \in Seq(Reply)
      /\ toClient'[d] = IF conn[d] = "open" THEN toClient[d] \o out[d]
                                            ELSE toClient[d]
  BY <1>3, PostReaches
<1>5. \A m \in Lines(out[d]) : m.type # "chat_message"
  BY <1>2, <1>3 DEF Carries, Fits
<1>6. NothingNew(d)
  BY <1>1, <1>4, <1>5, HeardNothingNew, SameNothingNew
<1>7. \/ toServer' = toServer
      \/ toServer[c] # <<>> /\ toServer' = [toServer EXCEPT ![c] = Tail(@)]
  BY <1>1
  DEF ServerStep, HandleSessionRestore, HandleRegister, HandleLogin,
      HandleGetRooms, HandleCreateRoom, HandleJoinRoom, HandleLeaveRoom,
      HandleCodeUpdate, HandleChatMessage, SkipMalformed, HandleDisconnect,
      Reads
<1>8. \/ toServer'[d] = toServer[d]
      \/ toServer[d] # <<>> /\ toServer'[d] = Tail(toServer[d])
  BY <1>7 DEF TypeOK, ProtocolTypeOK
<1> QED
  BY <1>6, <1>8, AskedLess DEF NoChatSent

\* The death of the server tells nobody anything new.
LEMMA RestartKeepsChat ==
    ASSUME TypeOK, Restart, NEW d \in Client
    PROVE  NothingNew(d) /\ NoNewAsk(d)
<1>1. /\ dash' = dash /\ toServer'[d] = <<>>
      /\ \E n \in 0 .. Len(toClient[d]) :
            toClient'[d] = SubSeq(toClient[d], 1, n)
  BY DEF Restart, ServerRestarts, Beginnings, clientVars
<1>2. NoNewAsk(d)
  BY <1>1 DEF NoNewAsk, Asks, AsksOnce
<1> QED
  BY <1>1, <1>2, CutNothingNew

\* Whoever is told two lines in an order is told both.
LEMMA ToldBoth ==
    ASSUME TypeOK, NEW d \in Client, NEW s, NEW t, Before(d, s, t)
    PROVE  Told(d, s) /\ Told(d, t)
<1>1. PICK a, b \in Nat : Places(d) = 1 .. a + b
  BY ShownAndComing
<1>2. PICK j \in 1 .. a + b : /\ Tells(d, j, t)
                              /\ \E i \in 1 .. j - 1 : Tells(d, i, s)
  BY <1>1 DEF Before
<1>3. \A i \in 1 .. j - 1 : i \in 1 .. a + b
  OBVIOUS
<1> QED
  BY <1>1, <1>2, <1>3 DEF Told

\* A relayed line comes last at everybody it reaches.
LEMMA RelayedLast ==
    ASSUME TypeOK, NEW c \in Client, HandleChatMessage(c), dash' = dash,
           NEW text, text = Head(toServer[c]).text, NEW d \in Client
    PROVE  /\ \A t : Told(d, t)' => Told(d, t) \/ t = text
           /\ \A s, t : Before(d, s, t)' =>
                 Before(d, s, t) \/ (t = text /\ Told(d, s))
<1> DEFINE m == Head(toServer[c])
<1>1. Reads(c, "chat_message")
  BY DEF HandleChatMessage
<1>2. m \in Reply
  BY <1>1, ReadsType, RequestFields DEF TypeOK
<1>3. \/ toClient'[d] = toClient[d]
      \/ toClient'[d] = toClient[d] \o <<m>>
  <2>1. CASE UNCHANGED toClient
    BY <2>1
  <2>2. ASSUME NEW S, Post(To(S, m))
        PROVE  \/ toClient'[d] = toClient[d]
               \/ toClient'[d] = toClient[d] \o <<m>>
    <3>1. toClient'[d] = IF conn[d] = "open" THEN toClient[d] \o To(S, m)[d]
                                             ELSE toClient[d]
      BY <2>2 DEF Post
    <3>2. toClient[d] \o <<>> = toClient[d]
      BY ConcatEmptySeq DEF TypeOK, ProtocolTypeOK
    <3> QED
      BY <3>1, <3>2 DEF To
  <2> QED
    BY <2>1, <2>2 DEF HandleChatMessage, broadcastToRoom
<1>4. CASE toClient'[d] = toClient[d]
  BY <1>4 DEF Told, Before, Places, Tells
<1>5. CASE toClient'[d] = toClient[d] \o <<m>>
  <2>1. <<m>> \in Seq(Reply) /\ Len(<<m>>) = 1 /\ <<m>>[1] = m
    BY <1>2
  <2>2. PICK max, e \in Nat :
              /\ Places(d) = 1 .. max /\ Places(d)' = 1 .. max + e
              /\ e = Len(<<m>>)
              /\ \A i \in 1 .. max : \A t : Tells(d, i, t)' <=> Tells(d, i, t)
              /\ \A i \in 1 .. e : \A t :
                    Tells(d, max + i, t)' <=> IsChat(<<m>>[i], t)
    BY <1>5, <2>1, HeardPlaces
  <2>3. e = 1 /\ \A t : Tells(d, max + 1, t)' => t = text
    BY <2>1, <2>2 DEF IsChat
  <2>4. \A i \in 1 .. max + 1 : i \in 1 .. max \/ i = max + 1
    OBVIOUS
  <2>5. ASSUME NEW t, Told(d, t)', t # text PROVE Told(d, t)
    <3>1. PICK i \in 1 .. max + 1 : Tells(d, i, t)'
      BY <2>2, <2>3, <2>5 DEF Told
    <3>2. i \in 1 .. max
      BY <2>3, <2>4, <2>5, <3>1
    <3> QED
      BY <2>2, <3>1, <3>2 DEF Told
  <2>6. ASSUME NEW s, NEW t, Before(d, s, t)'
        PROVE  Before(d, s, t) \/ (t = text /\ Told(d, s))
    <3>1. PICK j \in 1 .. max + 1 : /\ Tells(d, j, t)'
                                    /\ \E i \in 1 .. j - 1 : Tells(d, i, s)'
      BY <2>2, <2>3, <2>6 DEF Before
    <3>2. PICK i \in 1 .. j - 1 : Tells(d, i, s)'
      BY <3>1
    <3>3. i \in 1 .. max
      OBVIOUS
    <3>4. Tells(d, i, s)
      BY <2>2, <3>2, <3>3
    <3>5. CASE j \in 1 .. max
      BY <2>2, <3>1, <3>2, <3>4, <3>5 DEF Before
    <3>6. CASE j = max + 1
      BY <2>2, <2>3, <3>1, <3>3, <3>4, <3>6 DEF Told
    <3> QED
      BY <2>4, <3>5, <3>6
  <2> QED
    BY <2>5, <2>6
<1> QED
  BY <1>3, <1>4, <1>5

\* Which nobody had been told, and nobody asks for again.
LEMMA RelayInOrder ==
    ASSUME TypeOK, ChatInOrder, NEW c \in Client, ServerTurn(c),
           HandleChatMessage(c)
    PROVE  ChatInOrder'
<1>1. /\ Reads(c, "chat_message") /\ said' = said /\ dash' = dash
      /\ toServer[c] \in Seq(Request)
  BY DEF HandleChatMessage, ServerTurn, clientVars, TypeOK, ProtocolTypeOK
<1>2. PICK text \in ChatText : text = Head(toServer[c]).text
  BY <1>1, ReadsType, RequestFields, ReplyFields DEF TypeOK
<1>3. 1 \in DOMAIN toServer[c] /\ IsChat(toServer[c][1], text)
  BY <1>1, <1>2, QueueTail DEF Reads, IsChat
<1>4. /\ \A d \in Client : ~Told(d, text)
      /\ \A d \in Client : Asks(d, text) => d = c
      /\ AsksOnce(c, text) /\ text \in said
  <2>1. Asks(c, text)
    BY <1>3 DEF Asks
  <2> QED
    BY <1>2, <2>1 DEF ChatInOrder
<1>5. \A d \in Client : NoNewAsk(d)
  BY <1>1, AskedLess DEF NoChatSent, Reads, TypeOK, ProtocolTypeOK
<1>6. \A d \in Client : ~Asks(d, text)'
  <2>1. ~Asks(c, text)'
    <3>1. \A i \in DOMAIN Tail(toServer[c]) :
             /\ i \in Nat \ {0} /\ i + 1 \in DOMAIN toServer[c]
             /\ Tail(toServer[c])[i] = toServer[c][i + 1]
      BY <1>1, QueueTail, LenProperties DEF Reads
    <3>2. \A i \in Nat \ {0} : i + 1 # 1
      OBVIOUS
    <3>3. toServer'[c] = Tail(toServer[c])
      BY <1>1 DEF Reads, TypeOK, ProtocolTypeOK
    <3>4. ASSUME NEW i \in DOMAIN Tail(toServer[c])
          PROVE  ~IsChat(Tail(toServer[c])[i], text)
      BY <1>3, <1>4, <3>1, <3>2 DEF AsksOnce
    <3> QED
      BY <3>3, <3>4 DEF Asks
  <2>2. \A d \in Client \ {c} : ~Asks(d, text)'
    BY <1>2, <1>4, <1>5 DEF NoNewAsk
  <2> QED
    BY <2>1, <2>2
<1>7. \A d \in Client :
         /\ \A t : Told(d, t)' => Told(d, t) \/ t = text
         /\ \A s, t : Before(d, s, t)' =>
               Before(d, s, t) \/ (t = text /\ Told(d, s))
  BY <1>1, <1>2, RelayedLast
<1>8. ASSUME NEW a \in Client, NEW b \in Client, NEW s \in ChatText,
             NEW t \in ChatText, Before(a, s, t)', Before(b, t, s)'
      PROVE  FALSE
  <2>1. \/ Before(a, s, t) /\ Told(a, s) /\ Told(a, t)
        \/ t = text /\ Told(a, s)
    BY <1>7, <1>8, ToldBoth
  <2>2. \/ Before(b, t, s) /\ Told(b, t) /\ Told(b, s)
        \/ s = text /\ Told(b, t)
    BY <1>7, <1>8, ToldBoth
  <2> QED
    BY <1>4, <2>1, <2>2 DEF ChatInOrder
<1>9. ASSUME NEW a \in Client, NEW b \in Client, NEW t \in ChatText, Asks(a, t)'
      PROVE  /\ Asks(b, t)' => a = b /\ AsksOnce(a, t)'
             /\ ~Told(b, t)'
             /\ t \in said
  <2>1. Asks(a, t) /\ t # text
    BY <1>5, <1>6, <1>9 DEF NoNewAsk
  <2>2. ~Told(b, t)' /\ t \in said
    BY <1>7, <2>1 DEF ChatInOrder
  <2>3. ASSUME Asks(b, t)' PROVE a = b /\ AsksOnce(a, t)'
    <3>1. Asks(b, t)
      BY <1>5, <2>3 DEF NoNewAsk
    <3>2. a = b /\ AsksOnce(a, t)
      BY <2>1, <3>1 DEF ChatInOrder
    <3> QED
      BY <1>5, <3>2 DEF NoNewAsk
  <2> QED
    BY <2>2, <2>3
<1>10. ASSUME NEW a \in Client, NEW t \in ChatText, Told(a, t)'
       PROVE  t \in said
  BY <1>4, <1>7, <1>10 DEF ChatInOrder
<1> QED
  BY <1>1, <1>8, <1>9, <1>10 DEF ChatInOrder

\* Nobody has seen or asked for a line its author now types.
LEMMA ChatStaysInOrder ==
    ASSUME TypeOK, ChatInOrder, NEW c \in Client, NEW text \in ChatText,
           UserStep(c), Chat(c, text), said' = said \cup {text}
    PROVE  ChatInOrder'
<1> DEFINE m == [type |-> "chat_message", sender |-> window[c].currentUser,
                 room_id |-> window[c].currentRoomId, text |-> text]
           q == toServer[c]
<1>1. /\ text \notin said /\ Sends(c, <<m>>) /\ dash' = dash
      /\ toClient' = toClient
  BY DEF Chat, sendChat, Sends, clientVars
<1>2. m \in Request /\ <<m>> \in Seq(Request)
  BY RequestValues DEF TypeOK, ClientTypeOK, Window
<1>3. PICK s \in Seq(Request) : /\ s # <<>> => s = <<m>>
                                /\ toServer'[c] = q \o s
  BY <1>1, <1>2, WritesThrough DEF Sends
<1>4. /\ q \in Seq(Request)
      /\ \A d \in Client \ {c} : toServer'[d] = toServer[d]
  BY OthersApart DEF TypeOK, ProtocolTypeOK
<1>5. \A d \in Client : \A s1, t1 :
         /\ Told(d, t1)' <=> Told(d, t1)
         /\ Before(d, s1, t1)' <=> Before(d, s1, t1)
  BY <1>1 DEF Told, Before, Places, Tells
<1>6. \A d \in Client : ~Told(d, text) /\ ~Asks(d, text)
  BY <1>1 DEF ChatInOrder
<1>7. \A i \in DOMAIN (q \o s) :
         \/ i \in DOMAIN q /\ (q \o s)[i] = q[i]
         \/ i = Len(q) + 1 /\ (q \o s)[i] = m
  <2>1. \A i \in DOMAIN s : i = 1 /\ s[i] = m
    BY <1>3, LenProperties
  <2>2. Len(q) \in Nat /\ \A i \in DOMAIN (q \o s) : i \in Nat
    BY <1>2, <1>3, <1>4, QueueGrows, LenProperties
  <2>3. \A i \in Nat : i - Len(q) = 1 => i = Len(q) + 1
    BY <2>2
  <2> HIDE DEF m, q
  <2>4. ASSUME NEW i \in DOMAIN (q \o s), i \notin DOMAIN q
        PROVE  i = Len(q) + 1 /\ (q \o s)[i] = m
    <3>1. i - Len(q) \in DOMAIN s /\ (q \o s)[i] = s[i - Len(q)]
      BY <1>4, <2>4, QueueGrows DEF q
    <3> QED
      BY <2>1, <2>2, <2>3, <3>1
  <2>5. \A i \in DOMAIN (q \o s) : i \in DOMAIN q => (q \o s)[i] = q[i]
    BY <1>4, QueueGrows DEF q
  <2> QED
    BY <2>4, <2>5
<1>8. \A t \in ChatText :
         /\ t # text => /\ Asks(c, t)' => Asks(c, t)
                        /\ AsksOnce(c, t) => AsksOnce(c, t)'
         /\ AsksOnce(c, text)'
  <2>1. \A t : IsChat(m, t) => t = text
    BY DEF IsChat
  <2> HIDE DEF m, q
  <2>2. \A i \in DOMAIN (q \o s) : \A t : IsChat((q \o s)[i], t) /\ t # text =>
           i \in DOMAIN q /\ IsChat(q[i], t)
    BY <1>7, <2>1
  <2>3. \A i \in DOMAIN (q \o s) : IsChat((q \o s)[i], text) => i = Len(q) + 1
    BY <1>6, <1>7 DEF Asks, q
  <2>4. AsksOnce(c, text)'
    BY <1>3, <2>3 DEF AsksOnce
  <2>5. ASSUME NEW t \in ChatText, t # text
        PROVE  /\ Asks(c, t)' => Asks(c, t)
               /\ AsksOnce(c, t) => AsksOnce(c, t)'
    <3>1. \A i \in DOMAIN (q \o s) : IsChat((q \o s)[i], t) =>
             i \in DOMAIN q /\ IsChat(q[i], t) /\ (q \o s)[i] = q[i]
      BY <1>7, <2>1, <2>5
    <3>2. Asks(c, t)' => Asks(c, t)
      BY <1>3, <3>1 DEF Asks, q
    <3>3. AsksOnce(c, t) => AsksOnce(c, t)'
      BY <1>3, <3>1 DEF AsksOnce, q
    <3> QED
      BY <3>2, <3>3
  <2> QED
    BY <2>4, <2>5
<1>9. \A d \in Client \ {c}, t \in ChatText :
         /\ Asks(d, t)' <=> Asks(d, t)
         /\ AsksOnce(d, t)' <=> AsksOnce(d, t)
  BY <1>4 DEF Asks, AsksOnce
<1>10. \A d \in Client, t \in ChatText :
          t # text => (Asks(d, t)' => Asks(d, t)) /\ (AsksOnce(d, t) => AsksOnce(d, t)')
  BY <1>8, <1>9
<1>11. \A d \in Client \ {c} : ~Asks(d, text)'
  BY <1>6, <1>9
<1> HIDE DEF m, q
<1>12. ASSUME NEW a \in Client, NEW b \in Client, NEW t \in ChatText, Asks(a, t)'
       PROVE  /\ Asks(b, t)' => a = b /\ AsksOnce(a, t)'
              /\ ~Told(b, t)'
              /\ t \in said'
  <2>1. CASE t = text
    BY <1>5, <1>6, <1>8, <1>11, <1>12, <2>1
  <2>2. CASE t # text
    BY <1>5, <1>10, <1>12, <2>2 DEF ChatInOrder
  <2> QED
    BY <2>1, <2>2
<1> QED
  BY <1>5, <1>12 DEF ChatInOrder

\* Every step.
LEMMA NextChatInOrder ==
    ASSUME TypeOK, ChatInOrder, [Next]_vars
    PROVE  ChatInOrder'
<1>1. ASSUME NEW c \in Client,
             ClientTurn(c) \/ TimerTurn(c) \/ (UserStep(c) /\ UserAction(c)),
             said' = said
      PROVE  ChatInOrder'
  <2>1. NothingNew(c) /\ NoNewAsk(c)
    BY <1>1, DispatchKeepsChat, TimerKeepsChat, ActionKeepsChat, AskedLess
    DEF ClientTurn, TimerTurn
  <2>2. ASSUME NEW d \in Client \ {c} PROVE NothingNew(d) /\ NoNewAsk(d)
    BY <1>1, OthersApart, SameNothingNew, AskedLess DEF NoChatSent
  <2> QED
    BY <1>1, <2>1, <2>2, KeepsChat
<1>2. ASSUME NEW c \in Client, UserStep(c) PROVE ChatInOrder'
  BY <1>1, <1>2, ChatStaysInOrder DEF UserStep
<1>3. ASSUME NEW c \in Client, ServerTurn(c) PROVE ChatInOrder'
  <2>1. CASE ~HandleChatMessage(c)
    BY <1>3, <2>1, ServerKeepsChat, KeepsChat DEF ServerTurn
  <2> QED
    BY <1>3, <2>1, RelayInOrder
<1>4. CASE Restart
  BY <1>4, RestartKeepsChat, KeepsChat DEF Restart
<1>5. CASE UNCHANGED vars
  BY <1>5, SameNothingNew, AskedLess, KeepsChat
  DEF vars, protocolVars, clientVars, NoChatSent
<1> QED
  BY <1>1, <1>2, <1>3, <1>4, <1>5 DEF Next, ClientTurn, TimerTurn

(***************************************************************************)
(* Whatever the clients do, and however often the server is restarted, no  *)
(* two of them are told two chat lines in different orders, and a line on  *)
(* its way to the server has been told to nobody: one server relays each   *)
(* line once, in one step, behind all it has relayed before                *)
(* (server.cpp:302-306).                                                   *)
(***************************************************************************)
THEOREM ChatAlwaysInOrder == Spec => []ChatInOrder
<1>1. Init => ChatInOrder
  <2> SUFFICES ASSUME Init PROVE ChatInOrder
    OBVIOUS
  <2>1. ASSUME NEW d \in Client, NEW t
        PROVE  ~Told(d, t) /\ ~Asks(d, t) /\ \A s : ~Before(d, s, t)
    <3>1. dash[d].chatList = <<>> /\ toClient[d] = <<>> /\ toServer[d] = <<>>
      BY DEF Init, ProtocolInit, ClientInit, DashboardWidget
    <3> QED
      BY <3>1 DEF Told, Asks, Before, Places
  <2> QED
    BY <2>1 DEF ChatInOrder
<1>2. TypeOK /\ ChatInOrder /\ [Next]_vars => ChatInOrder'
  BY NextChatInOrder
<1> QED
  BY <1>1, <1>2, TypeCorrect, PTL DEF Spec

(***************************************************************************)
(* So any two chat panels show the lines they share in the same order, the *)
(* sender's own included, and no panel shows a line twice.                 *)
(***************************************************************************)
THEOREM ChatKeepsOrder == Spec => []ChatSameOrder
<1>1. TypeOK /\ ChatInOrder => ChatSameOrder
  <2> SUFFICES ASSUME TypeOK, ChatInOrder,
                      NEW c \in Client, NEW d \in Client,
                      NEW i \in DOMAIN dash[c].chatList,
                      NEW j \in DOMAIN dash[c].chatList,
                      NEW k \in DOMAIN dash[d].chatList,
                      NEW l \in DOMAIN dash[d].chatList,
                      i < j, ~(k < l),
                      dash[c].chatList[i] = dash[d].chatList[k],
                      dash[c].chatList[j] = dash[d].chatList[l]
               PROVE  FALSE
    BY DEF ChatSameOrder
  <2>1. ASSUME NEW e \in Client, NEW n \in DOMAIN dash[e].chatList
        PROVE  /\ n \in Nat \ {0} /\ n \in Places(e)
               /\ Tells(e, n, dash[e].chatList[n].text)
               /\ dash[e].chatList[n].text \in ChatText
    <3>1. PICK a, b \in Nat :
             /\ a = Len(dash[e].chatList) /\ b = Len(toClient[e])
             /\ Places(e) = 1 .. a + b /\ DOMAIN toClient[e] = 1 .. b
             /\ \A p, t : Tells(e, p, t) <=>
                   IF p <= a THEN dash[e].chatList[p].text = t
                             ELSE IsChat(toClient[e][p - a], t)
      BY ShownAndComing
    <3>2. /\ n \in 1 .. a
          /\ dash[e].chatList[n] \in [sender : Name, text : ChatText]
      BY <3>1, ShownAndComing, LenProperties, ElementOfSeq
    <3>3. n \in Nat \ {0} /\ n \in 1 .. a + b /\ n <= a
      BY <3>2
    <3> QED
      BY <3>1, <3>2, <3>3
  <2> DEFINE s == dash[c].chatList[i].text
             t == dash[c].chatList[j].text
  <2>2. /\ Tells(c, i, s) /\ Tells(c, j, t) /\ Tells(d, k, s) /\ Tells(d, l, t)
        /\ i \in Nat \ {0} /\ j \in Nat \ {0} /\ k \in Nat \ {0} /\ l \in Nat \ {0}
        /\ j \in Places(c) /\ k \in Places(d)
        /\ s \in ChatText /\ t \in ChatText
    BY <2>1
  <2> HIDE DEF s, t
  <2>3. Before(c, s, t)
    <3>1. i \in 1 .. j - 1
      BY <2>2
    <3> QED
      BY <2>2, <3>1 DEF Before
  <2>4. CASE l < k
    <3>1. l \in 1 .. k - 1
      BY <2>2, <2>4
    <3>2. Before(d, t, s)
      BY <2>2, <3>1 DEF Before
    <3> QED
      BY <2>2, <2>3, <3>2 DEF ChatInOrder
  <2>5. CASE l = k
    <3>1. s = t
      BY <2>5 DEF s, t
    <3> QED
      BY <2>2, <2>3, <3>1 DEF ChatInOrder
  <2> QED
    BY <2>2, <2>4, <2>5
<1> QED
  BY <1>1, TypeCorrect, ChatAlwaysInOrder, PTL

-----------------------------------------------------------------------------
\* The member list.

\* Who is in c's room, and the last list among the lines of a queue.
NamesIn(r) == {username[d] : d \in InRoom(r)}
Own(c) == NamesIn(current_room[c])

LastList(queue, i) ==
    /\ queue[i].type = "member_list"
    /\ \A j \in DOMAIN queue : j > i => queue[j].type # "member_list"

\* The last list on its way to c, or else the one c shows, is that of its room.
ListComing(c) ==
    conn[c] = "open" /\ current_room[c] # NoRoom =>
        /\ ~Has(toClient[c], "member_list") => dash[c].members = Own(c)
        /\ \A i \in DOMAIN toClient[c] :
              LastList(toClient[c], i) => toClient[c][i].members = Own(c)

ListsComing == \A c \in Client : ListComing(c)

\* What a server step sends d: a new list last, or no list when none is due.
ListNews(d, out) ==
    \/ /\ ~Has(out[d], "member_list")
       /\ current_room[d] # NoRoom /\ Own(d)' = Own(d)
    \/ \E s \in Seq(Reply), m \in Reply :
          /\ out[d] = s \o <<m>>
          /\ m.type = "member_list" /\ m.members = Own(d)'

ListsDue(out) ==
    \A d \in Client : current_room'[d] # NoRoom => ListNews(d, out)

\* Where a line that is added to a queue is.
LEMMA QueueEndsWith ==
    ASSUME NEW S, NEW q \in Seq(S), NEW m \in S
    PROVE  /\ q \o <<m>> \in Seq(S) /\ Len(q) \in Nat
           /\ Len(q \o <<m>>) = Len(q) + 1
           /\ DOMAIN (q \o <<m>>) = 1 .. Len(q) + 1
           /\ (q \o <<m>>)[Len(q) + 1] = m
<1>1. <<m>> \in Seq(S) /\ Len(<<m>>) = 1 /\ <<m>>[1] = m
  OBVIOUS
<1>2. PICK s \in Seq(S) : s = <<m>>
  BY <1>1
<1>3. /\ q \o s \in Seq(S) /\ Len(q \o s) = Len(q) + 1
      /\ (q \o s)[Len(q) + 1] = m /\ Len(q) \in Nat
  BY <1>1, <1>2, QueueGrows, QueueParts, LenProperties
<1> QED
  BY <1>2, <1>3, LenProperties

\* A member list that is added is the last.
LEMMA NewListLast ==
    ASSUME NEW S, NEW q \in Seq(S), NEW m \in S, m.type = "member_list"
    PROVE  /\ Has(q \o <<m>>, "member_list")
           /\ \A i \in DOMAIN (q \o <<m>>) :
                 LastList(q \o <<m>>, i) => (q \o <<m>>)[i] = m
<1>1. PICK r \in Seq(S) : r = q \o <<m>>
  BY QueueEndsWith
<1>2. PICK n \in Nat : /\ DOMAIN r = 1 .. n + 1 /\ r[n + 1] = m
  BY <1>1, QueueEndsWith
<1>3. n + 1 \in DOMAIN r
  BY <1>2
<1>4. \A i \in DOMAIN r : i = n + 1 \/ n + 1 > i
  BY <1>2
<1> QED
  BY <1>1, <1>2, <1>3, <1>4 DEF Has, LastList

\* A bundle without a member list leaves the last one where it is.
LEMMA NoNewList ==
    ASSUME NEW S, NEW q \in Seq(S), NEW s \in Seq(S), ~Has(s, "member_list")
    PROVE  /\ Has(q, "member_list") => Has(q \o s, "member_list")
           /\ \A i \in DOMAIN (q \o s) : LastList(q \o s, i) =>
                 i \in DOMAIN q /\ LastList(q, i) /\ (q \o s)[i] = q[i]
<1>1. /\ \A i \in DOMAIN (q \o s) :
            (q \o s)[i].type = "member_list" => i \in DOMAIN q /\ (q \o s)[i] = q[i]
      /\ \A i \in DOMAIN q : i \in DOMAIN (q \o s) /\ (q \o s)[i] = q[i]
  <2>1. \A i \in DOMAIN q : i \in DOMAIN (q \o s) /\ (q \o s)[i] = q[i]
    BY QueueGrows, QueueParts, LenProperties
  <2> QED
    BY <2>1, QueueGrows DEF Has
<1> QED
  BY <1>1 DEF Has, LastList

\* Reading a line moves the last member list up, or reads it.
LEMMA ListRead ==
    ASSUME NEW S, NEW q \in Seq(S), q # <<>>
    PROVE  /\ Has(Tail(q), "member_list") => Has(q, "member_list")
           /\ \A i \in DOMAIN Tail(q) : LastList(Tail(q), i) =>
                 i + 1 \in DOMAIN q /\ LastList(q, i + 1) /\ Tail(q)[i] = q[i + 1]
           /\ ~Has(Tail(q), "member_list") =>
                 IF Head(q).type = "member_list" THEN LastList(q, 1)
                                                 ELSE ~Has(q, "member_list")
<1>1. PICK n \in Nat : /\ DOMAIN q = 1 .. n + 1 /\ DOMAIN Tail(q) = 1 .. n
                       /\ Head(q) = q[1]
                       /\ \A i \in 1 .. n : Tail(q)[i] = q[i + 1]
  <2>1. /\ Len(q) \in Nat /\ Len(q) > 0 /\ Len(Tail(q)) = Len(q) - 1
        /\ Tail(q) \in Seq(S) /\ DOMAIN q = 1 .. Len(q) /\ Head(q) = q[1]
        /\ DOMAIN Tail(q) = 1 .. Len(Tail(q))
        /\ \A i \in DOMAIN Tail(q) : Tail(q)[i] = q[i + 1]
    BY QueueTail, LenProperties
  <2>2. Len(q) - 1 \in Nat /\ (Len(q) - 1) + 1 = Len(q)
    BY <2>1
  <2> QED
    BY <2>1, <2>2
<1>2. \A j \in 1 .. n + 1 : j = 1 \/ \E i \in 1 .. n : j = i + 1
  <2>1. ASSUME NEW j \in 1 .. n + 1, j # 1 PROVE j - 1 \in 1 .. n /\ j = (j - 1) + 1
    BY <2>1
  <2> QED
    BY <2>1
<1>3. \A i \in 1 .. n : i + 1 \in 1 .. n + 1
  OBVIOUS
<1>4. ASSUME NEW i \in 1 .. n, LastList(Tail(q), i) PROVE LastList(q, i + 1)
  <2>1. ASSUME NEW j \in 1 .. n + 1, j > i + 1 PROVE q[j].type # "member_list"
    <3>1. j - 1 \in 1 .. n /\ j = (j - 1) + 1 /\ j - 1 > i
      BY <2>1
    <3> QED
      BY <1>1, <1>4, <3>1 DEF LastList
  <2> QED
    BY <1>1, <1>4, <2>1 DEF LastList
<1>5. ASSUME ~Has(Tail(q), "member_list"), NEW j \in 1 .. n + 1, j # 1
      PROVE  q[j].type # "member_list"
  BY <1>1, <1>2, <1>5 DEF Has
<1> QED
  BY <1>1, <1>3, <1>4, <1>5 DEF Has, LastList

\* Such a step leaves the last list right.
LEMMA ListsArrive ==
    ASSUME TypeOK, TypeOK', NEW d \in Client, ListComing(d), dash' = dash,
           conn'[d] = "open" => conn[d] = "open",
           NEW out \in Outgoing, Post(out),
           current_room'[d] # NoRoom => ListNews(d, out)
    PROVE  ListComing(d)'
<1> SUFFICES ASSUME conn'[d] = "open", current_room'[d] # NoRoom
             PROVE  /\ ~Has(toClient'[d], "member_list")
                          => dash'[d].members = Own(d)'
                    /\ \A i \in DOMAIN toClient'[d] :
                          LastList(toClient'[d], i)
                             => toClient'[d][i].members = Own(d)'
  BY DEF ListComing
<1>1. /\ toClient[d] \in Seq(Reply) /\ out[d] \in Seq(Reply)
      /\ toClient'[d] = toClient[d] \o out[d]
  BY PostReaches DEF TypeOK, ProtocolTypeOK
<1>2. CASE /\ ~Has(out[d], "member_list") /\ current_room[d] # NoRoom
           /\ Own(d)' = Own(d)
  <2>1. PICK q, s \in Seq(Reply) : q = toClient[d] /\ s = out[d]
    BY <1>1
  <2>2. /\ Has(q, "member_list") => Has(q \o s, "member_list")
        /\ \A i \in DOMAIN (q \o s) : LastList(q \o s, i) =>
              i \in DOMAIN q /\ LastList(q, i) /\ (q \o s)[i] = q[i]
    <3>1. ~Has(s, "member_list")
      BY <1>2, <2>1
    <3> QED
      BY <3>1, NoNewList
  <2> QED
    BY <1>1, <1>2, <2>1, <2>2 DEF ListComing
<1>3. ASSUME NEW s \in Seq(Reply), NEW m \in Reply, out[d] = s \o <<m>>,
             m.type = "member_list", m.members = Own(d)'
      PROVE  /\ Has(toClient'[d], "member_list")
             /\ \A i \in DOMAIN toClient'[d] :
                   LastList(toClient'[d], i)
                      => toClient'[d][i].members = Own(d)'
  <2>1. PICK q, t \in Seq(Reply) : q = toClient[d] /\ t = <<m>>
    <3>1. <<m>> \in Seq(Reply)
      OBVIOUS
    <3> QED
      BY <1>1, <3>1
  <2>2. (q \o s) \o t = q \o (s \o t) /\ q \o s \in Seq(Reply)
    BY QueuesAssociative, QueueGrows
  <2>3. PICK r \in Seq(Reply) : r = q \o s
    BY <2>2
  <2>4. toClient'[d] = r \o <<m>>
    BY <1>1, <1>3, <2>1, <2>2, <2>3
  <2> QED
    BY <1>3, <2>4, NewListLast
<1> QED
  BY <1>2, <1>3 DEF ListNews

\* Nobody comes to d's room or leaves it, and nobody there is renamed.
LEMMA SameNames ==
    ASSUME NEW d \in Client, current_room'[d] = current_room[d],
           \A x \in Client : current_room'[x] = current_room[d]
                                <=> current_room[x] = current_room[d],
           \A x \in Client : current_room[x] = current_room[d]
                                => username'[x] = username[x]
    PROVE  Own(d)' = Own(d)
<1>1. InRoom(current_room[d])' = InRoom(current_room[d])
  BY DEF InRoom
<1>2. \A x \in InRoom(current_room[d]) : username'[x] = username[x]
  BY DEF InRoom
<1> QED
  BY <1>1, <1>2 DEF Own, NamesIn

\* The list of a room, at one of its members.
LEMMA ListedNames ==
    ASSUME MembersMatchSessions', LoginsInOrder', username' = username,
           NEW d \in Client, current_room'[d] \in RoomId',
           current_room'[d] # NoRoom,
           NEW room, room.members = rooms'[current_room'[d]].members
    PROVE  broadcastMemberList(room)[d] =
              <<[type |-> "member_list", members |-> Own(d)']>>
<1>1. room.members = InRoom(current_room[d])'
  BY DEF MembersMatchSessions
<1>2. d \in room.members
  BY <1>1 DEF InRoom
<1>3. \A x \in room.members : username[x] # NoUser /\ username'[x] = username[x]
  BY <1>1 DEF InRoom, LoginsInOrder, InOrder, NamedInside
<1>4. {username[x] : x \in room.members} \ {NoUser} = Own(d)'
  BY <1>1, <1>3 DEF Own, NamesIn
<1> QED
  BY <1>2, <1>4 DEF broadcastMemberList, broadcastToRoom, To

\* No list among what is sent.
Listless(out) == \A d \in Client : ~Has(out[d], "member_list")

\* One message that is no member list, sent to some clients,
LEMMA ToListless ==
    ASSUME NEW S, NEW m, m.type # "member_list"
    PROVE  Listless(To(S, m))
BY DEF Listless, To, Has

\* and two bundles without one, hold no member list.
LEMMA ThenListless ==
    ASSUME NEW out1 \in Outgoing, NEW out2 \in Outgoing,
           Listless(out1), Listless(out2)
    PROVE  Listless(out1 ++ out2)
<1> SUFFICES ASSUME NEW d \in Client
             PROVE  ~Has(out1[d] \o out2[d], "member_list")
  BY DEF Listless, ++
<1>1. out1[d] \in Seq(Reply) /\ out2[d] \in Seq(Reply)
  BY DEF Outgoing
<1> QED
  BY <1>1, HasGrows DEF Listless

\* When c enters or leaves room r, its members are sent the new list.
LEMMA MoveLists ==
    ASSUME TypeOK, TypeOK', MembersMatchSessions', LoginsInOrder',
           username' = username, NEW c \in Client, NEW r \in RoomId',
           \A x \in Client \ {c} : current_room'[x] = current_room[x],
           current_room[c] \in {NoRoom, r}, current_room'[c] \in {NoRoom, r},
           NEW head \in Outgoing, Listless(head),
           NEW room, room.members = rooms'[r].members,
           broadcastMemberList(room) \in Outgoing
    PROVE  ListsDue(head ++ broadcastMemberList(room))
<1> DEFINE list == broadcastMemberList(room)
<1> SUFFICES ASSUME NEW d \in Client, current_room'[d] # NoRoom
             PROVE  ListNews(d, head ++ list)
  BY DEF ListsDue
<1>1. /\ (head ++ list)[d] = head[d] \o list[d]
      /\ head[d] \in Seq(Reply) /\ list[d] \in Seq(Reply)
  BY DEF ++, Outgoing
<1>2. CASE current_room'[d] = r
  <2>1. PICK m : m = [type |-> "member_list", members |-> Own(d)']
    OBVIOUS
  <2>2. list[d] = <<m>>
    BY <1>2, <2>1, ListedNames
  <2>3. m \in Reply
    BY <1>1, <2>2
  <2> HIDE DEF list
  <2> QED
    BY <1>1, <2>1, <2>2, <2>3 DEF ListNews
<1>3. CASE current_room'[d] # r
  <2>1. d # c /\ current_room'[d] = current_room[d]
    BY <1>3
  <2>2. Own(d)' = Own(d)
    BY <1>3, <2>1, SameNames
  <2>3. d \notin room.members
    BY <1>3 DEF MembersMatchSessions, InRoom
  <2>4. list[d] = <<>>
    BY <2>3 DEF broadcastMemberList, broadcastToRoom, To
  <2>5. head[d] \o <<>> = head[d]
    BY <1>1, ConcatEmptySeq
  <2> HIDE DEF list
  <2> QED
    BY <1>1, <2>1, <2>2, <2>4, <2>5 DEF ListNews, Listless
<1> QED
  BY <1>2, <1>3

\* Entering a room sends a new list to all its members.
LEMMA EntryLists ==
    ASSUME TypeOK, TypeOK', MembersMatchSessions', LoginsInOrder',
           NEW c \in Client, HandleCreateRoom(c) \/ HandleJoinRoom(c)
    PROVE  \E out \in Outgoing : Post(out) /\ ListsDue(out)
<1>1. username' = username
  BY DEF HandleCreateRoom, HandleJoinRoom
<1>2. ASSUME Post(To({c}, [type |-> "join_failed"])), UNCHANGED current_room
      PROVE  \E out \in Outgoing : Post(out) /\ ListsDue(out)
  <2>1. [type |-> "join_failed"] \in Reply
    BY DEF Reply
  <2>2. PICK out \in Outgoing : /\ out = To({c}, [type |-> "join_failed"])
                                /\ Listless(out)
    BY <2>1, ToOutgoing, ToListless
  <2>3. \A d \in Client : Own(d)' = Own(d)
    BY <1>1, <1>2, SameNames
  <2> QED
    BY <1>2, <2>2, <2>3 DEF ListsDue, ListNews, Listless
<1>3. CASE HandleCreateRoom(c)
  <2> DEFINE room == addMember(createRoom, c)
             reply == [type |-> "room_created", room_id |-> nextId]
             list == broadcastMemberList(room)
  <2>1. CASE ~MayEnter(c)
    BY <1>2, <1>3, <2>1 DEF HandleCreateRoom
  <2>2. CASE MayEnter(c)
    <3>1. /\ Post(To({c}, reply) ++ list)
          /\ current_room' = [current_room EXCEPT ![c] = nextId]
          /\ current_room[c] = NoRoom /\ nextId' = nextId + 1
          /\ rooms' = [r \in 1 .. nextId |-> IF r = nextId THEN room ELSE rooms[r]]
      BY <1>3, <2>2 DEF HandleCreateRoom, MayEnter
    <3>2. /\ nextId \in Nat \ {0} /\ nextId \in RoomId'
          /\ rooms'[nextId].members = room.members
      BY <3>1 DEF TypeOK, ServerTypeOK, RoomId
    <3>3. room \in Room /\ reply \in Reply /\ Listless(To({c}, reply))
      BY <3>2, RoomValues, ToListless, ProtocolAssumption DEF Reply
    <3>4. To({c}, reply) \in Outgoing /\ list \in Outgoing
      BY <3>3, ToOutgoing, MemberListOutgoing DEF TypeOK
    <3>5. /\ \A x \in Client \ {c} : current_room'[x] = current_room[x]
          /\ current_room'[c] = nextId
      BY <3>1 DEF TypeOK, ServerTypeOK
    <3> HIDE DEF room, reply
    <3>6. ListsDue(To({c}, reply) ++ list)
      BY <1>1, <3>1, <3>2, <3>3, <3>4, <3>5, MoveLists
    <3> QED
      BY <3>1, <3>4, <3>6, ThenOutgoing
  <2> QED
    BY <2>1, <2>2
<1>4. CASE HandleJoinRoom(c)
  <2> DEFINE rid == Head(toServer[c]).room_id
             room == addMember(rooms[rid], c)
             reply == [type |-> "room_joined", room_id |-> rid,
                       code |-> room.code]
             joined == broadcastToRoom(room, [type |-> "user_joined",
                                              username |-> username[c]], {c})
             list == broadcastMemberList(room)
  <2>1. CASE ~MayEnter(c) \/ rid \notin RoomId
    BY <1>2, <1>4, <2>1 DEF HandleJoinRoom
  <2>2. CASE MayEnter(c) /\ rid \in RoomId
    <3>1. /\ Post(To({c}, reply) ++ joined ++ list)
          /\ current_room' = [current_room EXCEPT ![c] = rid]
          /\ current_room[c] = NoRoom /\ UNCHANGED nextId
          /\ rooms' = [rooms EXCEPT ![rid] = room]
      BY <1>4, <2>2 DEF HandleJoinRoom, MayEnter
    <3>2. /\ room \in Room /\ rid \in Nat \ {0} /\ rid \in RoomId'
          /\ rooms'[rid].members = room.members
      <4>1. rooms[rid] \in Room /\ rid \in DOMAIN rooms
        BY <2>2 DEF TypeOK, ServerTypeOK
      <4>2. room \in Room
        BY <4>1, RoomValues, ProtocolAssumption
      <4>3. rid \in Nat \ {0} /\ rid \in RoomId'
        BY <2>2, <3>1 DEF RoomId, TypeOK, ServerTypeOK
      <4> HIDE DEF room, rid
      <4>4. rooms'[rid] = room
        BY <3>1, <4>1
      <4> QED
        BY <4>2, <4>3, <4>4
    <3>3. reply \in [type : {"room_joined"}, room_id : Nat, code : Text]
      BY <3>2 DEF Room
    <3>4. reply \in Reply /\ reply.type = "room_joined"
      BY <3>3 DEF Reply
    <3>5. /\ To({c}, reply) \in Outgoing /\ joined \in Outgoing
          /\ list \in Outgoing
      BY <3>2, <3>4, ToOutgoing, NewsOutgoing, MemberListOutgoing DEF TypeOK
    <3>6. Listless(To({c}, reply)) /\ Listless(joined)
      BY <3>4, ToListless DEF broadcastToRoom
    <3>7. PICK head \in Outgoing : /\ head = To({c}, reply) ++ joined
                                   /\ Listless(head)
      <4> HIDE DEF joined, reply
      <4> QED
        BY <3>5, <3>6, ThenOutgoing, ThenListless
    <3>8. /\ \A x \in Client \ {c} : current_room'[x] = current_room[x]
          /\ current_room'[c] = rid
      BY <3>1 DEF TypeOK, ServerTypeOK
    <3> HIDE DEF room, reply, joined, rid
    <3>9. ListsDue(head ++ list)
      BY <1>1, <3>1, <3>2, <3>5, <3>7, <3>8, MoveLists
    <3> QED
      BY <3>1, <3>5, <3>7, <3>9, ThenOutgoing
  <2> QED
    BY <2>1, <2>2
<1> QED
  BY <1>3, <1>4

\* Nothing about lists is due when nobody moves and only somebody outside
\* every room is renamed.
LEMMA NoListDue ==
    ASSUME TypeOK, UNCHANGED current_room,
           \A x \in Client : current_room[x] # NoRoom => username'[x] = username[x],
           \/ UNCHANGED toClient
           \/ \E S : \E m \in Reply : m.type # "member_list" /\ Post(To(S, m))
    PROVE  \E out \in Outgoing : Post(out) /\ ListsDue(out)
<1>1. ASSUME NEW out, Listless(out) PROVE ListsDue(out)
  <2> SUFFICES ASSUME NEW d \in Client, current_room'[d] # NoRoom
               PROVE  ListNews(d, out)
    BY DEF ListsDue
  <2>1. Own(d)' = Own(d)
    BY SameNames
  <2> QED
    BY <1>1, <2>1 DEF ListNews, Listless
<1>2. CASE UNCHANGED toClient
  <2>1. PICK out \in Outgoing : out = [d \in Client |-> <<>>]
    <3>1. [d \in Client |-> <<>>] \in Outgoing
      BY DEF Outgoing
    <3> QED
      BY <3>1
  <2>2. Post(out)
    <3>1. /\ \A d \in Client : toClient[d] \o <<>> = toClient[d]
          /\ toClient = [d \in Client |-> toClient[d]]
      BY ConcatEmptySeq DEF TypeOK, ProtocolTypeOK
    <3> QED
      BY <1>2, <2>1, <3>1 DEF Post
  <2>3. Listless(out)
    BY <2>1 DEF Listless, Has
  <2> QED
    BY <1>1, <2>2, <2>3
<1>3. ASSUME NEW S, NEW m \in Reply, m.type # "member_list", Post(To(S, m))
      PROVE  \E out \in Outgoing : Post(out) /\ ListsDue(out)
  BY <1>1, <1>3, ToOutgoing, ToListless
<1> QED
  BY <1>2, <1>3

\* A message that is no member list leaves the lists due as they are.
LEMMA AnswerNoList ==
    ASSUME TypeOK, UNCHANGED current_room,
           \A x \in Client : current_room[x] # NoRoom => username'[x] = username[x],
           NEW S, NEW m \in Reply, m.type # "member_list", Post(To(S, m))
    PROVE  \E out \in Outgoing : Post(out) /\ ListsDue(out)
<1>1. \E T : \E k \in Reply : k.type # "member_list" /\ Post(To(T, k))
  OBVIOUS
<1> QED
  BY <1>1, NoListDue

\* Leaving a room sends a new list to those who stay.
LEMMA VacateLists ==
    ASSUME TypeOK, TypeOK', MembersMatchSessions', LoginsInOrder',
           NEW c \in Client, Vacate(c), UNCHANGED <<username, nextId>>
    PROVE  \E out \in Outgoing : Post(out) /\ ListsDue(out)
<1>1. CASE current_room[c] = NoRoom
  BY <1>1, NoListDue DEF Vacate
<1>2. CASE current_room[c] # NoRoom
  <2> DEFINE rid == current_room[c]
             room == removeMember(rooms[rid], c)
             news == broadcastToRoom(room, [type |-> "user_left",
                                            username |-> username[c]], {})
             list == broadcastMemberList(room)
  <2>1. /\ Post(news ++ list) /\ rid \in RoomId
        /\ current_room' = [current_room EXCEPT ![c] = NoRoom]
        /\ rooms' = [rooms EXCEPT ![rid] = room]
    BY <1>2 DEF Vacate, TypeOK, ServerTypeOK
  <2>2. room \in Room /\ rid \in RoomId' /\ rooms'[rid].members = room.members
    BY <2>1, RoomValues, ProtocolAssumption DEF TypeOK, ServerTypeOK, RoomId
  <2>3. news \in Outgoing /\ list \in Outgoing /\ Listless(news)
    BY <2>2, NewsOutgoing, MemberListOutgoing, ToListless
    DEF TypeOK, broadcastToRoom
  <2>4. /\ \A x \in Client \ {c} : current_room'[x] = current_room[x]
        /\ current_room'[c] = NoRoom
    BY <2>1 DEF TypeOK, ServerTypeOK
  <2>5. PICK r : r = rid
    OBVIOUS
  <2> HIDE DEF room, news
  <2>6. ListsDue(news ++ list)
    BY <2>2, <2>3, <2>4, <2>5, MoveLists
  <2> QED
    BY <2>1, <2>3, <2>6, ThenOutgoing
<1> QED
  BY <1>1, <1>2

\* Every handler.
LEMMA ServerLists ==
    ASSUME TypeOK, TypeOK', MembersMatchSessions', LoginsInOrder, LoginsInOrder',
           NEW c \in Client, ServerStep(c)
    PROVE  \E out \in Outgoing : Post(out) /\ ListsDue(out)
<1> DEFINE msg == Head(toServer[c])
<1>1. \A t \in {"register_success", "register_failed", "login_failed"} :
         [type |-> t] \in Reply
  BY DEF Reply
<1>2. CASE HandleRegister(c)
  <2>1. /\ UNCHANGED <<current_room, username>>
        /\ \/ UNCHANGED toClient
           \/ \E t \in {"register_success", "register_failed"} :
                 Post(To({c}, [type |-> t]))
    BY <1>2 DEF HandleRegister
  <2>2. CASE UNCHANGED toClient
    BY <2>1, <2>2, NoListDue
  <2>3. ASSUME NEW t \in {"register_success", "register_failed"},
               Post(To({c}, [type |-> t]))
        PROVE  \E out \in Outgoing : Post(out) /\ ListsDue(out)
    <3>1. PICK m \in Reply : m = [type |-> t]
      BY <1>1
    <3> QED
      BY <2>1, <2>3, <3>1, AnswerNoList
  <2> QED
    BY <2>1, <2>2, <2>3
<1>3. CASE HandleLogin(c)
  <2>1. /\ Reads(c, "login") /\ UNCHANGED current_room /\ msg.username \in Name
        /\ \A x \in Client \ {c} : username'[x] = username[x]
    BY <1>3, ReadsType, RequestFields DEF HandleLogin, TypeOK, ServerTypeOK
  <2>2. current_room[c] = NoRoom
    <3>1. 1 \in DOMAIN toServer[c] /\ toServer[c][1].type = "login"
      BY <2>1, QueueTail DEF Reads, TypeOK, ProtocolTypeOK
    <3>2. OutBy(toServer[c], current_room[c], 1)
      BY <3>1 DEF LoginsInOrder, InOrder, LoginsOutside
    <3> QED
      BY <3>2 DEF OutBy
  <2>3. \/ UNCHANGED toClient
        \/ Post(To({c}, [type |-> "login_success", username |-> msg.username]))
        \/ Post(To({c}, [type |-> "login_failed"]))
    BY <1>3 DEF HandleLogin
  <2>4. [type |-> "login_success", username |-> msg.username] \in Reply
    BY <2>1 DEF Reply
  <2>5. \A x \in Client : current_room[x] # NoRoom => username'[x] = username[x]
    BY <2>1, <2>2
  <2>6. PICK m1, m2 \in Reply :
           /\ m1 = [type |-> "login_success", username |-> msg.username]
           /\ m2 = [type |-> "login_failed"]
    BY <1>1, <2>4
  <2>7. /\ m1.type # "member_list" /\ m2.type # "member_list"
        /\ UNCHANGED toClient \/ Post(To({c}, m1)) \/ Post(To({c}, m2))
    BY <2>3, <2>6
  <2> QED
    BY <2>1, <2>5, <2>7, NoListDue, AnswerNoList
<1>4. CASE HandleGetRooms(c)
  <2>1. PICK m \in Reply : m = [type |-> "room_list", rooms |-> listRooms]
    <3>1. [type |-> "room_list", rooms |-> listRooms] \in Reply
      BY DEF Reply, listRooms, RoomId
    <3> QED
      BY <3>1
  <2>2. Post(To({c}, m)) /\ UNCHANGED <<current_room, username>>
    BY <1>4, <2>1 DEF HandleGetRooms, serverVars
  <2> QED
    BY <2>1, <2>2, AnswerNoList
<1>5. CASE HandleLeaveRoom(c) \/ HandleDisconnect(c)
  <2>1. Vacate(c) /\ UNCHANGED <<username, nextId>>
    BY <1>5 DEF HandleLeaveRoom, HandleDisconnect
  <2> QED
    BY <2>1, VacateLists
<1>6. CASE HandleCodeUpdate(c) \/ HandleChatMessage(c)
  <2>1. /\ Reads(c, "code_update") \/ Reads(c, "chat_message")
        /\ UNCHANGED <<current_room, username>>
    BY <1>6 DEF HandleCodeUpdate, HandleChatMessage, serverVars
  <2>2. msg \in Reply /\ msg.type # "member_list"
    BY <2>1, ReadsType, RequestFields DEF TypeOK
  <2>3. \/ UNCHANGED toClient
        \/ \E S : Post(To(S, msg))
    BY <1>6 DEF HandleCodeUpdate, HandleChatMessage, broadcastToRoom
  <2> HIDE DEF msg
  <2> QED
    BY <2>1, <2>2, <2>3, NoListDue, AnswerNoList
<1>7. CASE SkipMalformed(c)
  BY <1>7, NoListDue DEF SkipMalformed, serverVars
<1>8. CASE HandleSessionRestore(c)
  <2>1. Has(toServer[c], "session_restore")
    BY <1>8, QueueTail
    DEF HandleSessionRestore, Reads, Has, TypeOK, ProtocolTypeOK
  <2> QED
    BY <2>1 DEF LoginsInOrder, InOrder, NamedInside
<1> QED
  BY <1>2, <1>3, <1>4, <1>5, <1>6, <1>7, <1>8, EntryLists DEF ServerStep

\* A window's own steps: a list handled is a list shown.
LEMMA ListsHandled ==
    ASSUME TypeOK, NEW c \in Client, ListComing(c), UNCHANGED serverVars,
           dispatch(c)
    PROVE  ListComing(c)'
<1>1. /\ toClient[c] # <<>> /\ toClient'[c] = Tail(toClient[c])
      /\ conn'[c] = conn[c] /\ toClient[c] \in Seq(Reply)
  BY DEF dispatch, loginSuccess, loginFailed, registerSuccess, registerFailed,
         onRoomList, roomEntered, onJoinFailed, memberListReceived, userJoined,
         userLeft, codeUpdated, chatReceived, Receives, TypeOK, ProtocolTypeOK
<1>2. IF Head(toClient[c]).type = "member_list"
      THEN dash'[c].members = Head(toClient[c]).members
      ELSE dash'[c].members = dash[c].members
  <2>1. CASE memberListReceived(c)
    BY <2>1 DEF memberListReceived, Receives, TypeOK, ClientTypeOK, Dash
  <2>2. CASE \/ loginSuccess(c) \/ loginFailed(c)
             \/ registerSuccess(c) \/ registerFailed(c) \/ onRoomList(c)
             \/ onJoinFailed(c) \/ userJoined(c) \/ userLeft(c)
    BY <2>2
    DEF loginSuccess, loginFailed, registerSuccess, registerFailed, onRoomList,
        onJoinFailed, userJoined, userLeft, Receives, clientVars
  <2>3. CASE roomEntered(c) \/ codeUpdated(c) \/ chatReceived(c)
    BY <2>3
    DEF roomEntered, codeUpdated, chatReceived, Receives, applyRemoteCode,
        TypeOK, ClientTypeOK, Dash
  <2> QED
    BY <2>1, <2>2, <2>3 DEF dispatch
<1>3. Own(c)' = Own(c) /\ current_room' = current_room
  BY DEF serverVars, Own, NamesIn, InRoom
<1>4. PICK q \in Seq(Reply) : q = toClient[c]
  BY <1>1
<1>5. /\ Has(Tail(q), "member_list") => Has(q, "member_list")
      /\ \A i \in DOMAIN Tail(q) : LastList(Tail(q), i) =>
            i + 1 \in DOMAIN q /\ LastList(q, i + 1) /\ Tail(q)[i] = q[i + 1]
      /\ ~Has(Tail(q), "member_list") =>
            IF Head(q).type = "member_list" THEN LastList(q, 1)
                                            ELSE ~Has(q, "member_list")
      /\ 1 \in DOMAIN q /\ Head(q) = q[1]
  BY <1>1, <1>4, ListRead, QueueTail
<1>6. SUFFICES ASSUME conn[c] = "open", current_room[c] # NoRoom
               PROVE  /\ ~Has(Tail(q), "member_list")
                            => dash'[c].members = Own(c)
                      /\ \A i \in DOMAIN Tail(q) : LastList(Tail(q), i)
                            => Tail(q)[i].members = Own(c)
  BY <1>1, <1>3, <1>4 DEF ListComing
<1>7. /\ ~Has(q, "member_list") => dash[c].members = Own(c)
      /\ \A i \in DOMAIN q : LastList(q, i) => q[i].members = Own(c)
  BY <1>4, <1>6 DEF ListComing
<1>8. ASSUME ~Has(Tail(q), "member_list") PROVE dash'[c].members = Own(c)
  BY <1>2, <1>4, <1>5, <1>7, <1>8
<1>9. ASSUME NEW i \in DOMAIN Tail(q), LastList(Tail(q), i)
      PROVE  Tail(q)[i].members = Own(c)
  BY <1>5, <1>7, <1>9
<1> QED
  BY <1>8, <1>9

\* Nothing else a client does bears on it.
LEMMA ListsKept ==
    ASSUME ListsComing, NEW d \in Client, UNCHANGED serverVars,
           conn'[d] = "open" => conn[d] = "open" \/ current_room[d] = NoRoom,
           conn'[d] = "open" /\ conn[d] = "open" =>
              /\ toClient'[d] = toClient[d]
              /\ dash'[d].members = dash[d].members
    PROVE  ListComing(d)'
<1>1. Own(d)' = Own(d) /\ current_room' = current_room
  BY DEF serverVars, Own, NamesIn, InRoom
<1> QED
  BY <1>1 DEF ListComing, ListsComing

\* Timers and users touch neither the lists on their way nor those shown.
LEMMA ActionKeepsLists ==
    ASSUME TypeOK, MembersMatchSessions, NEW c \in Client,
           TimerTurn(c) \/ UserStep(c)
    PROVE  /\ conn'[c] = "open" => conn[c] = "open" \/ current_room[c] = NoRoom
           /\ conn'[c] = "open" /\ conn[c] = "open" =>
                 /\ toClient'[c] = toClient[c]
                 /\ dash'[c].members = dash[c].members
<1>1. CASE Launch(c) \/ LaunchAlone(c)
  <2>1. conn[c] = "none"
    BY <1>1 DEF Launch, LaunchAlone
  <2> QED
    BY <2>1 DEF MembersMatchSessions
<1>2. CASE CloseWindow(c)
  BY <1>2 DEF CloseWindow, TypeOK, ProtocolTypeOK
<1>3. ASSUME conn' = conn, toClient' = toClient, dash'[c].members = dash[c].members
      PROVE  /\ conn'[c] = "open" => conn[c] = "open" \/ current_room[c] = NoRoom
             /\ conn'[c] = "open" /\ conn[c] = "open" =>
                   /\ toClient'[c] = toClient[c]
                   /\ dash'[c].members = dash[c].members
  BY <1>3
<1>4. ASSUME NEW msgs, Sends(c, msgs) PROVE conn' = conn /\ toClient' = toClient
  BY <1>4 DEF Sends
<1>5. ASSUME NEW t \in ChatText, Chat(c, t)
      PROVE  conn' = conn /\ toClient' = toClient /\ dash' = dash
  BY <1>4, <1>5 DEF Chat, sendChat, clientVars
<1>6. CASE TimerTurn(c)
  <2>1. dash'[c].members = dash[c].members
    BY <1>6 DEF TimerTurn, codeSyncTriggered, TypeOK, ClientTypeOK, Dash
  <2> QED
    BY <1>3, <1>4, <1>6, <2>1 DEF TimerTurn, codeSyncTriggered
<1>7. ASSUME UserAction(c), ~(Launch(c) \/ LaunchAlone(c) \/ CloseWindow(c)),
             ~\E t \in Text : EditCode(c, t)
      PROVE  conn' = conn /\ toClient' = toClient /\ dash' = dash
  BY <1>4, <1>7
  DEF UserAction, GoToRegister, GoToLogin, LogIn, onLoginAttempt, Register,
      onRegisterAttempt, OpenNewRoomDialog, CloseNewRoomDialog, onJoinClicked,
      refresh, BackToRooms, logout, OpenTasks, CloseTasks, clientVars,
      protocolVars
<1>8. ASSUME NEW t \in Text, EditCode(c, t)
      PROVE  /\ conn' = conn /\ toClient' = toClient
             /\ dash'[c].members = dash[c].members
  BY <1>8 DEF EditCode, protocolVars, TypeOK, ClientTypeOK, Dash
<1> QED
  BY <1>1, <1>2, <1>3, <1>5, <1>6, <1>7, <1>8 DEF UserStep

\* Every step.
LEMMA NextListsComing ==
    ASSUME TypeOK, TypeOK', MembersMatchSessions, MembersMatchSessions',
           LoginsInOrder, LoginsInOrder', ListsComing, [Next]_vars
    PROVE  ListsComing'
<1> SUFFICES ASSUME NEW d \in Client PROVE ListComing(d)'
  BY DEF ListsComing
<1>1. ASSUME NEW c \in Client, ServerTurn(c) PROVE ListComing(d)'
  <2>1. PICK out \in Outgoing : Post(out) /\ ListsDue(out)
    BY <1>1, ServerLists DEF ServerTurn
  <2>2. conn'[d] = "open" => conn[d] = "open"
    BY <1>1
    DEF ServerTurn, ServerStep, HandleSessionRestore, HandleRegister,
        HandleLogin, HandleGetRooms, HandleCreateRoom, HandleJoinRoom,
        HandleLeaveRoom, HandleCodeUpdate, HandleChatMessage, SkipMalformed,
        HandleDisconnect, Reads, TypeOK, ProtocolTypeOK
  <2>3. dash' = dash
    BY <1>1 DEF ServerTurn, clientVars
  <2> QED
    BY <2>1, <2>2, <2>3, ListsArrive DEF ListsDue, ListsComing
<1>2. ASSUME NEW c \in Client, ClientTurn(c) \/ TimerTurn(c) \/ UserStep(c)
      PROVE  ListComing(d)'
  <2>1. UNCHANGED serverVars
    BY <1>2 DEF ClientTurn, TimerTurn, UserStep
  <2>2. CASE d # c
    BY <1>2, <2>1, <2>2, OthersApart, ListsKept
  <2>3. CASE d = c /\ ClientTurn(c)
    BY <2>1, <2>3, ListsHandled DEF ClientTurn, ListsComing
  <2>4. CASE d = c /\ (TimerTurn(c) \/ UserStep(c))
    BY <2>1, <2>4, ActionKeepsLists, ListsKept
  <2> QED
    BY <1>2, <2>2, <2>3, <2>4
<1>3. CASE Restart
  BY <1>3 DEF Restart, ServerRestarts, ListComing
<1>4. CASE UNCHANGED vars
  BY <1>4, ListsKept DEF vars, protocolVars, clientVars
<1> QED
  BY <1>1, <1>2, <1>3, <1>4 DEF Next

(***************************************************************************)
(* "Live member list updates as users join and leave" (README.md:134): the *)
(* last list sent to a member, handled or not, is that of its room now,    *)
(* whoever came, left, logged in or died since (server.cpp:100-111, 215-   *)
(* 290).  A user named in a list could be renamed by a login inside the    *)
(* room, so this rests on LoginsInOrder.                                   *)
(***************************************************************************)
THEOREM ListsAlwaysComing ==
    ASSUME ~RegisterDuringLogin
    PROVE  Spec => []ListsComing
<1>1. Init => ListsComing
  BY DEF Init, ServerInit, ListsComing, ListComing
<1>2. /\ TypeOK /\ MembersMatchSessions /\ LoginsInOrder /\ ListsComing
      /\ TypeOK' /\ MembersMatchSessions' /\ LoginsInOrder' /\ [Next]_vars
      => ListsComing'
  BY NextListsComing
<1> QED
  BY <1>1, <1>2, TypeCorrect, MembersAlwaysMatch, LoginsAlwaysInOrder, PTL
  DEF Spec

(***************************************************************************)
(* So a member that has handled all its messages shows exactly the users   *)
(* who are in its room.                                                    *)
(***************************************************************************)
THEOREM MemberListsCurrent ==
    ASSUME ~RegisterDuringLogin
    PROVE  Spec => []MemberListCurrent
<1>1. ListsComing => MemberListCurrent
  <2>1. \A t : ~Has(<<>>, t)
    BY DEF Has
  <2> QED
    BY <2>1 DEF ListsComing, ListComing, MemberListCurrent, Own, NamesIn
<1> QED
  BY <1>1, ListsAlwaysComing, PTL

-----------------------------------------------------------------------------
\* The window and its session.  Which login and which room a client is on its
\* way to, from what it has sent, what it was sent and where its session is.

\* A client waits for one login at a time,
OneLogin(c) ==
    /\ NoneAfter(toServer[c], "login", "login")
    /\ NoneAfter(toClient[c], "login_success", "login_success")
    /\ Has(toClient[c], "login_success") \/ window[c].loggedIn
          => ~Has(toServer[c], "login")
    /\ window[c].loggedIn => ~Has(toClient[c], "login_success")

\* which finds it outside of the rooms, and leaves no answer from earlier
\* visits behind.
FreshLogin(c) ==
    /\ \A t \in Entering : NoneAfter(toServer[c], "login", t)
    /\ \A t \in Entered : NoneAfter(toClient[c], "login_success", t)
    /\ Has(toClient[c], "login_success") =>
          /\ current_room[c] = NoRoom
          /\ \A t \in Entering : ~Has(toServer[c], t)
    /\ \A m \in Lines(toClient[c]) :
          m.type = "login_success" => m.username = username[c]
    /\ window[c].loggedIn => window[c].currentUser = username[c]

\* Somebody logged in is in no room, and what was asked for comes behind
\* every leave_room;
Outside(c) ==
    /\ current_room[c] = NoRoom /\ window[c].page = "room"
    /\ \A t \in Entering : NoneAfter(toServer[c], t, "leave_room")
    /\ \A t \in Entered : ~Has(toClient[c], t)

\* or in one that the window is about to show;
Arriving(c) ==
    /\ current_room[c] # NoRoom /\ window[c].page = "room"
    /\ ~Has(toServer[c], "leave_room")
    /\ \E t \in Entered : Has(toClient[c], t)
    /\ \A t, u \in Entered : NoneAfter(toClient[c], t, u)
    /\ \A m \in Lines(toClient[c]) :
          m.type \in Entered => m.room_id = current_room[c]

\* or in the one it shows;
Inside(c) ==
    /\ current_room[c] # NoRoom /\ window[c].page \in {"dashboard", "tasks"}
    /\ window[c].currentRoomId = current_room[c]
    /\ ~Has(toServer[c], "leave_room")
    /\ \A t \in Entered : ~Has(toClient[c], t)

\* or in one it has asked to leave, once.
Going(c) ==
    /\ current_room[c] # NoRoom /\ window[c].page = "room"
    /\ Has(toServer[c], "leave_room")
    /\ NoneAfter(toServer[c], "leave_room", "leave_room")
    /\ \A t \in Entered : ~Has(toClient[c], t)

Placed(c) ==
    /\ OneLogin(c)
    /\ FreshLogin(c)
    /\ window[c].loggedIn => Outside(c) \/ Arriving(c) \/ Inside(c) \/ Going(c)

RoomsInOrder == \A c \in Client : conn[c] = "open" => Placed(c)

\* What that means once nothing is on its way.
LEMMA PlacedAgree ==
    ASSUME LoginsInOrder, RoomsInOrder
    PROVE  ClientServerAgree
<1> SUFFICES ASSUME NEW c \in Client, conn[c] = "open", Quiet(c)
             PROVE  /\ window[c].loggedIn => username[c] = window[c].currentUser
                    /\ current_room[c] =
                         IF /\ window[c].loggedIn
                            /\ window[c].page \in {"dashboard", "tasks"}
                         THEN window[c].currentRoomId ELSE NoRoom
  BY DEF ClientServerAgree
<1>1. /\ toServer[c] = <<>> /\ toClient[c] = <<>> /\ Len(<<>>) = 0
      /\ \A t : ~Has(<<>>, t)
  BY DEF Quiet, Has
<1>2. CASE window[c].loggedIn
  BY <1>1, <1>2
  DEF RoomsInOrder, Placed, FreshLogin, Outside, Arriving, Inside, Going
<1>3. CASE ~window[c].loggedIn
  <2>1. OutBy(<<>>, current_room[c], 1)
    BY <1>1, <1>3 DEF LoginsInOrder, InOrder, LoggedOutLeaves
  <2> QED
    BY <1>3, <2>1 DEF OutBy
<1> QED
  BY <1>2, <1>3

-----------------------------------------------------------------------------
\* Steps that change nothing about where a client is.

\* No line of types T more than there was, and in no other order.
Fewer(q, z, T) ==
    /\ \A t \in T : Has(z, t) => Has(q, t)
    /\ \A t, u \in T : NoneAfter(q, t, u) => NoneAfter(z, t, u)

\* What decides where a client is: the lines it sends for it,
Moves == {"login", "leave_room"} \cup Entering

\* and those it is sent.
News == {"login_success"} \cup Entered

\* Nothing of importance was added,
LEMMA FewerGrown ==
    ASSUME NEW S, NEW q \in Seq(S), NEW s \in Seq(S), NEW T,
           \A t \in T : ~Has(s, t)
    PROVE  /\ Fewer(q, q \o s, T)
           /\ \A t \in T : Has(q, t) => Has(q \o s, t)
           /\ \A m \in Lines(q \o s) : m.type \in T => m \in Lines(q)
<1>1. \A t \in T : Has(q \o s, t) => Has(q, t)
  BY HasGrows
<1>2. \A t, u \in T : NoneAfter(s, t, u)
  BY DEF NoneAfter, Has
<1>3. \A t, u \in T : NoneAfter(q, t, u) => NoneAfter(q \o s, t, u)
  BY <1>2, NoneAfterGrows
<1>4. \A i \in DOMAIN q : i \in DOMAIN (q \o s) /\ (q \o s)[i] = q[i]
  BY ConcatProperties, LenProperties
<1>5. \A t \in T : Has(q, t) => Has(q \o s, t)
  BY <1>4 DEF Has
<1>6. \A m : m \in Lines(q \o s) <=> m \in Lines(q) \/ m \in Lines(s)
  BY LinesGrow
<1>7. \A m \in Lines(s) : m.type \notin T
  BY DEF Lines, Has
<1> QED
  BY <1>1, <1>3, <1>5, <1>6, <1>7 DEF Fewer

\* or the first line was read,
LEMMA FewerRead ==
    ASSUME NEW S, NEW q \in Seq(S), q # <<>>, NEW T
    PROVE  /\ Fewer(q, Tail(q), T)
           /\ \A t : Has(q, t) /\ Head(q).type # t => Has(Tail(q), t)
           /\ \A m \in Lines(Tail(q)) : m \in Lines(q)
<1>1. \A i \in DOMAIN Tail(q) : i + 1 \in DOMAIN q /\ Tail(q)[i] = q[i + 1]
  BY QueueTail
<1>2. \A m \in Lines(Tail(q)) : m \in Lines(q)
  BY <1>1 DEF Lines
<1>3. ASSUME NEW t, Has(q, t), Head(q).type # t PROVE Has(Tail(q), t)
  <2>1. PICK i \in DOMAIN q : q[i].type = t
    BY <1>3 DEF Has
  <2>2. /\ i \in 1 .. Len(q) /\ i # 1 /\ Len(q) \in Nat
        /\ DOMAIN Tail(q) = 1 .. Len(q) - 1
    BY <1>3, <2>1, QueueTail, LenProperties
  <2>3. i - 1 \in DOMAIN Tail(q) /\ (i - 1) + 1 = i
    BY <2>2
  <2>4. Tail(q)[i - 1] = q[i]
    BY <1>1, <2>3
  <2> QED
    BY <2>1, <2>3, <2>4 DEF Has
<1> QED
  BY <1>2, <1>3, HasShrinks, NoneAfterShrinks DEF Fewer

\* or nothing at all was.
LEMMA FewerSame ==
    ASSUME NEW q, NEW T
    PROVE  Fewer(q, q, T)
BY DEF Fewer

\* What d is about to send and about to hear is, as far as it matters, what
\* it was.
Unmoved(d) ==
    /\ Fewer(toServer[d], toServer'[d], Moves)
    /\ Has(toServer[d], "leave_room") => Has(toServer'[d], "leave_room")
    /\ Fewer(toClient[d], toClient'[d], News)
    /\ \A t \in Entered : Has(toClient[d], t) => Has(toClient'[d], t)
    /\ \A m \in Lines(toClient'[d]) : m.type \in News => m \in Lines(toClient[d])
    /\ username'[d] = username[d] /\ current_room'[d] = current_room[d]

SamePage(d) ==
    /\ window'[d].loggedIn = window[d].loggedIn
    /\ window[d].loggedIn =>
          /\ window'[d].currentUser = window[d].currentUser
          /\ window'[d].currentRoomId = window[d].currentRoomId
          /\ \/ window'[d].page = window[d].page
             \/ {window'[d].page, window[d].page} \subseteq {"dashboard", "tasks"}

\* Whoever is on the same page with the same lines under way stays in place.
LEMMA StaysPlaced ==
    ASSUME NEW d \in Client, Placed(d), Unmoved(d), SamePage(d)
    PROVE  Placed(d)'
<1>1. OneLogin(d)'
  BY DEF Placed, OneLogin, Unmoved, SamePage, Fewer, Moves, News
<1>2. FreshLogin(d)'
  BY DEF Placed, FreshLogin, Unmoved, SamePage, Fewer, Moves, News
<1>3. ASSUME window'[d].loggedIn
      PROVE  (Outside(d) \/ Arriving(d) \/ Inside(d) \/ Going(d))'
  <2>1. window[d].loggedIn
    BY <1>3 DEF SamePage
  <2>2. CASE Outside(d)
    BY <2>1, <2>2 DEF Outside, Unmoved, SamePage, Fewer, Moves, News
  <2>3. CASE Arriving(d)
    BY <2>1, <2>3 DEF Arriving, Unmoved, SamePage, Fewer, Moves, News
  <2>4. CASE Inside(d)
    BY <2>1, <2>4 DEF Inside, Unmoved, SamePage, Fewer, Moves, News
  <2>5. CASE Going(d)
    BY <2>1, <2>5 DEF Going, Unmoved, SamePage, Fewer, Moves, News
  <2> QED
    BY <2>1, <2>2, <2>3, <2>4, <2>5 DEF Placed
<1> QED
  BY <1>1, <1>2, <1>3 DEF Placed

-----------------------------------------------------------------------------
\* What a connected client does.

\* It writes nothing of importance, having heard nothing of importance.
LEMMA WritesUnmoved ==
    ASSUME TypeOK, NEW c \in Client, UNCHANGED serverVars,
           NEW msgs \in Seq(Request), Writes(c, msgs),
           \A t \in Moves : ~Has(msgs, t),
           \/ toClient'[c] = toClient[c]
           \/ \E types : Receives(c, types) /\ types \cap News = {}
    PROVE  Unmoved(c)
<1> DEFINE q == toServer[c]
           a == toClient[c]
<1>1. q \in Seq(Request) /\ a \in Seq(Reply)
  BY DEF TypeOK, ProtocolTypeOK
<1>2. PICK s \in Seq(Request) : /\ toServer'[c] = q \o s
                                /\ \A t : Has(s, t) => Has(msgs, t)
  BY WritesThrough
<1>3. Fewer(q, q \o s, Moves) /\ (Has(q, "leave_room") => Has(q \o s, "leave_room"))
  BY <1>1, <1>2, FewerGrown DEF Moves
<1>4. /\ Fewer(a, toClient'[c], News)
      /\ \A t \in Entered : Has(a, t) => Has(toClient'[c], t)
      /\ \A m \in Lines(toClient'[c]) : m.type \in News => m \in Lines(a)
  <2>1. CASE toClient'[c] = a
    BY <2>1, FewerSame
  <2>2. ASSUME NEW types, Receives(c, types), types \cap News = {}
        PROVE  /\ Fewer(a, toClient'[c], News)
               /\ \A t \in Entered : Has(a, t) => Has(toClient'[c], t)
               /\ \A m \in Lines(toClient'[c]) :
                     m.type \in News => m \in Lines(a)
    <3>1. toClient'[c] = Tail(a) /\ a # <<>> /\ Head(a).type \notin News
      BY <2>2 DEF Receives, TypeOK, ProtocolTypeOK
    <3>2. /\ Fewer(a, Tail(a), News)
          /\ \A t : Has(a, t) /\ Head(a).type # t => Has(Tail(a), t)
          /\ \A m \in Lines(Tail(a)) : m \in Lines(a)
      BY <1>1, <3>1, FewerRead
    <3> QED
      BY <3>1, <3>2 DEF News
  <2> QED
    BY <2>1, <2>2
<1> QED
  BY <1>2, <1>3, <1>4 DEF Unmoved, serverVars

\* It writes nothing at all.
LEMMA SilentUnmoved ==
    ASSUME TypeOK, NEW c \in Client, UNCHANGED serverVars, toServer' = toServer,
           \/ toClient'[c] = toClient[c]
           \/ \E types : Receives(c, types) /\ types \cap News = {}
    PROVE  Unmoved(c)
<1>1. /\ <<>> \in Seq(Request) /\ \A t : ~Has(<<>>, t)
      /\ toServer[c] \o <<>> = toServer[c]
  BY ConcatEmptySeq DEF Has, TypeOK, ProtocolTypeOK
<1>2. Writes(c, <<>>)
  BY <1>1 DEF Writes, TypeOK, ProtocolTypeOK
<1> QED
  BY <1>1, <1>2, WritesUnmoved

\* Working on a page, or going to another one that is not the rooms'.
LEMMA TalkPlaced ==
    ASSUME TypeOK, NEW c \in Client, Placed(c), PagesFollowLogin(c),
           UNCHANGED serverVars,
           \/ GoToRegister(c) \/ GoToLogin(c)
           \/ OpenNewRoomDialog(c) \/ refresh(c)
           \/ OpenTasks(c) \/ CloseTasks(c)
           \/ \E t \in Text : EditCode(c, t)
           \/ \E t \in ChatText : sendChat(c, t)
           \/ \E u \in User, p \in Password : onRegisterAttempt(c, u, p)
           \/ codeSyncTriggered(c)
    PROVE  Placed(c)'
<1>1. window[c] \in Window /\ window \in [Client -> Window] /\ dash[c].editor \in Text
  BY DEF TypeOK, ClientTypeOK, Dash
<1>2. CASE \/ GoToRegister(c) \/ GoToLogin(c) \/ OpenNewRoomDialog(c)
           \/ OpenTasks(c) \/ CloseTasks(c) \/ \E t \in Text : EditCode(c, t)
  <2>1. /\ window'[c].loggedIn = window[c].loggedIn
        /\ window'[c].currentUser = window[c].currentUser
        /\ window'[c].currentRoomId = window[c].currentRoomId
        /\ \/ window'[c].page = window[c].page
           \/ {window'[c].page, window[c].page} \subseteq {"dashboard", "tasks"}
           \/ window[c].page \in {"login", "register"}
    <3>1. CASE OpenNewRoomDialog(c) \/ \E t \in Text : EditCode(c, t)
      BY <1>1, <3>1 DEF OpenNewRoomDialog, EditCode, Window
    <3>2. CASE GoToRegister(c) \/ GoToLogin(c) \/ OpenTasks(c) \/ CloseTasks(c)
      BY <1>1, <3>2
      DEF GoToRegister, GoToLogin, OpenTasks, CloseTasks, At, Window
    <3> QED
      BY <1>2, <3>1, <3>2
  <2>5. SamePage(c)
    BY <2>1 DEF SamePage, PagesFollowLogin
  <2>2. UNCHANGED protocolVars
    BY <1>2
    DEF GoToRegister, GoToLogin, OpenNewRoomDialog, OpenTasks, CloseTasks,
        EditCode
  <2> QED
    BY <2>2, <2>5, SilentUnmoved, StaysPlaced DEF protocolVars
<1>3. CASE \/ refresh(c) \/ codeSyncTriggered(c)
           \/ \E t \in ChatText : sendChat(c, t)
           \/ \E u \in User, p \in Password : onRegisterAttempt(c, u, p)
  <2>1. \E m \in Request :
           /\ Sends(c, <<m>>) /\ m.type \notin Moves
    <3>1. CASE refresh(c)
      BY <3>1, RequestValues DEF refresh, GetRooms, Moves, Entering
    <3>2. CASE codeSyncTriggered(c)
      <4> DEFINE m == [type |-> "code_update", code |-> dash[c].editor,
                       room_id |-> window[c].currentRoomId]
      <4>1. m \in Request /\ m.type \notin Moves
        BY <1>1, RequestValues DEF Window, Moves, Entering
      <4> QED
        BY <3>2, <4>1 DEF codeSyncTriggered
    <3>3. ASSUME NEW t \in ChatText, sendChat(c, t)
          PROVE  \E m \in Request : Sends(c, <<m>>) /\ m.type \notin Moves
      <4> DEFINE m == [type |-> "chat_message", sender |-> window[c].currentUser,
                       room_id |-> window[c].currentRoomId, text |-> t]
      <4>1. m \in Request /\ m.type \notin Moves
        BY <1>1, RequestValues DEF Window, Moves, Entering
      <4> QED
        BY <3>3, <4>1 DEF sendChat
    <3>4. ASSUME NEW u \in User, NEW p \in Password, onRegisterAttempt(c, u, p)
          PROVE  \E m \in Request : Sends(c, <<m>>) /\ m.type \notin Moves
      <4>1. RegisterMsg(u, p) \in Request /\ RegisterMsg(u, p).type \notin Moves
        BY RequestValues DEF RegisterMsg, Moves, Entering
      <4> QED
        BY <3>4, <4>1 DEF onRegisterAttempt
    <3> QED
      BY <1>3, <3>1, <3>2, <3>3, <3>4
  <2>2. PICK m \in Request : Sends(c, <<m>>) /\ m.type \notin Moves
    BY <2>1
  <2>3. <<m>> \in Seq(Request) /\ \A t \in Moves : ~Has(<<m>>, t)
    BY <2>2 DEF Has
  <2>4. Unmoved(c)
    BY <2>2, <2>3, WritesUnmoved DEF Sends
  <2>5. SamePage(c)
    BY <1>1, <1>3
    DEF refresh, codeSyncTriggered, sendChat, onRegisterAttempt, SamePage,
        clientVars, Window
  <2> QED
    BY <2>4, <2>5, StaysPlaced
<1> QED
  BY <1>2, <1>3

\* What q means when one line is added to it.
LEMMA OneMore ==
    ASSUME NEW S, NEW q \in Seq(S), NEW m \in S
    PROVE  /\ \A t : Has(q \o <<m>>, t) <=> Has(q, t) \/ m.type = t
           /\ \A t, u : NoneAfter(q, t, u) /\ (~Has(q, t) \/ m.type # u)
                           => NoneAfter(q \o <<m>>, t, u)
<1>1. <<m>> \in Seq(S) /\ \A t : Has(<<m>>, t) <=> m.type = t
  BY DEF Has
<1>2. \A t : Has(q \o <<m>>, t) => Has(q, t) \/ Has(<<m>>, t)
  BY <1>1, HasGrows
<1>3. /\ \A i \in DOMAIN q : i \in DOMAIN (q \o <<m>>) /\ (q \o <<m>>)[i] = q[i]
      /\ Len(q) + 1 \in DOMAIN (q \o <<m>>) /\ (q \o <<m>>)[Len(q) + 1] = m
  BY QueueEndsWith, ConcatProperties, LenProperties
<1>4. \A t : Has(q, t) \/ m.type = t => Has(q \o <<m>>, t)
  BY <1>3 DEF Has
<1>5. \A t, u : NoneAfter(<<m>>, t, u)
  BY DEF NoneAfter
<1>6. ASSUME NEW t, NEW u, NoneAfter(q, t, u), ~Has(q, t) \/ m.type # u
      PROVE  NoneAfter(q \o <<m>>, t, u)
  BY <1>1, <1>5, <1>6, NoneAfterGrows
<1> QED
  BY <1>1, <1>2, <1>4, <1>6

\* The lines q then holds.
LEMMA LinesOneMore ==
    ASSUME NEW S, NEW q \in Seq(S), NEW m \in S
    PROVE  \A n \in Lines(q \o <<m>>) : n \in Lines(q) \/ n = m
<1>1. <<m>> \in Seq(S) /\ \A n \in Lines(<<m>>) : n = m
  BY DEF Lines
<1>2. \A n : n \in Lines(q \o <<m>>) <=> n \in Lines(q) \/ n \in Lines(<<m>>)
  BY <1>1, LinesGrow
<1> QED
  BY <1>1, <1>2

\* What a connected client adds to its queue.
LEMMA SendsOne ==
    ASSUME TypeOK, NEW c \in Client, conn[c] = "open", NEW m \in Request,
           Writes(c, <<m>>)
    PROVE  /\ toServer'[c] = toServer[c] \o <<m>>
           /\ \A t : Has(toServer'[c], t) <=> Has(toServer[c], t) \/ m.type = t
           /\ \A t, u : NoneAfter(toServer[c], t, u)
                        /\ (~Has(toServer[c], t) \/ m.type # u)
                           => NoneAfter(toServer'[c], t, u)
<1>1. PICK q \in Seq(Request) : q = toServer[c] /\ toServer'[c] = q \o <<m>>
  BY DEF Writes, TypeOK, ProtocolTypeOK
<1>2. /\ \A t : Has(q \o <<m>>, t) <=> Has(q, t) \/ m.type = t
      /\ \A t, u : NoneAfter(q, t, u) /\ (~Has(q, t) \/ m.type # u)
                      => NoneAfter(q \o <<m>>, t, u)
  BY OneMore
<1> QED
  BY <1>1, <1>2

\* Logging in, when no login is waiting.
LEMMA LoginPlaced ==
    ASSUME TypeOK, NEW c \in Client, conn[c] = "open", Placed(c),
           PagesFollowLogin(c), UNCHANGED serverVars,
           NEW u \in User, NEW p \in Password, ~LoginOutstanding(c),
           onLoginAttempt(c, u, p)
    PROVE  Placed(c)'
<1> DEFINE m == LoginMsg(u, p)
<1>1. /\ m \in Request /\ m.type = "login" /\ Writes(c, <<m>>)
      /\ toClient' = toClient /\ ~window[c].loggedIn
  BY RequestValues
  DEF LoginMsg, onLoginAttempt, Sends, LoginClicked, At, PagesFollowLogin
<1>2. ~Has(toServer[c], "login") /\ ~Has(toClient[c], "login_success")
  BY DEF LoginOutstanding, Lines, Has
<1>3. ~window'[c].loggedIn
  BY <1>1 DEF onLoginAttempt, TypeOK, ClientTypeOK, Window
<1> HIDE DEF m
<1>4. OneLogin(c)'
  BY <1>1, <1>2, <1>3, SendsOne DEF Placed, OneLogin
<1>5. FreshLogin(c)'
  BY <1>1, <1>2, <1>3, SendsOne DEF Placed, FreshLogin, Entering, serverVars
<1> QED
  BY <1>3, <1>4, <1>5 DEF Placed

\* Asking for a room.
LEMMA AskingPlaced ==
    ASSUME TypeOK, NEW c \in Client, conn[c] = "open", Placed(c),
           window[c].loggedIn, UNCHANGED serverVars,
           NEW m \in Request, m.type \in Entering, Sends(c, <<m>>),
           SamePage(c)
    PROVE  Placed(c)'
<1>1. Writes(c, <<m>>) /\ toClient' = toClient /\ m.type \notin {"login", "leave_room"}
  BY DEF Sends, Entering
<1>2. ~Has(toServer[c], "login") /\ ~Has(toClient[c], "login_success")
  BY DEF Placed, OneLogin
<1>3. OneLogin(c)'
  BY <1>1, <1>2, SendsOne DEF Placed, OneLogin, SamePage
<1>4. FreshLogin(c)'
  BY <1>1, <1>2, SendsOne DEF Placed, FreshLogin, SamePage, serverVars
<1>5. CASE Outside(c)
  BY <1>1, <1>3, <1>4, <1>5, SendsOne DEF Placed, Outside, SamePage, serverVars
<1>6. CASE Arriving(c)
  BY <1>1, <1>3, <1>4, <1>6, SendsOne DEF Placed, Arriving, SamePage, serverVars
<1>7. CASE Inside(c)
  BY <1>1, <1>3, <1>4, <1>7, SendsOne DEF Placed, Inside, SamePage, serverVars
<1>8. CASE Going(c)
  BY <1>1, <1>3, <1>4, <1>8, SendsOne DEF Placed, Going, SamePage, serverVars
<1> QED
  BY <1>5, <1>6, <1>7, <1>8 DEF Placed

\* Asking for a new room or to join one.
LEMMA EntryPlaced ==
    ASSUME TypeOK, NEW c \in Client, conn[c] = "open", Placed(c),
           PagesFollowLogin(c), UNCHANGED serverVars,
           CloseNewRoomDialog(c) \/ \E r \in window[c].roomList : onJoinClicked(c, r)
    PROVE  Placed(c)'
<1>1. /\ window[c] \in Window /\ window \in [Client -> Window]
      /\ window[c].loggedIn
  BY DEF CloseNewRoomDialog, onJoinClicked, At, PagesFollowLogin, TypeOK,
         ClientTypeOK
<1>2. SamePage(c)
  BY <1>1
  DEF CloseNewRoomDialog, onJoinClicked, clientVars, SamePage, Window
<1>3. CASE UNCHANGED protocolVars
  BY <1>2, <1>3, SilentUnmoved, StaysPlaced DEF protocolVars
<1>4. ASSUME NEW m \in Request, m.type \in Entering, Sends(c, <<m>>)
      PROVE  Placed(c)'
  BY <1>1, <1>2, <1>4, AskingPlaced
<1>5. CASE CloseNewRoomDialog(c)
  <2>1. /\ [type |-> "create_room"] \in Request
        /\ [type |-> "create_room"].type \in Entering
    BY RequestValues DEF Entering
  <2> QED
    BY <1>3, <1>4, <1>5, <2>1 DEF CloseNewRoomDialog
<1>6. ASSUME NEW r \in window[c].roomList, onJoinClicked(c, r)
      PROVE  Placed(c)'
  <2> DEFINE m == [type |-> "join_room", room_id |-> r]
  <2>1. m \in Request /\ m.type \in Entering
    BY <1>1, RequestValues DEF Window, Entering
  <2> QED
    BY <1>4, <1>6, <2>1 DEF onJoinClicked
<1> QED
  BY <1>5, <1>6

\* Going back to the rooms, or logging out.
LEMMA LeavingPlaced ==
    ASSUME TypeOK, NEW c \in Client, conn[c] = "open", Placed(c),
           UNCHANGED serverVars, BackToRooms(c) \/ logout(c)
    PROVE  Placed(c)'
<1>1. /\ LeaveRoom \in Request /\ LeaveRoom.type = "leave_room"
      /\ GetRooms \in Request /\ GetRooms.type = "get_rooms"
      /\ toServer[c] \in Seq(Request) /\ window \in [Client -> Window]
      /\ window[c] \in Window
  BY RequestValues DEF LeaveRoom, GetRooms, TypeOK, ProtocolTypeOK, ClientTypeOK
<1>2. CASE logout(c)
  <2>1. Writes(c, <<LeaveRoom>>) /\ toClient' = toClient /\ ~window'[c].loggedIn
    BY <1>1, <1>2 DEF logout, Sends, Window
  <2>2. OneLogin(c)'
    BY <1>1, <2>1, SendsOne DEF Placed, OneLogin
  <2>3. FreshLogin(c)'
    BY <1>1, <2>1, SendsOne DEF Placed, FreshLogin, Entering, serverVars
  <2> QED
    BY <2>1, <2>2, <2>3 DEF Placed
<1>3. CASE BackToRooms(c)
  <2> DEFINE q == toServer[c]
             z == q \o <<LeaveRoom>>
  <2>1. /\ toServer'[c] = q \o <<LeaveRoom, GetRooms>> /\ toClient' = toClient
        /\ window[c].loggedIn /\ window[c].page = "dashboard"
        /\ window'[c].loggedIn /\ window'[c].page = "room"
        /\ window'[c].currentUser = window[c].currentUser
    BY <1>1, <1>3
    DEF BackToRooms, At, Sends, Writes, Window, TypeOK, ProtocolTypeOK
  <2>2. toServer'[c] = z \o <<GetRooms>> /\ z \in Seq(Request)
    BY <1>1, <2>1
  <2>3. /\ \A t : Has(z, t) <=> Has(q, t) \/ t = "leave_room"
        /\ \A t, u : NoneAfter(q, t, u) /\ (~Has(q, t) \/ u # "leave_room")
                        => NoneAfter(z, t, u)
    BY <1>1, OneMore
  <2>4. /\ \A t : Has(toServer'[c], t) <=> Has(z, t) \/ t = "get_rooms"
        /\ \A t, u : NoneAfter(z, t, u) /\ u # "get_rooms"
                        => NoneAfter(toServer'[c], t, u)
    <3>1. /\ \A t : Has(z \o <<GetRooms>>, t) <=> Has(z, t) \/ GetRooms.type = t
          /\ \A t, u : NoneAfter(z, t, u) /\ (~Has(z, t) \/ GetRooms.type # u)
                          => NoneAfter(z \o <<GetRooms>>, t, u)
      BY <1>1, <2>2, OneMore
    <3> QED
      BY <1>1, <2>2, <3>1
  <2> HIDE DEF z
  <2>5. Inside(c)
    BY <2>1 DEF Placed, Outside, Arriving, Going
  <2>6. NoneAfter(q, "leave_room", "leave_room")
    BY <2>5 DEF Inside, Has, NoneAfter
  <2>7. Going(c)'
    BY <2>1, <2>3, <2>4, <2>5, <2>6 DEF Inside, Going, serverVars
  <2>8. OneLogin(c)'
    BY <2>1, <2>3, <2>4 DEF Placed, OneLogin
  <2>9. FreshLogin(c)'
    BY <2>1, <2>3, <2>4 DEF Placed, FreshLogin, Entering, serverVars
  <2> QED
    BY <2>7, <2>8, <2>9 DEF Placed
<1> QED
  BY <1>2, <1>3

\* A message that arrives.
LEMMA DispatchPlaced ==
    ASSUME TypeOK, NEW c \in Client, conn[c] = "open", InOrder(c), Placed(c),
           UNCHANGED serverVars, dispatch(c)
    PROVE  Placed(c)'
<1> DEFINE q == toServer[c]
           a == toClient[c]
<1>1. /\ window[c] \in Window /\ window \in [Client -> Window]
      /\ q \in Seq(Request) /\ a \in Seq(Reply)
      /\ GetRooms \in Request /\ GetRooms.type \notin Moves
  BY RequestValues
  DEF TypeOK, ClientTypeOK, ProtocolTypeOK, GetRooms, Moves, Entering
<1>2. /\ <<GetRooms>> \in Seq(Request)
      /\ \A t \in Moves : ~Has(<<GetRooms>>, t)
  BY <1>1 DEF Has
<1>3. \A types : Receives(c, types) =>
         /\ a # <<>> /\ Head(a).type \in types /\ toClient'[c] = Tail(a)
         /\ Has(a, Head(a).type)
  BY <1>1, QueueTail DEF Receives, Has, TypeOK, ProtocolTypeOK
<1>4. CASE loginSuccess(c)
  <2>1. /\ a # <<>> /\ Head(a).type = "login_success" /\ toClient'[c] = Tail(a)
        /\ Has(a, "login_success") /\ Writes(c, <<GetRooms>>)
    BY <1>3, <1>4 DEF loginSuccess
  <2>2. /\ window'[c].currentUser = Head(a).username /\ window'[c].loggedIn
        /\ window'[c].page = "room"
    BY <1>1, <1>4 DEF loginSuccess, Window
  <2>3. Head(a) \in Lines(a) /\ \A m \in Lines(Tail(a)) : m \in Lines(a)
    BY <1>1, <2>1, QueueTail, FewerRead DEF Lines
  <2>4. /\ ~Has(Tail(a), "login_success")
        /\ \A t \in Entered : ~Has(Tail(a), t)
    BY <1>1, <2>1, NoneAfterShrinks DEF Placed, OneLogin, FreshLogin
  <2>5. \A t : ~Has(Tail(a), t) => \A u : NoneAfter(Tail(a), t, u)
    BY DEF Has, NoneAfter
  <2>6. \A t \in Moves : Has(toServer'[c], t) => Has(q, t)
    BY <1>1, <2>1, SendsOne
  <2>7. /\ ~Has(toServer'[c], "login")
        /\ \A t \in Entering : ~Has(toServer'[c], t)
        /\ current_room'[c] = NoRoom
    BY <2>1, <2>6 DEF Placed, OneLogin, FreshLogin, Moves, serverVars
  <2>8. \A t : ~Has(toServer'[c], t) => \A u : NoneAfter(toServer'[c], t, u)
    BY DEF Has, NoneAfter
  <2>9. window'[c].currentUser = username'[c]
    BY <2>1, <2>2, <2>3 DEF Placed, FreshLogin, serverVars
  <2>10. OneLogin(c)'
    BY <2>1, <2>4, <2>5, <2>7, <2>8 DEF OneLogin
  <2>11. FreshLogin(c)'
    <3>1. \A m \in Lines(Tail(a)) : m.type # "login_success"
      BY <2>4 DEF Lines, Has
    <3> QED
      BY <2>1, <2>4, <2>5, <2>7, <2>8, <2>9, <3>1 DEF FreshLogin
  <2>12. Outside(c)'
    BY <2>1, <2>2, <2>4, <2>7, <2>8 DEF Outside
  <2> QED
    BY <2>10, <2>11, <2>12 DEF Placed
<1>5. CASE roomEntered(c)
  <2>1. /\ a # <<>> /\ Head(a).type \in Entered /\ toClient'[c] = Tail(a)
        /\ Has(a, Head(a).type) /\ toServer' = toServer
    BY <1>3, <1>5 DEF roomEntered, Entered
  <2>2. /\ window'[c].currentUser = window[c].currentUser
        /\ window'[c].loggedIn = window[c].loggedIn
        /\ window'[c].page = "dashboard"
        /\ window'[c].currentRoomId = Head(a).room_id
    BY <1>1, <1>5 DEF roomEntered, Window
  <2>3. /\ Head(a) \in Lines(a) /\ \A m \in Lines(Tail(a)) : m \in Lines(a)
        /\ Fewer(a, Tail(a), News)
    BY <1>1, <2>1, QueueTail, FewerRead DEF Lines
  <2>4. OneLogin(c)'
    BY <2>1, <2>2, <2>3 DEF Placed, OneLogin, Fewer, News
  <2>5. FreshLogin(c)'
    BY <2>1, <2>2, <2>3 DEF Placed, FreshLogin, Fewer, News, serverVars
  <2>6. ASSUME window[c].loggedIn PROVE Inside(c)'
    <3>1. Arriving(c)
      BY <2>1, <2>6 DEF Placed, Outside, Inside, Going
    <3>2. \A t \in Entered : ~Has(Tail(a), t)
      BY <1>1, <2>1, <3>1, NoneAfterShrinks DEF Arriving
    <3> QED
      BY <2>1, <2>2, <2>3, <3>1, <3>2 DEF Arriving, Inside, serverVars
  <2> QED
    BY <2>2, <2>4, <2>5, <2>6 DEF Placed
<1>6. CASE userLeft(c)
  <2>1. /\ Receives(c, {"user_left"}) /\ Writes(c, <<GetRooms>>)
        /\ {"user_left"} \cap News = {} /\ window' = window
    BY <1>6 DEF userLeft, News, Entered, clientVars
  <2> QED
    BY <1>2, <2>1, WritesUnmoved, StaysPlaced DEF SamePage
<1>7. CASE registerSuccess(c)
  <2>1. /\ Receives(c, {"register_success"}) /\ toServer' = toServer
        /\ {"register_success"} \cap News = {}
        /\ window'[c].loggedIn = window[c].loggedIn
    BY <1>1, <1>7 DEF registerSuccess, News, Entered, Window
  <2>2. ~window[c].loggedIn
    BY <1>3, <2>1 DEF InOrder, RegistersFirst
  <2> QED
    BY <2>1, <2>2, SilentUnmoved, StaysPlaced DEF SamePage
<1>8. CASE \/ loginFailed(c) \/ registerFailed(c) \/ onRoomList(c)
           \/ onJoinFailed(c) \/ memberListReceived(c) \/ userJoined(c)
           \/ codeUpdated(c) \/ chatReceived(c)
  <2>1. /\ \E types : Receives(c, types) /\ types \cap News = {}
        /\ toServer' = toServer
    BY <1>8
    DEF loginFailed, registerFailed, onRoomList, onJoinFailed,
        memberListReceived, userJoined, codeUpdated, chatReceived, clientVars,
        News, Entered
  <2>2. SamePage(c)
    BY <1>1, <1>8
    DEF loginFailed, registerFailed, onRoomList, onJoinFailed,
        memberListReceived, userJoined, codeUpdated, chatReceived, clientVars,
        Window, SamePage
  <2> QED
    BY <2>1, <2>2, SilentUnmoved, StaysPlaced
<1> QED
  BY <1>4, <1>5, <1>6, <1>7, <1>8 DEF dispatch

\* A program that starts has neither sent nor heard anything.
LEMMA LaunchPlaced ==
    ASSUME NEW c \in Client, InOrder(c), UNCHANGED serverVars, Launch(c)
    PROVE  Placed(c)'
<1>1. /\ toServer'[c] = <<>> /\ toClient'[c] = <<>> /\ ~window'[c].loggedIn
  BY DEF InOrder, StartsEmpty, Launch, clientVars, MainWindow
<1>2. /\ \A t : ~Has(<<>>, t) /\ \A u : NoneAfter(<<>>, t, u)
      /\ Lines(<<>>) = {}
  BY DEF Has, NoneAfter, Lines
<1> QED
  BY <1>1, <1>2 DEF Placed, OneLogin, FreshLogin

-----------------------------------------------------------------------------
\* What the server does.

\* Which handlers move a session, and which name it.
LEMMA HandlerMoves ==
    ASSUME TypeOK, NEW c \in Client, ServerStep(c), ~HandleDisconnect(c)
    PROVE  LET m == Head(toServer[c]) IN
           /\ toServer[c] # <<>> /\ toServer'[c] = Tail(toServer[c])
           /\ conn' = conn
           /\ \/ current_room'[c] = current_room[c]
              \/ m.type \in Entering /\ current_room[c] = NoRoom
              \/ m.type = "leave_room"
           /\ m.type = "leave_room" => current_room'[c] = NoRoom
           /\ \/ username'[c] = username[c]
              \/ m.type = "login" /\ HandleLogin(c)
              \/ m.type = "session_restore"
           /\ \A d \in Client \ {c} :
                 /\ toServer'[d] = toServer[d] /\ username'[d] = username[d]
                 /\ current_room'[d] = current_room[d]
<1> USE DEF TypeOK, ProtocolTypeOK, ServerTypeOK, Reads
<1>1. CASE HandleRegister(c) \/ HandleLogin(c) \/ HandleSessionRestore(c)
  BY <1>1 DEF HandleRegister, HandleLogin, HandleSessionRestore
<1>2. CASE HandleCreateRoom(c) \/ HandleJoinRoom(c)
  BY <1>2 DEF HandleCreateRoom, HandleJoinRoom, MayEnter, Entering
<1>3. CASE HandleLeaveRoom(c)
  BY <1>3 DEF HandleLeaveRoom, Vacate
<1>4. CASE \/ HandleGetRooms(c) \/ HandleCodeUpdate(c)
           \/ HandleChatMessage(c) \/ SkipMalformed(c)
  BY <1>4
  DEF HandleGetRooms, HandleCodeUpdate, HandleChatMessage, SkipMalformed,
      serverVars
<1> QED
  BY <1>1, <1>2, <1>3, <1>4 DEF ServerStep

\* Whoever is not read from stays where it is.
LEMMA HearsPlaced ==
    ASSUME TypeOK, NEW c \in Client, ServerStep(c), UNCHANGED clientVars,
           NEW d \in Client \ {c}, conn'[d] = "open", Placed(d)
    PROVE  Placed(d)'
<1> DEFINE a == toClient[d]
<1>1. PICK out \in Outgoing : Post(out) /\ Carries(c, out)
  BY ServerNews
<1>2. /\ conn[d] = "open" /\ toServer'[d] = toServer[d]
      /\ username'[d] = username[d] /\ current_room'[d] = current_room[d]
  <2>1. CASE HandleDisconnect(c)
    BY <2>1, VacateTalks
    DEF HandleDisconnect, TypeOK, ProtocolTypeOK
  <2>2. CASE ~HandleDisconnect(c)
    BY <2>2, HandlerMoves
  <2> QED
    BY <2>1, <2>2
<1>3. PICK s \in Seq(Reply) : s = out[d] /\ toClient'[d] = a \o s
  BY <1>1, <1>2, PostReaches
<1>4. \A t \in News : ~Has(s, t)
  BY <1>1, <1>3 DEF Carries, Fits, News, Has, Lines
<1>5. a \in Seq(Reply)
  BY DEF TypeOK, ProtocolTypeOK
<1>6. /\ Fewer(a, a \o s, News)
      /\ \A t \in News : Has(a, t) => Has(a \o s, t)
      /\ \A m \in Lines(a \o s) : m.type \in News => m \in Lines(a)
  BY <1>4, <1>5, FewerGrown
<1>7. Unmoved(d)
  BY <1>2, <1>3, <1>6, FewerSame DEF Unmoved, News
<1> QED
  BY <1>7, StaysPlaced DEF SamePage, clientVars

\* The answer to a login.
LEMMA AnsweredPlaced ==
    ASSUME TypeOK, NEW c \in Client, conn[c] = "open", InOrder(c), Placed(c),
           UNCHANGED clientVars, HandleLogin(c)
    PROVE  Placed(c)'
<1>1. PICK q \in Seq(Request), a \in Seq(Reply) : q = toServer[c] /\ a = toClient[c]
  BY DEF TypeOK, ProtocolTypeOK
<1>2. /\ q # <<>> /\ toServer'[c] = Tail(q) /\ Head(q).type = "login"
      /\ current_room'[c] = current_room[c] /\ window'[c] = window[c]
      /\ Has(q, "login") /\ 1 \in DOMAIN q /\ Head(q) = q[1]
  BY <1>1, QueueTail
  DEF HandleLogin, Reads, clientVars, Has, TypeOK, ProtocolTypeOK
<1>3. ~window[c].loggedIn /\ ~Has(a, "login_success")
  BY <1>1, <1>2 DEF Placed, OneLogin
<1>4. current_room[c] = NoRoom
  BY <1>1, <1>2 DEF InOrder, LoginsOutside, OutBy
<1>5. /\ Fewer(q, Tail(q), Moves) /\ ~Has(Tail(q), "login")
      /\ \A t \in Entering : ~Has(Tail(q), t)
  BY <1>1, <1>2, FewerRead, NoneAfterShrinks DEF Placed, OneLogin, FreshLogin
<1>6. CASE toClient'[c] = a
  <2>1. OneLogin(c)'
    BY <1>1, <1>2, <1>3, <1>5, <1>6 DEF Placed, OneLogin, Fewer, Moves
  <2>2. FreshLogin(c)'
    <3>1. \A m \in Lines(a) : m.type # "login_success"
      BY <1>3 DEF Lines, Has
    <3> QED
      BY <1>1, <1>2, <1>3, <1>5, <1>6, <3>1
      DEF Placed, FreshLogin, Fewer, Moves
  <2> QED
    BY <1>2, <1>3, <2>1, <2>2 DEF Placed
<1>7. ASSUME NEW m \in Reply, toClient'[c] = a \o <<m>>,
             m.type \in {"login_success", "login_failed"},
             m.type = "login_success" => m.username = username'[c]
      PROVE  Placed(c)'
  <2>1. /\ \A t : Has(a \o <<m>>, t) <=> Has(a, t) \/ m.type = t
        /\ \A t, u : NoneAfter(a, t, u) /\ (~Has(a, t) \/ m.type # u)
                        => NoneAfter(a \o <<m>>, t, u)
    BY <1>7, OneMore
  <2>2. OneLogin(c)'
    BY <1>1, <1>2, <1>3, <1>5, <1>7, <2>1 DEF Placed, OneLogin, Fewer, Moves
  <2>3. \A n \in Lines(a \o <<m>>) :
           n.type = "login_success" => n.username = username'[c]
    <3>1. \A n \in Lines(a) : n.type # "login_success"
      BY <1>3 DEF Lines, Has
    <3>2. \A n \in Lines(a \o <<m>>) : n \in Lines(a) \/ n = m
      BY <1>7, LinesOneMore
    <3> QED
      BY <1>7, <3>1, <3>2
  <2>4. FreshLogin(c)'
    BY <1>1, <1>2, <1>3, <1>4, <1>5, <1>7, <2>1, <2>3
    DEF Placed, FreshLogin, Fewer, Moves, Entered
  <2> QED
    BY <1>2, <1>3, <2>2, <2>4 DEF Placed
<1>8. \/ UNCHANGED toClient
      \/ \E m \in Reply : /\ Post(To({c}, m))
                          /\ m.type \in {"login_success", "login_failed"}
                          /\ m.type = "login_success" => m.username = username'[c]
  <2> DEFINE msg == Head(toServer[c])
  <2>1. /\ [type |-> "login_failed"] \in Reply
        /\ msg.username \in Name
    BY <1>1, <1>2, ReadsType, RequestFields DEF HandleLogin, TypeOK, Reply
  <2>2. [type |-> "login_success", username |-> msg.username] \in Reply
    BY <2>1 DEF Reply
  <2>3. MayLogIn(msg) => username'[c] = msg.username
    BY DEF HandleLogin, TypeOK, ServerTypeOK
  <2>4. CASE MayLogIn(msg)
    <3>1. \/ UNCHANGED toClient
          \/ Post(To({c}, [type |-> "login_success",
                           username |-> msg.username]))
      BY <2>4 DEF HandleLogin
    <3> QED
      BY <2>2, <2>3, <2>4, <3>1
  <2>5. CASE ~MayLogIn(msg)
    BY <2>1, <2>5 DEF HandleLogin
  <2> QED
    BY <2>4, <2>5
<1>9. \A m : Post(To({c}, m)) => toClient'[c] = a \o <<m>>
  BY <1>1 DEF Post, To
<1> QED
  BY <1>1, <1>6, <1>7, <1>8, <1>9

\* Any other line.
LEMMA ServedPlaced ==
    ASSUME TypeOK, NEW c \in Client, conn[c] = "open", InOrder(c), Placed(c),
           UNCHANGED clientVars, ServerStep(c),
           ~HandleDisconnect(c), ~HandleLogin(c)
    PROVE  Placed(c)'
<1>1. PICK q \in Seq(Request), a \in Seq(Reply) : q = toServer[c] /\ a = toClient[c]
  BY DEF TypeOK, ProtocolTypeOK
<1> DEFINE m == Head(q)
           b == toClient'[c]
<1>2. /\ q # <<>> /\ toServer'[c] = Tail(q) /\ window'[c] = window[c]
      /\ Has(q, m.type)
      /\ \/ current_room'[c] = current_room[c]
         \/ m.type \in Entering /\ current_room[c] = NoRoom
         \/ m.type = "leave_room"
      /\ m.type = "leave_room" => current_room'[c] = NoRoom
  BY <1>1, HandlerMoves, QueueTail DEF Has, clientVars
<1>3. username'[c] = username[c]
  BY <1>1, <1>2, HandlerMoves DEF InOrder, NamedInside
<1>4. PICK out \in Outgoing : Post(out) /\ Carries(c, out) /\ Welcomes(c, out)
  BY ServerNews
<1>5. PICK s \in Seq(Reply) : s = out[c] /\ b = a \o s
  BY <1>1, <1>4, PostReaches
<1>6. /\ ~Has(s, "login_success")
      /\ \A t \in Entered : Has(s, t) =>
            /\ m.type \in Entering /\ current_room[c] = NoRoom
            /\ current_room'[c] # NoRoom
      /\ \A n \in Lines(s) : n.type \in Entered => n.room_id = current_room'[c]
  <2>1. ~Reads(c, "login")
    BY DEF ServerStep, HandleSessionRestore, HandleRegister, HandleGetRooms,
           HandleCreateRoom, HandleJoinRoom, HandleLeaveRoom, HandleCodeUpdate,
           HandleChatMessage, SkipMalformed, Reads
  <2>2. Reads(c, "create_room") \/ Reads(c, "join_room") => m.type \in Entering
    BY <1>1 DEF Reads, Entering
  <2> QED
    BY <1>4, <1>5, <2>1, <2>2 DEF Carries, Fits, Has, Lines, Entered
<1>7. \A n : n \in Lines(b) <=> n \in Lines(a) \/ n \in Lines(s)
  BY <1>5, LinesGrow
<1>8. /\ \A t : Has(b, t) => Has(a, t) \/ Has(s, t)
      /\ \A t, u : /\ NoneAfter(a, t, u) /\ NoneAfter(s, t, u)
                   /\ ~Has(a, t) \/ ~Has(s, u)
                   => NoneAfter(b, t, u)
  BY <1>5, HasGrows, NoneAfterGrows
<1>9. /\ Fewer(q, Tail(q), Moves)
      /\ \A t : Has(q, t) /\ m.type # t => Has(Tail(q), t)
  BY <1>1, <1>2, FewerRead
<1>10. \A t, u : ~Has(s, t) \/ ~Has(s, u) => NoneAfter(s, t, u)
  BY DEF Has, NoneAfter
<1> HIDE DEF b
<1>11. OneLogin(c)'
  BY <1>1, <1>2, <1>6, <1>8, <1>9, <1>10
  DEF Placed, OneLogin, Fewer, Moves, b
<1>12. FreshLogin(c)'
  <2>1. \A t \in Entering : NoneAfter(Tail(q), "login", t)
    BY <1>1, <1>9 DEF Placed, FreshLogin, Fewer, Moves
  <2>2. ASSUME NEW t \in Entered PROVE NoneAfter(b, "login_success", t)
    <3>1. ~Has(a, "login_success") \/ ~Has(s, t)
      BY <1>1, <1>2, <1>6 DEF Placed, FreshLogin
    <3> QED
      BY <1>1, <1>6, <1>8, <1>10, <3>1 DEF Placed, FreshLogin
  <2>3. Has(b, "login_success") =>
           /\ current_room'[c] = NoRoom
           /\ \A t \in Entering : ~Has(Tail(q), t)
    BY <1>1, <1>2, <1>6, <1>8, <1>9 DEF Placed, FreshLogin, Fewer, Moves
  <2>4. \A n \in Lines(b) : n.type = "login_success" => n.username = username[c]
    <3>1. \A n \in Lines(s) : n.type # "login_success"
      BY <1>6 DEF Lines, Has
    <3>2. \A n \in Lines(a) : n.type = "login_success" => n.username = username[c]
      BY <1>1 DEF Placed, FreshLogin
    <3> QED
      BY <1>7, <3>1, <3>2
  <2> QED
    BY <1>1, <1>2, <1>3, <2>1, <2>2, <2>3, <2>4 DEF Placed, FreshLogin, b
<1>13. ASSUME window[c].loggedIn
       PROVE  (Outside(c) \/ Arriving(c) \/ Inside(c) \/ Going(c))'
  <2>1. CASE Outside(c) /\ current_room'[c] = NoRoom
    BY <1>1, <1>2, <1>6, <1>8, <1>9, <2>1 DEF Outside, Fewer, Moves, b
  <2>2. CASE Outside(c) /\ current_room'[c] # NoRoom
    <3>1. /\ m.type \in Entering /\ window[c].page = "room"
          /\ \A t \in Entered : ~Has(a, t)
      BY <1>1, <1>2, <2>2 DEF Outside
    <3>2. ~Has(Tail(q), "leave_room")
      BY <1>1, <1>2, <2>2, <3>1, NoneAfterShrinks DEF Outside
    <3>3. /\ \E n \in Lines(s) : n.type \in Entered
          /\ \A t, u \in Entered : NoneAfter(s, t, u)
      BY <1>4, <1>5, <2>2 DEF Welcomes, Outside
    <3>4. \E t \in Entered : Has(b, t)
      BY <1>7, <3>3 DEF Lines, Has
    <3>5. \A t, u \in Entered : NoneAfter(a, t, u)
      BY <3>1 DEF Has, NoneAfter
    <3>6. \A t, u \in Entered : NoneAfter(b, t, u)
      BY <1>8, <3>1, <3>3, <3>5
    <3>7. \A n \in Lines(b) : n.type \in Entered => n.room_id = current_room'[c]
      BY <1>6, <1>7, <3>1 DEF Lines, Has
    <3>8. Arriving(c)'
      BY <1>2, <2>2, <3>1, <3>2, <3>4, <3>6, <3>7 DEF Arriving, b
    <3> QED
      BY <3>8
  <2>3. CASE Arriving(c)
    <3>1. /\ current_room'[c] = current_room[c]
          /\ \A t \in Entered : ~Has(s, t)
      BY <1>1, <1>2, <1>6, <2>3 DEF Arriving
    <3>5. \E n \in Lines(a) : n.type \in Entered
      BY <1>1, <2>3 DEF Arriving, Lines, Has
    <3>6. \E t \in Entered : Has(b, t)
      BY <1>7, <3>5 DEF Lines, Has
    <3>7. \A n \in Lines(s) : n.type \notin Entered
      BY <3>1 DEF Lines, Has
    <3>2. /\ \E t \in Entered : Has(b, t)
          /\ \A n \in Lines(b) : n.type \in Entered => n \in Lines(a)
      BY <1>7, <3>6, <3>7
    <3>3. \A t, u \in Entered : NoneAfter(b, t, u)
      BY <1>1, <1>8, <1>10, <2>3, <3>1 DEF Arriving
    <3>4. Arriving(c)'
      BY <1>1, <1>2, <1>9, <2>3, <3>1, <3>2, <3>3
      DEF Arriving, Fewer, Moves, b
    <3> QED
      BY <3>4
  <2>4. CASE Inside(c)
    BY <1>1, <1>2, <1>6, <1>8, <1>9, <2>4 DEF Inside, Fewer, Moves, b
  <2>5. CASE Going(c) /\ m.type # "leave_room"
    BY <1>1, <1>2, <1>6, <1>8, <1>9, <2>5 DEF Going, Fewer, Moves, b
  <2>6. CASE Going(c) /\ m.type = "leave_room"
    <3>1. ~Has(Tail(q), "leave_room")
      BY <1>1, <1>2, <2>6, NoneAfterShrinks DEF Going
    <3>2. \A t : NoneAfter(Tail(q), t, "leave_room")
      BY <3>1 DEF Has, NoneAfter
    <3>3. \A t \in Entered : ~Has(b, t)
      BY <1>1, <1>2, <1>6, <1>8, <2>6 DEF Going
    <3>4. Outside(c)'
      BY <1>2, <2>6, <3>2, <3>3 DEF Going, Outside, b
    <3> QED
      BY <3>4
  <2> QED
    BY <1>13, <2>1, <2>2, <2>3, <2>4, <2>5, <2>6 DEF Placed
<1> QED
  BY <1>2, <1>11, <1>12, <1>13 DEF Placed

\* A step of the server.
LEMMA ServerKeepsPlaced ==
    ASSUME TypeOK, LoginsInOrder, RoomsInOrder, NEW c \in Client, ServerTurn(c)
    PROVE  RoomsInOrder'
<1> SUFFICES ASSUME NEW d \in Client, conn'[d] = "open" PROVE Placed(d)'
  BY DEF RoomsInOrder
<1>1. ServerStep(c) /\ UNCHANGED clientVars
  BY DEF ServerTurn
<1>2. conn[d] = "open" /\ (HandleDisconnect(c) => d # c)
  <2>1. CASE HandleDisconnect(c)
    BY <2>1 DEF HandleDisconnect, TypeOK, ProtocolTypeOK
  <2>2. CASE ~HandleDisconnect(c)
    BY <1>1, <2>2, HandlerMoves
  <2> QED
    BY <2>1, <2>2
<1>3. Placed(d) /\ InOrder(d)
  BY <1>2 DEF RoomsInOrder, LoginsInOrder
<1>4. CASE d # c
  BY <1>1, <1>3, <1>4, HearsPlaced
<1>5. CASE d = c
  BY <1>1, <1>2, <1>3, <1>5, AnsweredPlaced, ServedPlaced
<1> QED
  BY <1>4, <1>5

\* Whatever a client does while no second login is asked for.
LEMMA ClientKeepsPlaced ==
    ASSUME ~LoginDuringLogin, TypeOK, LoginsInOrder, RoomsInOrder,
           NEW c \in Client, ClientTurn(c) \/ TimerTurn(c) \/ UserStep(c)
    PROVE  RoomsInOrder'
<1>1. UNCHANGED serverVars /\ InOrder(c) /\ PagesFollowLogin(c)
  BY DEF ClientTurn, TimerTurn, UserStep, LoginsInOrder, InOrder
<1>2. ASSUME NEW d \in Client \ {c}, conn'[d] = "open" PROVE Placed(d)'
  <2>1. /\ conn'[d] = conn[d] /\ toServer'[d] = toServer[d]
        /\ toClient'[d] = toClient[d] /\ window'[d] = window[d]
    BY OthersApart
  <2>2. Unmoved(d) /\ SamePage(d)
    BY <1>1, <2>1, FewerSame DEF Unmoved, SamePage, serverVars
  <2> QED
    BY <1>2, <2>1, <2>2, StaysPlaced DEF RoomsInOrder
<1>3. ASSUME conn'[c] = "open" PROVE Placed(c)'
  <2>1. CASE Launch(c) \/ LaunchAlone(c) \/ CloseWindow(c)
    <3>1. Launch(c)
      BY <1>3, <2>1
      DEF LaunchAlone, CloseWindow, TypeOK, ProtocolTypeOK
    <3> QED
      BY <1>1, <3>1, LaunchPlaced
  <2>2. CASE ~(Launch(c) \/ LaunchAlone(c) \/ CloseWindow(c))
    <3>1. conn' = conn
      <4>1. CASE ClientTurn(c)
        BY <4>1
        DEF ClientTurn, dispatch, Receives, loginSuccess, loginFailed,
            registerSuccess, registerFailed, onRoomList, roomEntered,
            onJoinFailed, memberListReceived, userJoined, userLeft,
            codeUpdated, chatReceived
      <4>2. CASE TimerTurn(c) \/ \E t \in ChatText : Chat(c, t)
        BY <4>2 DEF TimerTurn, codeSyncTriggered, Chat, sendChat, Sends
      <4>3. CASE UserAction(c)
        BY <2>2, <4>3
        DEF UserAction, GoToRegister, GoToLogin, LogIn, onLoginAttempt,
            Register, onRegisterAttempt, OpenNewRoomDialog,
            CloseNewRoomDialog, onJoinClicked, refresh, BackToRooms, logout,
            OpenTasks, CloseTasks, EditCode, Sends, protocolVars
      <4> QED
        BY <4>1, <4>2, <4>3 DEF UserStep
    <3>2. conn[c] = "open" /\ Placed(c)
      BY <1>3, <3>1 DEF RoomsInOrder
    <3>3. CASE ClientTurn(c)
      BY <1>1, <3>2, <3>3, DispatchPlaced DEF ClientTurn
    <3>4. CASE TimerTurn(c)
      BY <1>1, <3>2, <3>4, TalkPlaced DEF TimerTurn
    <3>5. ASSUME NEW t \in ChatText, Chat(c, t) PROVE Placed(c)'
      BY <1>1, <3>2, <3>5, TalkPlaced DEF Chat
    <3>6. CASE UserAction(c)
      BY <1>1, <2>2, <3>2, <3>6, TalkPlaced, LoginPlaced, EntryPlaced,
         LeavingPlaced
      DEF UserAction, LogIn, Register
    <3> QED
      BY <3>3, <3>4, <3>5, <3>6 DEF UserStep
  <2> QED
    BY <2>1, <2>2
<1> QED
  BY <1>2, <1>3 DEF RoomsInOrder

\* Every step.
LEMMA NextPlaced ==
    ASSUME ~LoginDuringLogin, TypeOK, LoginsInOrder, RoomsInOrder, [Next]_vars
    PROVE  RoomsInOrder'
<1>1. CASE Restart
  <2>1. \A c \in Client : conn'[c] # "open"
    BY <1>1 DEF Restart, ServerRestarts
  <2> QED
    BY <2>1 DEF RoomsInOrder
<1>2. CASE UNCHANGED vars
  <2> SUFFICES ASSUME NEW d \in Client, conn'[d] = "open" PROVE Placed(d)'
    BY DEF RoomsInOrder
  <2>1. Unmoved(d) /\ SamePage(d) /\ conn[d] = "open"
    BY <1>2, FewerSame
    DEF vars, protocolVars, serverVars, clientVars, Unmoved, SamePage
  <2> QED
    BY <2>1, StaysPlaced DEF RoomsInOrder
<1> QED
  BY <1>1, <1>2, ServerKeepsPlaced, ClientKeepsPlaced DEF Next

(***************************************************************************)
(* As long as no user registers or logs in while a login is being          *)
(* answered, a connected client is always in one of four situations: out   *)
(* of the rooms, in one it is being told about, in the one it shows, or in *)
(* one it has asked to leave (MainWindow.cpp:31-84, 172-182 against        *)
(* server.cpp:163-290).                                                    *)
(***************************************************************************)
THEOREM RoomsAlwaysInOrder ==
    ASSUME ~RegisterDuringLogin, ~LoginDuringLogin
    PROVE  Spec => []RoomsInOrder
<1>1. Init => RoomsInOrder
  BY DEF Init, ProtocolInit, RoomsInOrder
<1>2. /\ TypeOK /\ LoginsInOrder /\ RoomsInOrder /\ [Next]_vars
      => RoomsInOrder'
  BY NextPlaced
<1>3. Spec => []LoginsInOrder
  BY LoginsAlwaysInOrder
<1> QED
  BY <1>1, <1>2, <1>3, TypeCorrect, PTL DEF Spec

(***************************************************************************)
(* Hence, once nothing is on its way, a window and its session agree on    *)
(* the user and on the room.                                               *)
(***************************************************************************)
THEOREM ClientsAgree ==
    ASSUME ~RegisterDuringLogin, ~LoginDuringLogin
    PROVE  Spec => []ClientServerAgree
<1>1. LoginsInOrder /\ RoomsInOrder => ClientServerAgree
  BY PlacedAgree
<1>2. (Spec => []LoginsInOrder) /\ (Spec => []RoomsInOrder)
  BY LoginsAlwaysInOrder, RoomsAlwaysInOrder
<1> QED
  BY <1>1, <1>2, PTL

-----------------------------------------------------------------------------
\* Where a chat line ends up.  When the server comes to it, its author is in
\* no room, or in the one the line was typed in, with no wish to leave.
InsideBy(queue, room, i) ==
    /\ room # NoRoom /\ room = queue[i].room_id
    /\ \A j \in 1 .. i - 1 : queue[j].type # "leave_room"

Belong(queue, room) ==
    \A i \in DOMAIN queue : queue[i].type = "chat_message"
        => OutBy(queue, room, i) \/ InsideBy(queue, room, i)

ChatsInRoom == \A c \in Client : Belong(toServer[c], current_room[c])

\* That stays so when other lines are added,
LEMMA BelongGrown ==
    ASSUME NEW S, NEW q \in Seq(S), NEW s \in Seq(S), NEW room,
           Belong(q, room), ~Has(s, "chat_message")
    PROVE  Belong(q \o s, room)
<1> SUFFICES ASSUME NEW i \in DOMAIN (q \o s), (q \o s)[i].type = "chat_message"
             PROVE  OutBy(q \o s, room, i) \/ InsideBy(q \o s, room, i)
  BY DEF Belong
<1>1. i \in DOMAIN q /\ (q \o s)[i] = q[i]
  BY QueueGrows DEF Has
<1>2. i \in 1 .. Len(q) + 1 /\ \A j \in 1 .. i - 1 : j \in 1 .. Len(q)
  BY <1>1, LenProperties
<1>3. \A j \in 1 .. Len(q) : (q \o s)[j] = q[j]
  BY ConcatProperties
<1>4. CASE OutBy(q, room, i)
  BY <1>2, <1>4, OutWhenGrown
<1>5. CASE InsideBy(q, room, i)
  BY <1>1, <1>2, <1>3, <1>5 DEF InsideBy
<1> QED
  BY <1>1, <1>4, <1>5 DEF Belong

\* when the last ones are lost,
LEMMA BelongCut ==
    ASSUME NEW S, NEW q \in Seq(S), NEW n \in 0 .. Len(q), NEW room,
           Belong(q, room)
    PROVE  Belong(SubSeq(q, 1, n), room)
<1> DEFINE z == SubSeq(q, 1, n)
<1> SUFFICES ASSUME NEW i \in DOMAIN z, z[i].type = "chat_message"
             PROVE  OutBy(z, room, i) \/ InsideBy(z, room, i)
  BY DEF Belong
<1>1. /\ i \in DOMAIN q /\ i \in 1 .. n /\ n \in Nat
      /\ \A j \in 1 .. n : z[j] = q[j]
  BY QueuePrefix, LenProperties
<1>2. i \in 1 .. n + 1 /\ \A j \in 1 .. i - 1 : j \in 1 .. n
  BY <1>1
<1>3. CASE OutBy(q, room, i)
  BY <1>2, <1>3, OutWhenCut
<1>4. CASE InsideBy(q, room, i)
  BY <1>1, <1>2, <1>4 DEF InsideBy
<1> QED
  BY <1>1, <1>3, <1>4 DEF Belong

\* and when the first is read, after which the session may be elsewhere.
LEMMA BelongRead ==
    ASSUME NEW S, NEW q \in Seq(S), q # <<>>, NEW room, NEW room2,
           Belong(q, room),
           \/ room2 = room
           \/ Head(q).type \in Entering /\ room = NoRoom
           \/ Head(q).type = "leave_room",
           Head(q).type = "leave_room" => room2 = NoRoom
    PROVE  Belong(Tail(q), room2)
<1> SUFFICES ASSUME NEW i \in DOMAIN Tail(q), Tail(q)[i].type = "chat_message"
             PROVE  OutBy(Tail(q), room2, i) \/ InsideBy(Tail(q), room2, i)
  BY DEF Belong
<1>1. /\ Len(Tail(q)) = Len(q) - 1 /\ Len(q) \in Nat /\ i \in 1 .. Len(q) - 1
      /\ i + 1 \in DOMAIN q /\ Tail(q)[i] = q[i + 1] /\ Head(q) = q[1]
      /\ \A j \in 1 .. Len(q) - 1 : Tail(q)[j] = q[j + 1]
  BY QueueTail, LenProperties
<1>2. CASE OutBy(q, room, i + 1)
  <2>1. i \in 1 .. Len(q)
    BY <1>1
  <2>2. room = NoRoom /\ Head(q).type \notin Entering => room2 = NoRoom
    OBVIOUS
  <2> QED
    BY <1>2, <2>1, <2>2, OutWhenRead
<1>3. CASE InsideBy(q, room, i + 1)
  <2>1. 1 \in 1 .. (i + 1) - 1 /\ \A j \in 1 .. i - 1 : /\ j + 1 \in 1 .. (i + 1) - 1
                                                        /\ j \in 1 .. Len(q) - 1
    BY <1>1
  <2>2. room2 = room
    BY <1>1, <1>3, <2>1 DEF InsideBy
  <2>3. \A j \in 1 .. i - 1 : Tail(q)[j].type # "leave_room"
    BY <1>1, <1>3, <2>1 DEF InsideBy
  <2> QED
    BY <1>1, <1>3, <2>2, <2>3 DEF InsideBy
<1> QED
  BY <1>1, <1>2, <1>3 DEF Belong

\* A chat line is typed in the room its author is in and not about to leave,
\* or after the last leave_room.
LEMMA BelongSaid ==
    ASSUME NEW S, NEW q \in Seq(S), NEW m \in S, NEW room, Belong(q, room),
           \/ OutBy(q, room, Len(q) + 1)
           \/ /\ room # NoRoom /\ m.room_id = room
              /\ ~Has(q, "leave_room")
    PROVE  Belong(q \o <<m>>, room)
<1> DEFINE z == q \o <<m>>
<1> SUFFICES ASSUME NEW i \in DOMAIN z, z[i].type = "chat_message"
             PROVE  OutBy(z, room, i) \/ InsideBy(z, room, i)
  BY DEF Belong
<1>1. /\ <<m>> \in Seq(S) /\ Len(q) \in Nat /\ i \in 1 .. Len(q) + 1
      /\ \A j \in 1 .. Len(q) : z[j] = q[j]
      /\ z[Len(q) + 1] = m
  BY QueueEndsWith, ConcatProperties, LenProperties
<1>2. \A j \in 1 .. i - 1 : j \in 1 .. Len(q) /\ j \in DOMAIN q
  BY <1>1, LenProperties
<1>3. ASSUME OutBy(q, room, i) PROVE OutBy(z, room, i)
  BY <1>1, <1>3, OutWhenGrown
<1>4. CASE i \in 1 .. Len(q)
  <2>1. i \in DOMAIN q /\ z[i] = q[i]
    BY <1>1, <1>4, LenProperties
  <2>2. InsideBy(q, room, i) => InsideBy(z, room, i)
    BY <1>1, <1>2, <2>1 DEF InsideBy
  <2> QED
    BY <1>3, <2>1, <2>2 DEF Belong
<1>5. CASE i = Len(q) + 1
  <2>1. ASSUME room # NoRoom, m.room_id = room, ~Has(q, "leave_room")
        PROVE  InsideBy(z, room, i)
    BY <1>1, <1>2, <1>5, <2>1 DEF InsideBy, Has
  <2> QED
    BY <1>3, <1>5, <2>1
<1> QED
  BY <1>1, <1>4, <1>5

\* What the user types in is no exception,
LEMMA SaidBelongs ==
    ASSUME TypeOK, NEW c \in Client, InOrder(c), conn[c] = "open" => Placed(c),
           Belong(toServer[c], current_room[c]), UNCHANGED serverVars,
           NEW t \in ChatText, sendChat(c, t)
    PROVE  Belong(toServer[c], current_room[c])'
<1> DEFINE m == [type |-> "chat_message", sender |-> window[c].currentUser,
                 room_id |-> window[c].currentRoomId, text |-> t]
<1>1. /\ toServer[c] \in Seq(Request) /\ current_room' = current_room
      /\ window[c] \in Window
  BY DEF TypeOK, ProtocolTypeOK, ClientTypeOK, serverVars
<1>2. m \in Request
  BY <1>1, RequestValues DEF Window
<1>3. /\ window[c].page = "dashboard"
      /\ toServer'[c] = IF conn[c] = "open" THEN toServer[c] \o <<m>>
                                            ELSE toServer[c]
  BY <1>1 DEF sendChat, At, Sends, Writes, TypeOK, ProtocolTypeOK
<1>4. CASE conn[c] # "open"
  BY <1>1, <1>3, <1>4
<1>5. CASE conn[c] = "open"
  <2>1. CASE window[c].loggedIn
    <3>1. Inside(c)
      BY <1>3, <1>5, <2>1 DEF Placed, Outside, Arriving, Going
    <3>2. /\ current_room[c] # NoRoom /\ m.room_id = current_room[c]
          /\ ~Has(toServer[c], "leave_room")
      BY <3>1 DEF Inside
    <3> QED
      BY <1>1, <1>2, <1>3, <1>5, <3>2, BelongSaid
  <2>2. CASE ~window[c].loggedIn
    <3>1. OutBy(toServer[c], current_room[c], Len(toServer[c]) + 1)
      BY <1>5, <2>2 DEF InOrder, LoggedOutLeaves
    <3> QED
      BY <1>1, <1>2, <1>3, <1>5, <3>1, BelongSaid
  <2> QED
    BY <2>1, <2>2
<1> QED
  BY <1>4, <1>5

\* nor what the window sends otherwise,
LEMMA ClientKeepsBelong ==
    ASSUME TypeOK, LoginsInOrder, RoomsInOrder, ChatsInRoom,
           NEW c \in Client, ClientTurn(c) \/ TimerTurn(c) \/ UserStep(c)
    PROVE  ChatsInRoom'
<1>1. UNCHANGED serverVars /\ current_room' = current_room
  BY DEF ClientTurn, TimerTurn, UserStep, serverVars
<1>2. ASSUME NEW d \in Client \ {c}
      PROVE  Belong(toServer[d], current_room[d])'
  BY <1>1, <1>2, OthersApart DEF ChatsInRoom
<1>3. ASSUME NoChatSent(c) PROVE Belong(toServer[c], current_room[c])'
  <2>1. toServer[c] \in Seq(Request) /\ Belong(toServer[c], current_room[c])
    BY DEF TypeOK, ProtocolTypeOK, ChatsInRoom
  <2> QED
    BY <1>1, <1>3, <2>1, BelongGrown, BelongCut DEF NoChatSent
<1>4. Belong(toServer[c], current_room[c])'
  <2>1. ASSUME NEW t \in ChatText, Chat(c, t)
        PROVE  Belong(toServer[c], current_room[c])'
    BY <1>1, <2>1, SaidBelongs
    DEF Chat, LoginsInOrder, RoomsInOrder, ChatsInRoom
  <2> QED
    BY <1>3, <2>1, ActionKeepsChat, TimerKeepsChat, DispatchKeepsChat
    DEF ClientTurn, TimerTurn, UserStep
<1> QED
  BY <1>2, <1>4 DEF ChatsInRoom

\* nor what the server reads.
LEMMA ServerKeepsBelong ==
    ASSUME TypeOK, ChatsInRoom, NEW c \in Client, ServerTurn(c)
    PROVE  ChatsInRoom'
<1>1. ServerStep(c)
  BY DEF ServerTurn
<1>2. CASE HandleDisconnect(c)
  <2>1. /\ toServer' = toServer /\ toServer[c] = <<>>
        /\ \A d \in Client \ {c} : current_room'[d] = current_room[d]
    BY <1>2, VacateTalks DEF HandleDisconnect
  <2>2. Belong(toServer[c], current_room[c])'
    BY <2>1 DEF Belong
  <2> QED
    BY <2>1, <2>2 DEF ChatsInRoom
<1>3. CASE ~HandleDisconnect(c)
  <2>1. PICK q \in Seq(Request) : q = toServer[c]
    BY DEF TypeOK, ProtocolTypeOK
  <2>2. /\ q # <<>> /\ toServer'[c] = Tail(q) /\ Belong(q, current_room[c])
        /\ \/ current_room'[c] = current_room[c]
           \/ Head(q).type \in Entering /\ current_room[c] = NoRoom
           \/ Head(q).type = "leave_room"
        /\ Head(q).type = "leave_room" => current_room'[c] = NoRoom
        /\ \A d \in Client \ {c} : /\ toServer'[d] = toServer[d]
                                   /\ current_room'[d] = current_room[d]
    BY <1>1, <1>3, <2>1, HandlerMoves DEF ChatsInRoom
  <2>3. Belong(Tail(q), current_room'[c])
    BY <2>2, BelongRead
  <2> QED
    BY <2>2, <2>3 DEF ChatsInRoom
<1> QED
  BY <1>2, <1>3

\* Every step keeps ChatsInRoom.
LEMMA NextChatsInRoom ==
    ASSUME TypeOK, LoginsInOrder, RoomsInOrder, ChatsInRoom, [Next]_vars
    PROVE  ChatsInRoom'
<1>1. CASE Restart
  <2>1. \A c \in Client : toServer'[c] = <<>>
    BY <1>1 DEF Restart, ServerRestarts
  <2> QED
    BY <2>1 DEF ChatsInRoom, Belong
<1>2. CASE UNCHANGED vars
  BY <1>2 DEF vars, protocolVars, serverVars, ChatsInRoom
<1> QED
  BY <1>1, <1>2, ClientKeepsBelong, ServerKeepsBelong DEF Next

(***************************************************************************)
(* However the author comes and goes while its chat lines are on their     *)
(* way, each finds it in the room it was typed in, or in none, although    *)
(* the server never looks at the room a line names (server.cpp:302-306,    *)
(* DashboardWidget.cpp:145-156, MainWindow.cpp:30-37).                  *)
(***************************************************************************)
THEOREM ChatsAlwaysInRoom ==
    ASSUME ~RegisterDuringLogin, ~LoginDuringLogin
    PROVE  Spec => []ChatsInRoom
<1>1. Init => ChatsInRoom
  BY DEF Init, ProtocolInit, ChatsInRoom, Belong
<1>2. /\ TypeOK /\ LoginsInOrder /\ RoomsInOrder /\ ChatsInRoom /\ [Next]_vars
      => ChatsInRoom'
  BY NextChatsInRoom
<1>3. (Spec => []LoginsInOrder) /\ (Spec => []RoomsInOrder)
  BY LoginsAlwaysInOrder, RoomsAlwaysInOrder
<1> QED
  BY <1>1, <1>2, <1>3, TypeCorrect, PTL DEF Spec

(***************************************************************************)
(* Hence no chat line is ever relayed to another room.                     *)
(***************************************************************************)
THEOREM ChatKeepsRoom ==
    ASSUME ~RegisterDuringLogin, ~LoginDuringLogin
    PROVE  Spec => []ChatStaysInRoom
<1>1. TypeOK /\ ChatsInRoom => ChatStaysInRoom
  <2> SUFFICES ASSUME TypeOK, ChatsInRoom, NEW c \in Client,
                      toServer[c] # <<>>, Head(toServer[c]).type = "chat_message"
               PROVE  current_room[c] \in {Head(toServer[c]).room_id, NoRoom}
    BY DEF ChatStaysInRoom
  <2>1. 1 \in DOMAIN toServer[c] /\ Head(toServer[c]) = toServer[c][1]
    BY QueueTail DEF TypeOK, ProtocolTypeOK
  <2> QED
    BY <2>1 DEF ChatsInRoom, Belong, OutBy, InsideBy
<1>2. Spec => []ChatsInRoom
  BY ChatsAlwaysInRoom
<1> QED
  BY <1>1, <1>2, TypeCorrect, PTL

-----------------------------------------------------------------------------
\* The text of the editor.

\* A bundle that brings nobody a text.
NoTexts(out) == \A d \in Client : Textless(out[d])

\* The last text of a queue that grows.
LEMMA TextsGrow ==
    ASSUME NEW S, NEW q \in Seq(S), NEW s \in Seq(S), NEW t
    PROVE  /\ Textless(q) /\ Textless(s) => Textless(q \o s)
           /\ Delivers(q, t) /\ Textless(s) => Delivers(q \o s, t)
           /\ Delivers(s, t) => Delivers(q \o s, t)
<1>1. /\ Len(q) \in Nat /\ Len(s) \in Nat
      /\ DOMAIN q = 1 .. Len(q) /\ DOMAIN s = 1 .. Len(s)
      /\ DOMAIN (q \o s) = 1 .. Len(q) + Len(s)
  BY QueueGrows, LenProperties
<1>2. \A i \in DOMAIN (q \o s) :
         \/ i \in DOMAIN q /\ (q \o s)[i] = q[i]
         \/ /\ i \notin DOMAIN q /\ i - Len(q) \in DOMAIN s
            /\ (q \o s)[i] = s[i - Len(q)]
  BY QueueGrows
<1>3. Textless(q) /\ Textless(s) => Textless(q \o s)
  BY <1>2 DEF Textless
<1>4. ASSUME Delivers(q, t), Textless(s) PROVE Delivers(q \o s, t)
  <2>1. PICK i \in DOMAIN q :
           /\ q[i].type \in Texts /\ Shown(q[i]) = t
           /\ \A j \in DOMAIN q : j > i => q[j].type \notin Texts
    BY <1>4 DEF Delivers
  <2>2. i \in DOMAIN (q \o s) /\ (q \o s)[i] = q[i]
    BY QueueGrows, QueueParts, LenProperties
  <2>3. \A j \in DOMAIN (q \o s) : j > i => (q \o s)[j].type \notin Texts
    BY <1>2, <1>4, <2>1 DEF Textless
  <2> QED
    BY <2>1, <2>2, <2>3 DEF Delivers
<1>5. ASSUME Delivers(s, t) PROVE Delivers(q \o s, t)
  <2>1. PICK i \in DOMAIN s :
           /\ s[i].type \in Texts /\ Shown(s[i]) = t
           /\ \A j \in DOMAIN s : j > i => s[j].type \notin Texts
    BY <1>5 DEF Delivers
  <2>2. /\ Len(q) + i \in DOMAIN (q \o s)
        /\ (q \o s)[Len(q) + i] = s[i]
    BY <1>1, QueueParts
  <2>3. ASSUME NEW j \in DOMAIN (q \o s), j > Len(q) + i
        PROVE  (q \o s)[j].type \notin Texts
    <3>1. j \notin DOMAIN q /\ j - Len(q) > i
      BY <1>1, <2>3
    <3>2. j - Len(q) \in DOMAIN s /\ (q \o s)[j] = s[j - Len(q)]
      BY <1>2, <3>1
    <3> QED
      BY <2>1, <3>1, <3>2
  <2> QED
    BY <2>1, <2>2, <2>3 DEF Delivers
<1> QED
  BY <1>3, <1>4, <1>5

\* Handling a line that is no text leaves the last text; handling the last
\* text leaves none.
LEMMA TextsRead ==
    ASSUME NEW S, NEW q \in Seq(S), q # <<>>, NEW t
    PROVE  /\ Textless(q) => Textless(Tail(q)) /\ Head(q).type \notin Texts
           /\ Delivers(q, t) => \/ Delivers(Tail(q), t)
                            \/ /\ Textless(Tail(q))
                               /\ Head(q).type \in Texts /\ Shown(Head(q)) = t
<1>1. PICK n \in Nat : /\ DOMAIN q = 1 .. n + 1 /\ DOMAIN Tail(q) = 1 .. n
                       /\ Head(q) = q[1]
                       /\ \A i \in 1 .. n : Tail(q)[i] = q[i + 1]
  <2>1. /\ Len(q) \in Nat /\ Len(q) > 0 /\ Len(Tail(q)) = Len(q) - 1
        /\ Tail(q) \in Seq(S) /\ DOMAIN q = 1 .. Len(q) /\ Head(q) = q[1]
        /\ DOMAIN Tail(q) = 1 .. Len(Tail(q))
        /\ \A i \in DOMAIN Tail(q) : Tail(q)[i] = q[i + 1]
    BY QueueTail, LenProperties
  <2>2. Len(q) - 1 \in Nat /\ (Len(q) - 1) + 1 = Len(q)
    BY <2>1
  <2> QED
    BY <2>1, <2>2
<1>2. /\ \A i \in 1 .. n : i + 1 \in 1 .. n + 1
      /\ 1 \in 1 .. n + 1
  OBVIOUS
<1>3. ASSUME NEW i \in 1 .. n + 1, q[i].type \in Texts, Shown(q[i]) = t,
             \A j \in 1 .. n + 1 : j > i => q[j].type \notin Texts
      PROVE  \/ Delivers(Tail(q), t)
             \/ /\ Textless(Tail(q))
                /\ Head(q).type \in Texts /\ Shown(Head(q)) = t
  <2>1. CASE i = 1
    <3>1. \A j \in 1 .. n : Tail(q)[j].type \notin Texts
      <4>1. \A j \in 1 .. n : j + 1 \in 1 .. n + 1 /\ j + 1 > i
        BY <2>1
      <4> QED
        BY <1>1, <1>3, <4>1
    <3> QED
      BY <1>1, <1>3, <2>1, <3>1 DEF Textless
  <2>2. CASE i # 1
    <3>1. PICK k \in 1 .. n : i = k + 1
      <4>1. i - 1 \in 1 .. n /\ i = (i - 1) + 1
        BY <2>2
      <4> QED
        BY <4>1
    <3>2. \A j \in 1 .. n : j > k => j + 1 \in 1 .. n + 1 /\ j + 1 > i
      BY <3>1
    <3>3. \A j \in 1 .. n : j > k => Tail(q)[j].type \notin Texts
      BY <1>1, <1>3, <3>2
    <3>4. Tail(q)[k].type \in Texts /\ Shown(Tail(q)[k]) = t
      BY <1>1, <1>3, <3>1
    <3> QED
      BY <1>1, <3>3, <3>4 DEF Delivers
  <2> QED
    BY <2>1, <2>2
<1>4. Textless(q) => Textless(Tail(q)) /\ Head(q).type \notin Texts
  BY <1>1, <1>2 DEF Textless
<1> QED
  BY <1>1, <1>3, <1>4 DEF Delivers

\* One line sent to some clients is no text, or the last text each of them gets.
LEMMA ToTexts ==
    ASSUME NEW S, NEW m
    PROVE  /\ m.type \notin Texts => NoTexts(To(S, m))
           /\ \A d \in Client :
                 /\ d \notin S => Textless(To(S, m)[d])
                 /\ d \in S /\ m.type \in Texts => Delivers(To(S, m)[d], Shown(m))
<1>1. ASSUME NEW d \in Client PROVE d \notin S => Textless(To(S, m)[d])
  BY DEF To, Textless
<1>2. ASSUME NEW d \in Client, d \in S
      PROVE  /\ m.type \notin Texts => Textless(To(S, m)[d])
             /\ m.type \in Texts => Delivers(To(S, m)[d], Shown(m))
  <2>1. To(S, m)[d] = <<m>> /\ DOMAIN <<m>> = {1} /\ <<m>>[1] = m
    BY <1>2 DEF To
  <2>2. \A j \in {1} : ~(j > 1)
    OBVIOUS
  <2> QED
    BY <2>1, <2>2 DEF Textless, Delivers
<1> QED
  BY <1>1, <1>2 DEF NoTexts

\* Two bundles, one after the other.
LEMMA ThenTexts ==
    ASSUME NEW out1 \in Outgoing, NEW out2 \in Outgoing, NEW d \in Client,
           Textless(out2[d])
    PROVE  /\ Textless(out1[d]) => Textless((out1 ++ out2)[d])
           /\ \A t : Delivers(out1[d], t) => Delivers((out1 ++ out2)[d], t)
<1>1. out1[d] \in Seq(Reply) /\ out2[d] \in Seq(Reply)
  BY DEF Outgoing
<1>2. PICK q1, q2 \in Seq(Reply) : q1 = out1[d] /\ q2 = out2[d]
  BY <1>1
<1>3. (out1 ++ out2)[d] = q1 \o q2
  BY <1>2 DEF ++
<1>4. /\ Textless(q1) => Textless(q1 \o q2)
      /\ \A t : Delivers(q1, t) => Delivers(q1 \o q2, t)
  BY <1>2, TextsGrow
<1> QED
  BY <1>2, <1>3, <1>4

\* What a room is told of its members is no text.
LEMMA MembersNoTexts ==
    ASSUME NEW room, NEW c \in Client, NEW S,
           NEW type \in {"user_joined", "user_left"}
    PROVE  /\ NoTexts(broadcastMemberList(room))
           /\ NoTexts(broadcastToRoom(room, [type |-> type,
                                             username |-> username[c]], S))
BY ToTexts DEF broadcastMemberList, broadcastToRoom, Texts

\* The server reads an update of c.
ReadsUpdate(c) ==
    /\ toServer[c] # <<>> /\ Head(toServer[c]).type = "code_update"
    /\ toServer'[c] = Tail(toServer[c])

RoomCode(d) == rooms[current_room[d]].code

\* What a handler that reads a line of c sends a member d of a room: the code of
\* its room, if that is new to it, and else no text.
TextNews(c, d, out) ==
    \/ Delivers(out[d], RoomCode(d)')
    \/ /\ Textless(out[d])
       /\ current_room'[d] = current_room[d]
       /\ \/ RoomCode(d)' = RoomCode(d)
          \/ d = c /\ ReadsUpdate(c)

TextsDue(c, out) ==
    \A d \in Client : current_room'[d] # NoRoom => TextNews(c, d, out)

\* Who is in the room of an update that is read gets it, but for its author.
UpdateShared(c, out) ==
    ReadsUpdate(c) /\ current_room'[c] # NoRoom =>
        \A d \in InRoom(current_room[c])' \ {c} : Delivers(out[d], RoomCode(d)')

\* Handlers that change no room and no code send no text.
LEMMA NoTextDue ==
    ASSUME TypeOK, NEW c \in Client, UNCHANGED <<current_room, rooms>>,
           ~ReadsUpdate(c) \/ current_room[c] = NoRoom,
           \/ UNCHANGED toClient
           \/ \E S : \E m \in Reply : m.type \notin Texts /\ Post(To(S, m))
    PROVE  \E out \in Outgoing :
              Post(out) /\ TextsDue(c, out) /\ UpdateShared(c, out)
<1>1. ASSUME NEW out \in Outgoing, Post(out), NoTexts(out)
      PROVE  \E o \in Outgoing : Post(o) /\ TextsDue(c, o) /\ UpdateShared(c, o)
  <2>1. \A d \in Client : RoomCode(d)' = RoomCode(d)
    BY DEF RoomCode
  <2> QED
    BY <1>1, <2>1 DEF NoTexts, TextsDue, TextNews, UpdateShared
<1>2. CASE UNCHANGED toClient
  <2> DEFINE out == [d \in Client |-> <<>>]
  <2>1. out \in Outgoing /\ NoTexts(out)
    BY DEF Outgoing, NoTexts, Textless
  <2>2. /\ \A d \in Client : toClient[d] \o <<>> = toClient[d]
        /\ toClient = [d \in Client |-> toClient[d]]
    BY ConcatEmptySeq DEF TypeOK, ProtocolTypeOK
  <2>3. Post(out)
    BY <1>2, <2>2 DEF Post
  <2> HIDE DEF out
  <2> QED
    BY <1>1, <2>1, <2>3
<1>3. ASSUME NEW S, NEW m \in Reply, m.type \notin Texts, Post(To(S, m))
      PROVE  \E o \in Outgoing : Post(o) /\ TextsDue(c, o) /\ UpdateShared(c, o)
  BY <1>1, <1>3, ToOutgoing, ToTexts
<1> QED
  BY <1>2, <1>3

\* When c enters room r it is sent its code, and nobody else a text.
LEMMA EntryTexts ==
    ASSUME TypeOK, TypeOK', NEW c \in Client, NEW r \in RoomId',
           current_room' = [current_room EXCEPT ![c] = r],
           NEW m \in Reply, m.type \in Texts, Shown(m) = rooms'[r].code,
           \A d \in Client \ {c} :
              current_room[d] # NoRoom => RoomCode(d)' = RoomCode(d),
           ~ReadsUpdate(c),
           NEW talk \in Outgoing, NoTexts(talk)
    PROVE  /\ TextsDue(c, To({c}, m) ++ talk)
           /\ UpdateShared(c, To({c}, m) ++ talk)
<1>1. PICK head \in Outgoing : head = To({c}, m)
  BY ToOutgoing
<1>2. /\ \A d \in Client \ {c} : Textless(head[d])
      /\ Delivers(head[c], rooms'[r].code)
  BY <1>1, ToTexts
<1>3. \A d \in Client : Textless(talk[d])
  BY DEF NoTexts
<1>4. /\ \A d \in Client \ {c} : Textless((head ++ talk)[d])
      /\ Delivers((head ++ talk)[c], rooms'[r].code)
  BY <1>2, <1>3, ThenTexts
<1>5. /\ \A d \in Client \ {c} : current_room'[d] = current_room[d]
      /\ current_room'[c] = r
  BY DEF TypeOK, ServerTypeOK
<1>6. RoomCode(c)' = rooms'[r].code
  BY <1>5 DEF RoomCode
<1>7. ASSUME NEW d \in Client, current_room'[d] # NoRoom
      PROVE  TextNews(c, d, head ++ talk)
  <2>1. CASE d = c
    BY <1>4, <1>6, <2>1 DEF TextNews
  <2>2. CASE d # c
    BY <1>4, <1>5, <1>7, <2>2 DEF TextNews
  <2> QED
    BY <2>1, <2>2
<1> QED
  BY <1>1, <1>7 DEF TextsDue, UpdateShared

\* A handler that reads another kind of line reads no update.
LEMMA NoUpdateRead ==
    ASSUME NEW c \in Client, NEW type, Reads(c, type), type # "code_update"
    PROVE  ~ReadsUpdate(c)
BY DEF Reads, ReadsUpdate

\* Entering a room, or not.
LEMMA EntersWithText ==
    ASSUME TypeOK, TypeOK', NEW c \in Client,
           HandleCreateRoom(c) \/ HandleJoinRoom(c)
    PROVE  \E out \in Outgoing :
              Post(out) /\ TextsDue(c, out) /\ UpdateShared(c, out)
<1>1. ~ReadsUpdate(c)
  BY NoUpdateRead DEF HandleCreateRoom, HandleJoinRoom
<1>2. ASSUME Post(To({c}, [type |-> "join_failed"])),
             UNCHANGED <<current_room, rooms>>
      PROVE  \E out \in Outgoing :
                Post(out) /\ TextsDue(c, out) /\ UpdateShared(c, out)
  <2>1. PICK m \in Reply : m = [type |-> "join_failed"]
    <3>1. [type |-> "join_failed"] \in Reply
      BY DEF Reply
    <3> QED
      BY <3>1
  <2>2. m.type \notin Texts
    BY <2>1 DEF Texts
  <2> QED
    BY <1>1, <1>2, <2>1, <2>2, NoTextDue
<1>3. CASE HandleCreateRoom(c) /\ MayEnter(c)
  <2> DEFINE room == addMember(createRoom, c)
             reply == [type |-> "room_created", room_id |-> nextId]
             list == broadcastMemberList(room)
  <2>1. /\ Post(To({c}, reply) ++ list)
        /\ current_room' = [current_room EXCEPT ![c] = nextId]
        /\ nextId' = nextId + 1
        /\ rooms' = [r \in 1 .. nextId |-> IF r = nextId THEN room ELSE rooms[r]]
    BY <1>3 DEF HandleCreateRoom, MayEnter
  <2>2. /\ nextId \in Nat \ {0} /\ nextId \in RoomId'
        /\ rooms'[nextId].code = Blank
    BY <2>1 DEF TypeOK, ServerTypeOK, RoomId, addMember, createRoom
  <2>3. /\ reply \in Reply /\ reply.type \in Texts /\ Shown(reply) = Blank
    BY <2>2 DEF Reply, Texts, Shown
  <2>4. list \in Outgoing /\ NoTexts(list)
    BY RoomValues, ProtocolAssumption, MemberListOutgoing, MembersNoTexts
    DEF TypeOK
  <2>5. ASSUME NEW d \in Client \ {c}, current_room[d] # NoRoom
        PROVE  RoomCode(d)' = RoomCode(d)
    <3>1. /\ current_room'[d] = current_room[d]
          /\ current_room[d] \in 1 .. nextId - 1 /\ nextId \in Nat
      BY <2>1, <2>5 DEF TypeOK, ServerTypeOK, RoomId
    <3>2. current_room[d] \in 1 .. nextId /\ current_room[d] # nextId
      BY <3>1
    <3>3. rooms'[current_room[d]] = rooms[current_room[d]]
      BY <2>1, <3>2
    <3> QED
      BY <3>1, <3>3 DEF RoomCode
  <2>6. PICK m \in Reply : m = reply
    BY <2>3
  <2>7. PICK r \in RoomId' : r = nextId
    BY <2>2
  <2>8. PICK talk \in Outgoing : talk = list
    BY <2>4
  <2> HIDE DEF room, reply, list
  <2>9. To({c}, m) \in Outgoing
    BY ToOutgoing
  <2>10. TextsDue(c, To({c}, m) ++ talk) /\ UpdateShared(c, To({c}, m) ++ talk)
    BY <1>1, <2>1, <2>2, <2>3, <2>4, <2>5, <2>6, <2>7, <2>8, EntryTexts
  <2> QED
    BY <2>1, <2>6, <2>8, <2>9, <2>10, ThenOutgoing
<1>4. CASE HandleJoinRoom(c) /\ MayEnter(c) /\ Head(toServer[c]).room_id \in RoomId
  <2> DEFINE rid == Head(toServer[c]).room_id
             room == addMember(rooms[rid], c)
             reply == [type |-> "room_joined", room_id |-> rid,
                       code |-> room.code]
             joined == broadcastToRoom(room, [type |-> "user_joined",
                                              username |-> username[c]], {c})
             list == broadcastMemberList(room)
  <2>1. /\ Post(To({c}, reply) ++ joined ++ list)
        /\ current_room' = [current_room EXCEPT ![c] = rid]
        /\ UNCHANGED nextId
        /\ rooms' = [rooms EXCEPT ![rid] = room]
    BY <1>4 DEF HandleJoinRoom, MayEnter
  <2>2. /\ rooms[rid] \in Room /\ rid \in DOMAIN rooms
        /\ rid \in Nat /\ rid \in RoomId'
    BY <1>4, <2>1 DEF TypeOK, ServerTypeOK, RoomId
  <2>3. room \in Room /\ room.code = rooms[rid].code
    BY <2>2, RoomValues, ProtocolAssumption DEF addMember, Room
  <2>4. reply \in [type : {"room_joined"}, room_id : Nat, code : Text]
    BY <2>2, <2>3 DEF Room
  <2>5. reply \in Reply /\ reply.type \in Texts /\ Shown(reply) = rooms[rid].code
    BY <2>3, <2>4 DEF Reply, Texts, Shown
  <2>6. /\ joined \in Outgoing /\ list \in Outgoing
        /\ NoTexts(joined) /\ NoTexts(list)
    BY <2>3, NewsOutgoing, MemberListOutgoing, MembersNoTexts DEF TypeOK
  <2>7. PICK m \in Reply, r \in RoomId' : m = reply /\ r = rid
    BY <2>2, <2>5
  <2>8. PICK head, out1, out2 \in Outgoing :
           head = To({c}, m) /\ out1 = joined /\ out2 = list
    BY <2>6, ToOutgoing
  <2> HIDE DEF rid, room, reply, joined, list
  <2>9. \A x \in RoomId : rooms'[x].code = rooms[x].code
    BY <2>1, <2>3, <2>7 DEF TypeOK, ServerTypeOK
  <2>10. \A d \in Client \ {c} :
            current_room[d] # NoRoom => RoomCode(d)' = RoomCode(d)
    BY <2>1, <2>9 DEF RoomCode, TypeOK, ServerTypeOK
  <2>11. out1 ++ out2 \in Outgoing /\ NoTexts(out1 ++ out2)
    BY <2>6, <2>8, ThenOutgoing, ThenTexts DEF NoTexts
  <2>12. PICK talk \in Outgoing : talk = out1 ++ out2 /\ NoTexts(talk)
    BY <2>11
  <2>13. Shown(m) = rooms'[r].code /\ m.type \in Texts
    BY <1>4, <2>5, <2>7, <2>9 DEF rid
  <2>14. current_room' = [current_room EXCEPT ![c] = r]
    BY <2>1, <2>7
  <2>15. TextsDue(c, To({c}, m) ++ talk) /\ UpdateShared(c, To({c}, m) ++ talk)
    BY <1>1, <2>10, <2>12, <2>13, <2>14, EntryTexts
  <2>16. head ++ out1 ++ out2 = head ++ talk
    BY <2>12, ThenAssociative
  <2>17. Post(head ++ talk) /\ head ++ talk \in Outgoing
    BY <2>1, <2>7, <2>8, <2>16, ThenOutgoing
  <2> QED
    BY <2>8, <2>15, <2>17
<1> QED
  BY <1>2, <1>3, <1>4 DEF HandleCreateRoom, HandleJoinRoom

\* Leaving a room.
LEMMA VacateTexts ==
    ASSUME TypeOK, TypeOK', NEW c \in Client, Vacate(c), ~ReadsUpdate(c),
           UNCHANGED nextId
    PROVE  \E out \in Outgoing :
              Post(out) /\ TextsDue(c, out) /\ UpdateShared(c, out)
<1>1. CASE current_room[c] = NoRoom
  BY <1>1, NoTextDue DEF Vacate
<1>2. CASE current_room[c] # NoRoom
  <2> DEFINE rid == current_room[c]
             room == removeMember(rooms[rid], c)
             news == broadcastToRoom(room, [type |-> "user_left",
                                            username |-> username[c]], {})
             list == broadcastMemberList(room)
  <2>1. /\ Post(news ++ list) /\ rid \in RoomId
        /\ current_room' = [current_room EXCEPT ![c] = NoRoom]
        /\ rooms' = [rooms EXCEPT ![rid] = room]
    BY <1>2 DEF Vacate, TypeOK, ServerTypeOK
  <2>2. room \in Room /\ room.code = rooms[rid].code
    BY <2>1, RoomValues, ProtocolAssumption
    DEF TypeOK, ServerTypeOK, removeMember, Room
  <2>3. PICK out1, out2 \in Outgoing :
           /\ out1 = news /\ out2 = list
           /\ NoTexts(out1) /\ NoTexts(out2)
    BY <2>2, NewsOutgoing, MemberListOutgoing, MembersNoTexts DEF TypeOK
  <2>4. out1 ++ out2 \in Outgoing /\ NoTexts(out1 ++ out2)
    BY <2>3, ThenOutgoing, ThenTexts DEF NoTexts
  <2>5. \A x \in RoomId : rooms'[x].code = rooms[x].code
    <3> HIDE DEF rid, room
    <3> QED
      BY <2>1, <2>2 DEF TypeOK, ServerTypeOK
  <2>6. \A d \in Client : current_room'[d] # NoRoom =>
           current_room'[d] = current_room[d] /\ RoomCode(d)' = RoomCode(d)
    BY <2>1, <2>5 DEF RoomCode, TypeOK, ServerTypeOK
  <2> HIDE DEF news, list
  <2>7. TextsDue(c, out1 ++ out2) /\ UpdateShared(c, out1 ++ out2)
    BY <2>4, <2>6 DEF NoTexts, TextsDue, TextNews, UpdateShared
  <2> QED
    BY <2>1, <2>3, <2>4, <2>7
<1> QED
  BY <1>1, <1>2

\* An update: the others in the room get its text, which is now the room's.
LEMMA UpdateTexts ==
    ASSUME TypeOK, TypeOK', MembersMatchSessions, NEW c \in Client,
           HandleCodeUpdate(c)
    PROVE  \E out \in Outgoing :
              Post(out) /\ TextsDue(c, out) /\ UpdateShared(c, out)
<1> DEFINE msg == Head(toServer[c])
<1>1. /\ ReadsUpdate(c) /\ msg \in Reply /\ msg.type = "code_update"
      /\ UNCHANGED <<current_room, nextId>>
  BY ReadsType, RequestFields
  DEF HandleCodeUpdate, Reads, ReadsUpdate, TypeOK, ProtocolTypeOK
<1>2. CASE current_room[c] = NoRoom
  BY <1>1, <1>2, NoTextDue DEF HandleCodeUpdate
<1>3. CASE current_room[c] # NoRoom
  <2>1. PICK r \in RoomId, m \in Reply : r = current_room[c] /\ m = msg
    BY <1>1, <1>3 DEF TypeOK, ServerTypeOK
  <2>2. /\ rooms' = [rooms EXCEPT ![r].code = m.code]
        /\ Post(To(rooms[r].members \ {c}, m))
    BY <1>3, <2>1 DEF HandleCodeUpdate, broadcastToRoom
  <2>3. /\ rooms'[r].code = m.code
        /\ \A x \in RoomId \ {r} : rooms'[x] = rooms[x]
    BY <2>2 DEF TypeOK, ServerTypeOK, Room
  <2>4. m.type \in Texts /\ Shown(m) = m.code
    BY <1>1, <2>1 DEF Texts, Shown
  <2>5. PICK out \in Outgoing : out = To(rooms[r].members \ {c}, m)
    BY ToOutgoing
  <2>6. \A d \in Client :
           /\ d \notin rooms[r].members \ {c} => Textless(out[d])
           /\ d \in rooms[r].members \ {c} => Delivers(out[d], m.code)
    BY <2>4, <2>5, ToTexts
  <2>7. \A d \in Client : d \in rooms[r].members <=> current_room[d] = r
    BY DEF MembersMatchSessions, InRoom
  <2>8. \A d \in Client : /\ current_room[d] = r => RoomCode(d)' = m.code
                          /\ current_room[d] \in RoomId \ {r} => RoomCode(d)' = RoomCode(d)
    BY <1>1, <2>3 DEF RoomCode
  <2>9. \A d \in Client : current_room[d] # NoRoom => current_room[d] \in RoomId
    BY DEF TypeOK, ServerTypeOK
  <2>10. TextsDue(c, out)
    <3> SUFFICES ASSUME NEW d \in Client, current_room'[d] # NoRoom
                 PROVE  TextNews(c, d, out)
      BY DEF TextsDue
    <3>1. CASE current_room[d] = r /\ d # c
      BY <2>6, <2>7, <2>8, <3>1 DEF TextNews
    <3>2. CASE d = c
      BY <1>1, <2>6, <3>2 DEF TextNews
    <3>3. CASE current_room[d] # r
      BY <1>1, <2>6, <2>7, <2>8, <2>9, <3>3 DEF TextNews
    <3> QED
      BY <3>1, <3>2, <3>3
  <2>11. UpdateShared(c, out)
    BY <1>1, <2>1, <2>6, <2>7, <2>8 DEF UpdateShared, InRoom
  <2> QED
    BY <2>2, <2>5, <2>10, <2>11
<1> QED
  BY <1>2, <1>3

\* Every handler.
LEMMA ServerTexts ==
    ASSUME TypeOK, TypeOK', MembersMatchSessions, NEW c \in Client,
           ServerStep(c)
    PROVE  \E out \in Outgoing :
              Post(out) /\ TextsDue(c, out) /\ UpdateShared(c, out)
<1> DEFINE msg == Head(toServer[c])
<1>1. \A t \in {"register_success", "register_failed", "login_failed"} :
         [type |-> t] \in Reply /\ t \notin Texts
  BY DEF Reply, Texts
<1>2. CASE HandleRegister(c)
  <2>1. /\ UNCHANGED <<current_room, rooms>> /\ ~ReadsUpdate(c)
        /\ \/ UNCHANGED toClient
           \/ \E t \in {"register_success", "register_failed"} :
                 Post(To({c}, [type |-> t]))
    BY <1>2, NoUpdateRead DEF HandleRegister
  <2>2. \/ UNCHANGED toClient
        \/ \E S : \E m \in Reply : m.type \notin Texts /\ Post(To(S, m))
    <3>1. ASSUME NEW t \in {"register_success", "register_failed"},
                 Post(To({c}, [type |-> t]))
          PROVE  \E S : \E m \in Reply : m.type \notin Texts /\ Post(To(S, m))
      <4>1. PICK m \in Reply : m = [type |-> t] /\ m.type \notin Texts
        BY <1>1
      <4> QED
        BY <3>1, <4>1
    <3> QED
      BY <2>1, <3>1
  <2> QED
    BY <2>1, <2>2, NoTextDue
<1>3. CASE HandleLogin(c)
  <2>1. /\ Reads(c, "login") /\ UNCHANGED <<current_room, rooms>>
        /\ \/ UNCHANGED toClient
           \/ Post(To({c}, [type |-> "login_success", username |-> msg.username]))
           \/ Post(To({c}, [type |-> "login_failed"]))
    BY <1>3 DEF HandleLogin
  <2>2. ~ReadsUpdate(c) /\ msg.username \in Name
    BY <2>1, NoUpdateRead, ReadsType, RequestFields DEF TypeOK
  <2>3. PICK m1, m2 \in Reply :
           /\ m1 = [type |-> "login_success", username |-> msg.username]
           /\ m2 = [type |-> "login_failed"]
    <3>1. [type |-> "login_success", username |-> msg.username] \in Reply
      BY <2>2 DEF Reply
    <3> QED
      BY <1>1, <3>1
  <2>4. m1.type \notin Texts /\ m2.type \notin Texts
    BY <2>3 DEF Texts
  <2>5. UNCHANGED toClient \/ Post(To({c}, m1)) \/ Post(To({c}, m2))
    BY <2>1, <2>3
  <2> QED
    BY <2>1, <2>2, <2>4, <2>5, NoTextDue
<1>4. CASE HandleGetRooms(c)
  <2>1. PICK m \in Reply : m = [type |-> "room_list", rooms |-> listRooms]
    <3>1. [type |-> "room_list", rooms |-> listRooms] \in Reply
      BY DEF Reply, listRooms, RoomId
    <3> QED
      BY <3>1
  <2>2. /\ Post(To({c}, m)) /\ UNCHANGED <<current_room, rooms>>
        /\ ~ReadsUpdate(c) /\ m.type \notin Texts
    BY <1>4, <2>1, NoUpdateRead DEF HandleGetRooms, serverVars, Texts
  <2> QED
    BY <2>1, <2>2, NoTextDue
<1>5. CASE HandleLeaveRoom(c) \/ HandleDisconnect(c)
  <2>1. Vacate(c) /\ UNCHANGED nextId /\ ~ReadsUpdate(c)
    BY <1>5, NoUpdateRead DEF HandleLeaveRoom, HandleDisconnect, ReadsUpdate
  <2> QED
    BY <2>1, VacateTexts
<1>6. CASE HandleChatMessage(c)
  <2>1. /\ Reads(c, "chat_message") /\ UNCHANGED <<current_room, rooms>>
        /\ \/ UNCHANGED toClient
           \/ \E S : Post(To(S, msg))
    BY <1>6 DEF HandleChatMessage, broadcastToRoom, serverVars
  <2>2. /\ ~ReadsUpdate(c) /\ msg \in Reply /\ msg.type = "chat_message"
    BY <2>1, NoUpdateRead, ReadsType, RequestFields DEF TypeOK
  <2>3. msg.type \notin Texts
    BY <2>2 DEF Texts
  <2> HIDE DEF msg
  <2>4. \/ UNCHANGED toClient
        \/ \E S : \E m \in Reply : m.type \notin Texts /\ Post(To(S, m))
    BY <2>1, <2>2, <2>3
  <2> QED
    BY <2>1, <2>2, <2>4, NoTextDue
<1>7. CASE SkipMalformed(c) \/ HandleSessionRestore(c)
  <2>1. UNCHANGED <<toClient, current_room, rooms>> /\ ~ReadsUpdate(c)
    BY <1>7, NoUpdateRead
    DEF SkipMalformed, HandleSessionRestore, serverVars
  <2> QED
    BY <2>1, NoTextDue
<1> QED
  BY <1>2, <1>3, <1>4, <1>5, <1>6, <1>7, EntersWithText, UpdateTexts
  DEF ServerStep

\* What a step does to who is astray: those who still are were so before, in
\* the same room, and the author of an update just read may join them when none
\* of its room is left.
StaysAstray(d) == Astray(d) /\ current_room'[d] = current_room[d]

AuthorStrays(c) ==
    /\ ReadsUpdate(c)
    /\ \A d \in Client \ {c} : Astray(d)' =>
          StaysAstray(d) /\ current_room'[d] # current_room'[c]

StraysKept ==
    \/ \A d \in Client : Astray(d)' => StaysAstray(d)
    \/ \E c \in Client : AuthorStrays(c)

\* The server's steps.
LEMMA ServerStrays ==
    ASSUME TypeOK, TypeOK', MembersMatchSessions, NEW c \in Client,
           ServerTurn(c)
    PROVE  StraysKept
<1>1. PICK out \in Outgoing :
         Post(out) /\ TextsDue(c, out) /\ UpdateShared(c, out)
  BY ServerTexts DEF ServerTurn
<1>2. /\ dash' = dash
      /\ \A d \in Client : conn'[d] = "open" => conn[d] = "open"
      /\ \A d \in Client \ {c} : toServer'[d] = toServer[d]
      /\ toServer'[c] = toServer[c] \/
            (toServer[c] # <<>> /\ toServer'[c] = Tail(toServer[c]))
  BY DEF ServerTurn, clientVars, ServerStep, HandleSessionRestore,
         HandleRegister, HandleLogin, HandleGetRooms, HandleCreateRoom,
         HandleJoinRoom, HandleLeaveRoom, HandleCodeUpdate, HandleChatMessage,
         SkipMalformed, HandleDisconnect, Reads, TypeOK, ProtocolTypeOK
\* A text that is delivered is what the editor ends on.
<1>3. ASSUME NEW d \in Client, conn'[d] = "open",
             Delivers(out[d], RoomCode(d)')
      PROVE  ~Astray(d)'
  <2>1. PICK q, s \in Seq(Reply) : q = toClient[d] /\ s = out[d]
    BY <1>1, PostReaches DEF TypeOK, ProtocolTypeOK
  <2>2. PICK t : t = RoomCode(d)'
    OBVIOUS
  <2>3. toClient'[d] = q \o s
    BY <1>1, <1>2, <1>3, <2>1, PostReaches
  <2>4. Delivers(toClient'[d], t)
    BY <1>3, <2>1, <2>2, <2>3, TextsGrow
  <2> QED
    BY <2>2, <2>4 DEF Astray, EndsOn, RoomCode, Delivers
\* Without a new text or code, whoever is astray was.
<1>4. ASSUME NEW d \in Client, Astray(d)', Textless(out[d]),
             current_room'[d] = current_room[d], RoomCode(d)' = RoomCode(d),
             d # c \/ ~ReadsUpdate(c)
      PROVE  StaysAstray(d)
  <2>1. PICK q, s \in Seq(Reply) : q = toClient[d] /\ s = out[d]
    BY <1>1, PostReaches DEF TypeOK, ProtocolTypeOK
  <2>2. conn'[d] = "open" /\ conn[d] = "open" /\ current_room[d] # NoRoom
    BY <1>2, <1>4 DEF Astray
  <2>3. toClient'[d] = q \o s
    BY <1>1, <2>1, <2>2, PostReaches
  <2>4. ASSUME NEW t, EndsOn(d, t) PROVE EndsOn(d, t)'
    <3>1. \/ Delivers(q, t)
          \/ Textless(q) /\ dash[d].editor = t
      BY <2>1, <2>4 DEF EndsOn
    <3>2. \/ Delivers(toClient'[d], t)
          \/ Textless(toClient'[d]) /\ dash'[d].editor = t
      BY <1>2, <1>4, <2>1, <2>3, <3>1, TextsGrow
    <3> QED
      BY <3>2 DEF EndsOn, Delivers, Textless
  <2>5. ~Editing(d)
    <3>1. ~dash[d].syncTimer /\ ~Has(toServer'[d], "code_update")
      BY <1>2, <1>4 DEF Astray, Editing, Has
    <3>2. CASE toServer'[d] = toServer[d]
      BY <3>1, <3>2 DEF Editing
    <3>3. CASE /\ d = c /\ toServer[c] # <<>> /\ toServer'[c] = Tail(toServer[c])
               /\ Head(toServer[c]).type # "code_update"
      <4>1. ASSUME Has(toServer[c], "code_update")
            PROVE  Has(Tail(toServer[c]), "code_update")
        <5>1. PICK q1 \in Seq(Request) : q1 = toServer[c]
          BY DEF TypeOK, ProtocolTypeOK
        <5>2. PICK i \in DOMAIN q1 : q1[i].type = "code_update"
          BY <4>1, <5>1 DEF Has
        <5>3. i \in Nat /\ i # 1 /\ i \in 1 .. Len(q1) /\ Len(q1) \in Nat
          BY <3>3, <5>1, <5>2, QueueTail, LenProperties
        <5>4. i - 1 \in 1 .. Len(q1) - 1 /\ (i - 1) + 1 = i
          BY <5>3
        <5>5. i - 1 \in DOMAIN Tail(q1) /\ Tail(q1)[i - 1] = q1[i]
          <6>1. DOMAIN Tail(q1) = 1 .. Len(q1) - 1
            BY <3>3, <5>1, QueueTail, LenProperties
          <6> QED
            BY <3>3, <5>1, <5>4, <6>1, QueueTail
        <5> QED
          BY <5>1, <5>2, <5>5 DEF Has
      <4> QED
        BY <3>1, <3>3, <4>1 DEF Editing
    <3> QED
      BY <1>2, <1>4, <3>2, <3>3 DEF ReadsUpdate
  <2>6. PICK t : t = RoomCode(d)
    OBVIOUS
  <2>7. ~EndsOn(d, t)'
    BY <1>4, <2>6 DEF Astray, RoomCode, EndsOn
  <2> QED
    BY <1>4, <2>2, <2>4, <2>5, <2>6, <2>7 DEF StaysAstray, Astray, RoomCode
<1>5. ASSUME NEW d \in Client, Astray(d)', d # c \/ ~ReadsUpdate(c)
      PROVE  StaysAstray(d)
  <2>1. conn'[d] = "open" /\ TextNews(c, d, out)
    BY <1>1, <1>5 DEF Astray, TextsDue
  <2> QED
    BY <1>3, <1>4, <1>5, <2>1 DEF TextNews
<1>6. CASE ~ReadsUpdate(c)
  BY <1>5, <1>6 DEF StraysKept
<1>7. CASE ReadsUpdate(c)
  <2>1. ASSUME NEW d \in Client \ {c}, Astray(d)',
               current_room'[d] = current_room'[c]
        PROVE  FALSE
    <3>1. /\ current_room'[c] # NoRoom /\ d \in InRoom(current_room[c])'
          /\ conn'[d] = "open"
      BY <2>1 DEF Astray, InRoom
    <3>2. Delivers(out[d], RoomCode(d)')
      BY <1>1, <1>7, <3>1 DEF UpdateShared
    <3> QED
      BY <1>3, <2>1, <3>1, <3>2
  <2> QED
    BY <1>5, <1>7, <2>1 DEF StraysKept, AuthorStrays
<1> QED
  BY <1>6, <1>7

\* A window that handles a line ends on the same text.
LEMMA HandledText ==
    ASSUME TypeOK, NEW c \in Client, dispatch(c), NEW t, EndsOn(c, t)
    PROVE  EndsOn(c, t)'
<1>1. PICK q \in Seq(Reply) : /\ q = toClient[c] /\ q # <<>>
                              /\ toClient'[c] = Tail(q)
  BY DEF dispatch, loginSuccess, loginFailed, registerSuccess, registerFailed,
         onRoomList, roomEntered, onJoinFailed, memberListReceived, userJoined,
         userLeft, codeUpdated, chatReceived, Receives, TypeOK, ProtocolTypeOK
<1>2. /\ Head(q).type \in Texts => dash'[c].editor = Shown(Head(q))
      /\ Head(q).type \notin Texts => dash'[c].editor = dash[c].editor
  <2>1. CASE roomEntered(c)
    BY <1>1, <2>1
    DEF roomEntered, Receives, applyRemoteCode, Texts, Shown, TypeOK,
        ClientTypeOK, Dash
  <2>2. CASE codeUpdated(c)
    BY <1>1, <2>2
    DEF codeUpdated, Receives, applyRemoteCode, Texts, Shown, TypeOK,
        ClientTypeOK, Dash
  <2>3. CASE memberListReceived(c) \/ chatReceived(c)
    BY <1>1, <2>3
    DEF memberListReceived, chatReceived, Receives, Texts, TypeOK,
        ClientTypeOK, Dash
  <2>4. CASE \/ loginSuccess(c) \/ loginFailed(c) \/ registerSuccess(c)
             \/ registerFailed(c) \/ onRoomList(c) \/ onJoinFailed(c)
             \/ userJoined(c) \/ userLeft(c)
    BY <1>1, <2>4
    DEF loginSuccess, loginFailed, registerSuccess, registerFailed, onRoomList,
        onJoinFailed, userJoined, userLeft, Receives, Texts, clientVars
  <2> QED
    BY <2>1, <2>2, <2>3, <2>4 DEF dispatch
<1>3. \/ Delivers(q, t)
      \/ Textless(q) /\ dash[c].editor = t
  BY <1>1 DEF EndsOn
<1>4. \/ Delivers(Tail(q), t)
      \/ Textless(Tail(q)) /\ dash'[c].editor = t
  BY <1>1, <1>2, <1>3, TextsRead
<1> QED
  BY <1>1, <1>4 DEF EndsOn, Delivers, Textless

\* A line written behind others leaves them there.
LEMMA HasStays ==
    ASSUME NEW S, NEW q \in Seq(S), NEW t, Has(q, t), NEW m, NEW n
    PROVE  Has(q \o <<m>>, t) /\ Has(q \o <<m, n>>, t)
<1> DEFINE T == S \cup {m, n}
<1>1. q \in Seq(T) /\ <<m>> \in Seq(T) /\ <<m, n>> \in Seq(T)
  <2>1. q \in Seq(T)
    BY LenProperties
  <2>2. <<m>> \in Seq(T) /\ <<m, n>> \in Seq(T)
    OBVIOUS
  <2> QED
    BY <2>1, <2>2
<1>2. ASSUME NEW s \in Seq(T) PROVE Has(q \o s, t)
  <2>1. \A i \in DOMAIN q : i \in DOMAIN (q \o s) /\ (q \o s)[i] = q[i]
    BY <1>1, QueueGrows, QueueParts, LenProperties
  <2> QED
    BY <2>1 DEF Has
<1> HIDE DEF T
<1> QED
  BY <1>1, <1>2

\* An update on its way to the server stays there while the client is
\* connected, and a timer stops only by sending one.
LEMMA StillEditing ==
    ASSUME TypeOK, NEW c \in Client, conn[c] = "open", conn'[c] = "open",
           ClientTurn(c) \/ TimerTurn(c) \/ UserStep(c), Editing(c)
    PROVE  Editing(c)'
<1>1. PICK q \in Seq(Request) : q = toServer[c]
  BY DEF TypeOK, ProtocolTypeOK
<1>2. ASSUME NEW msgs, Writes(c, msgs),
             \E m, n : msgs \in {<<m>>, <<m, n>>},
             dash'[c].syncTimer = dash[c].syncTimer
      PROVE  Editing(c)'
  <2>1. toServer'[c] = q \o msgs
    BY <1>1, <1>2 DEF Writes, TypeOK, ProtocolTypeOK
  <2>2. Has(q, "code_update") => Has(q \o msgs, "code_update")
    BY <1>2, HasStays
  <2> QED
    BY <1>1, <1>2, <2>1, <2>2 DEF Editing, Has
<1>3. ASSUME toServer'[c] = toServer[c], dash[c].syncTimer => dash'[c].syncTimer
      PROVE  Editing(c)'
  BY <1>3 DEF Editing, Has
<1>4. CASE TimerTurn(c)
  <2>1. PICK m : /\ m.type = "code_update" /\ Writes(c, <<m>>)
    BY <1>4 DEF TimerTurn, codeSyncTriggered, Sends
  <2>2. toServer'[c] = q \o <<m>>
    BY <1>1, <2>1 DEF Writes, TypeOK, ProtocolTypeOK
  <2>3. Has(q \o <<m>>, "code_update")
    <3> DEFINE T == Request \cup {m}
    <3>1. q \in Seq(T)
      BY LenProperties
    <3>2. m \in T
      OBVIOUS
    <3> HIDE DEF T
    <3>3. PICK k \in DOMAIN (q \o <<m>>) : (q \o <<m>>)[k] = m
      BY <3>1, <3>2, QueueEndsWith
    <3> QED
      BY <2>1, <3>3 DEF Has
  <2> QED
    BY <2>2, <2>3 DEF Editing, Has
<1>5. CASE ClientTurn(c)
  <2>1. CASE loginSuccess(c) \/ userLeft(c)
    <3>1. Writes(c, <<GetRooms>>) /\ UNCHANGED dash
      BY <2>1 DEF loginSuccess, userLeft, clientVars
    <3> QED
      BY <1>2, <3>1
  <2>2. CASE ~(loginSuccess(c) \/ userLeft(c))
    <3>1. UNCHANGED toServer /\ dash'[c].syncTimer = dash[c].syncTimer
      BY <1>5, <2>2
      DEF ClientTurn, dispatch, loginFailed, registerSuccess, registerFailed,
          onRoomList, roomEntered, onJoinFailed, memberListReceived, userJoined,
          codeUpdated, chatReceived, applyRemoteCode, clientVars, TypeOK,
          ClientTypeOK, Dash
    <3> QED
      BY <1>3, <3>1
  <2> QED
    BY <2>1, <2>2
<1>6. ASSUME NEW t \in ChatText, Chat(c, t) PROVE Editing(c)'
  <2>1. PICK m : Writes(c, <<m>>)
    BY <1>6 DEF Chat, sendChat, Sends
  <2>2. UNCHANGED dash
    BY <1>6 DEF Chat, sendChat, clientVars
  <2> QED
    BY <1>2, <2>1, <2>2
<1>7. CASE UserAction(c)
  <2>1. ~(Launch(c) \/ LaunchAlone(c) \/ CloseWindow(c))
    BY DEF Launch, LaunchAlone, CloseWindow, TypeOK, ProtocolTypeOK
  <2>2. ASSUME NEW u \in User, NEW p \in Password,
               LogIn(c, u, p) \/ Register(c, u, p)
        PROVE  Editing(c)'
    <3>1. /\ UNCHANGED dash
          /\ Writes(c, <<LoginMsg(u, p)>>) \/ Writes(c, <<RegisterMsg(u, p)>>)
      BY <2>2 DEF LogIn, onLoginAttempt, Register, onRegisterAttempt, Sends
    <3> QED
      BY <1>2, <3>1
  <2>3. ASSUME NEW r, onJoinClicked(c, r) PROVE Editing(c)'
    <3>1. PICK m : Writes(c, <<m>>) /\ UNCHANGED dash
      BY <2>3 DEF onJoinClicked, Sends, clientVars
    <3> QED
      BY <1>2, <3>1
  <2>4. CASE refresh(c) \/ BackToRooms(c) \/ logout(c)
    <3>1. /\ UNCHANGED dash
          /\ \/ Writes(c, <<GetRooms>>) \/ Writes(c, <<LeaveRoom>>)
             \/ Writes(c, <<LeaveRoom, GetRooms>>)
      BY <2>4 DEF refresh, BackToRooms, logout, Sends, clientVars
    <3> QED
      BY <1>2, <3>1
  <2>5. CASE CloseNewRoomDialog(c)
    <3>1. /\ UNCHANGED dash
          /\ \/ Writes(c, <<[type |-> "create_room"]>>)
             \/ UNCHANGED toServer
      BY <2>5 DEF CloseNewRoomDialog, Sends, protocolVars
    <3> QED
      BY <1>2, <1>3, <3>1
  <2>6. CASE \/ GoToRegister(c) \/ GoToLogin(c) \/ OpenNewRoomDialog(c)
             \/ OpenTasks(c) \/ CloseTasks(c)
    BY <1>3, <2>6
    DEF GoToRegister, GoToLogin, OpenNewRoomDialog, OpenTasks, CloseTasks,
        protocolVars
  <2>7. ASSUME NEW t \in Text, EditCode(c, t) PROVE Editing(c)'
    <3>1. dash'[c].syncTimer
      BY <2>7 DEF EditCode, TypeOK, ClientTypeOK, Dash
    <3> QED
      BY <3>1 DEF Editing
  <2> QED
    BY <1>7, <2>1, <2>2, <2>3, <2>4, <2>5, <2>6, <2>7 DEF UserAction
<1> QED
  BY <1>4, <1>5, <1>6, <1>7 DEF UserStep

\* A user changes the text only by typing, which starts the timer.
LEMMA ActionText ==
    ASSUME TypeOK, NEW c \in Client, conn[c] = "open", conn'[c] = "open",
           TimerTurn(c) \/ UserStep(c), ~Editing(c)'
    PROVE  toClient'[c] = toClient[c] /\ dash'[c].editor = dash[c].editor
<1>1. ASSUME NEW msgs, Sends(c, msgs) PROVE toClient' = toClient
  BY <1>1 DEF Sends
<1>2. ASSUME NEW t \in Text, EditCode(c, t) PROVE FALSE
  <2>1. dash'[c].syncTimer
    BY <1>2 DEF EditCode, TypeOK, ClientTypeOK, Dash
  <2> QED
    BY <2>1 DEF Editing
<1>3. CASE TimerTurn(c)
  BY <1>1, <1>3
  DEF TimerTurn, codeSyncTriggered, TypeOK, ClientTypeOK, Dash
<1>4. ASSUME NEW t \in ChatText, Chat(c, t)
      PROVE  toClient' = toClient /\ dash' = dash
  BY <1>1, <1>4 DEF Chat, sendChat, clientVars
<1>5. CASE UserAction(c)
  <2>1. ~(Launch(c) \/ LaunchAlone(c) \/ CloseWindow(c))
    BY DEF Launch, LaunchAlone, CloseWindow, TypeOK, ProtocolTypeOK
  <2> QED
    BY <1>1, <1>2, <1>5, <2>1
    DEF UserAction, GoToRegister, GoToLogin, LogIn, onLoginAttempt, Register,
        onRegisterAttempt, OpenNewRoomDialog, CloseNewRoomDialog,
        onJoinClicked, refresh, BackToRooms, logout, OpenTasks, CloseTasks,
        clientVars, protocolVars
<1> QED
  BY <1>3, <1>4, <1>5 DEF UserStep

\* The windows' steps: nobody goes astray.
LEMMA ClientStrays ==
    ASSUME TypeOK, MembersMatchSessions, NEW c \in Client,
           ClientTurn(c) \/ TimerTurn(c) \/ UserStep(c)
    PROVE  \A d \in Client : Astray(d)' => StaysAstray(d)
<1>1. UNCHANGED serverVars /\ current_room' = current_room /\ rooms' = rooms
  BY DEF ClientTurn, TimerTurn, UserStep, serverVars
<1>2. ASSUME NEW d \in Client, Astray(d)', conn[d] = "open",
             Editing(d) => Editing(d)',
             \A t : ~Editing(d)' /\ EndsOn(d, t) => EndsOn(d, t)'
      PROVE  StaysAstray(d)
  <2>1. ~Editing(d)' /\ ~Editing(d)
    BY <1>2 DEF Astray, Editing, Has
  <2>2. PICK t : t = RoomCode(d)
    OBVIOUS
  <2>3. ~EndsOn(d, t)'
    BY <1>1, <1>2, <2>2 DEF Astray, RoomCode, EndsOn
  <2>4. ~EndsOn(d, t)
    BY <1>2, <2>1, <2>3
  <2> QED
    BY <1>1, <1>2, <2>1, <2>2, <2>4 DEF StaysAstray, Astray, RoomCode
<1>3. ASSUME NEW d \in Client \ {c}, Astray(d)' PROVE StaysAstray(d)
  <2>1. /\ conn'[d] = conn[d] /\ toServer'[d] = toServer[d]
        /\ toClient'[d] = toClient[d] /\ dash'[d] = dash[d]
    BY OthersApart
  <2>2. /\ conn[d] = "open"
        /\ Editing(d) => Editing(d)'
        /\ \A t : EndsOn(d, t) => EndsOn(d, t)'
    BY <1>3, <2>1 DEF Astray, Editing, Has, EndsOn, Delivers, Textless
  <2> QED
    BY <1>2, <1>3, <2>2
<1>4. ASSUME Astray(c)' PROVE StaysAstray(c)
  <2>1. conn'[c] = "open" /\ current_room[c] # NoRoom
    BY <1>1, <1>4 DEF Astray
  <2>2. conn[c] = "open"
    <3>1. conn[c] # "none"
      BY <2>1 DEF MembersMatchSessions
    <3>2. CASE ClientTurn(c)
      BY <2>1, <3>2
      DEF ClientTurn, dispatch, loginSuccess, loginFailed, registerSuccess,
          registerFailed, onRoomList, roomEntered, onJoinFailed,
          memberListReceived, userJoined, userLeft, codeUpdated, chatReceived,
          Receives
    <3>3. CASE TimerTurn(c) \/ UserStep(c)
      BY <2>1, <3>3, ActionKeepsLists
    <3> QED
      BY <3>2, <3>3
  <2>3. Editing(c) => Editing(c)'
    BY <2>1, <2>2, StillEditing
  <2>4. ASSUME NEW t, ~Editing(c)', EndsOn(c, t) PROVE EndsOn(c, t)'
    <3>1. CASE ClientTurn(c)
      BY <2>4, <3>1, HandledText DEF ClientTurn
    <3>2. CASE TimerTurn(c) \/ UserStep(c)
      <4>1. toClient'[c] = toClient[c] /\ dash'[c].editor = dash[c].editor
        BY <2>1, <2>2, <2>4, <3>2, ActionText
      <4> QED
        BY <2>4, <4>1 DEF EndsOn, Delivers, Textless
    <3> QED
      BY <3>1, <3>2
  <2> QED
    BY <1>2, <1>4, <2>2, <2>3, <2>4
<1> QED
  BY <1>3, <1>4

\* Every step.
LEMMA NextStrays ==
    ASSUME TypeOK, TypeOK', MembersMatchSessions, [Next]_vars
    PROVE  StraysKept
<1>1. ASSUME NEW c \in Client, ServerTurn(c) PROVE StraysKept
  BY <1>1, ServerStrays
<1>2. ASSUME NEW c \in Client, ClientTurn(c) \/ TimerTurn(c) \/ UserStep(c)
      PROVE  StraysKept
  BY <1>2, ClientStrays DEF StraysKept
<1>3. CASE Restart
  <2>1. \A d \in Client : ~Astray(d)'
    BY <1>3 DEF Restart, ServerRestarts, Astray
  <2> QED
    BY <2>1 DEF StraysKept
<1>4. CASE UNCHANGED vars
  <2>1. \A d \in Client : Astray(d)' => StaysAstray(d)
    BY <1>4
    DEF vars, protocolVars, serverVars, clientVars, StaysAstray, Astray,
        Editing, Has, EndsOn, Delivers, Textless
  <2> QED
    BY <2>1 DEF StraysKept
<1> QED
  BY <1>1, <1>2, <1>3, <1>4 DEF Next

(***************************************************************************)
(* At most one member of a room ends on another text than the room's,      *)
(* whatever updates cross (server.cpp:292-300): the code read last was     *)
(* sent to all but its author, and each who entered since was sent it too. *)
(***************************************************************************)
THEOREM AtMostOneAstray == Spec => []OneAstray
<1>1. Init => OneAstray
  BY DEF Init, ServerInit, OneAstray, Astray
<1>2. ASSUME TypeOK, TypeOK', MembersMatchSessions, OneAstray, [Next]_vars
      PROVE  OneAstray'
  <2> SUFFICES ASSUME NEW c \in Client, NEW d \in Client \ {c}, Astray(c)',
                      Astray(d)', current_room'[d] = current_room'[c]
               PROVE  FALSE
    BY DEF OneAstray, InRoom
  <2>1. ASSUME \A e \in Client : Astray(e)' => StaysAstray(e) PROVE FALSE
    BY <1>2, <2>1 DEF StaysAstray, OneAstray, InRoom
  <2>2. ASSUME NEW e \in Client, AuthorStrays(e) PROVE FALSE
    BY <1>2, <2>2 DEF AuthorStrays, StaysAstray, OneAstray, InRoom
  <2> QED
    BY <2>1, <2>2, <1>2, NextStrays DEF StraysKept
<1> QED
  BY <1>1, <1>2, TypeCorrect, MembersAlwaysMatch, PTL DEF Spec

(***************************************************************************)
(* So once a room is quiet, at most one editor shows another text than the *)
(* room's code.                                                            *)
(***************************************************************************)
THEOREM QuietRoomsAgree == Spec => []OneStraggler
<1>1. TypeOK /\ OneAstray => OneStraggler
  <2> SUFFICES ASSUME TypeOK, OneAstray, NEW r \in RoomId, Synced(r),
                      NEW c \in Watching(r), NEW d \in Watching(r),
                      dash[c].editor # rooms[r].code,
                      dash[d].editor # rooms[r].code
               PROVE  c = d
    BY DEF OneStraggler
  <2>1. r # NoRoom
    BY DEF RoomId, NoRoom, TypeOK, ServerTypeOK
  <2>2. \A e \in Watching(r) :
           /\ e \in Client /\ current_room[e] = r /\ conn[e] = "open"
           /\ toServer[e] = <<>> /\ toClient[e] = <<>> /\ ~dash[e].syncTimer
    BY DEF Watching, InRoom, Synced, Quiet
  <2>3. \A t : ~Has(<<>>, "code_update") /\ ~Delivers(<<>>, t)
    BY DEF Has, Delivers
  <2>4. \A e \in Watching(r) : dash[e].editor # rooms[r].code => Astray(e)
    BY <2>1, <2>2, <2>3 DEF Astray, Editing, EndsOn
  <2> QED
    BY <2>2, <2>4 DEF OneAstray, InRoom
<1> QED
  BY <1>1, TypeCorrect, AtMostOneAstray, PTL

(***************************************************************************)
(* And it is the author of an update that the server has read              *)
(* (server.cpp:298): no other step of anybody takes a member astray.       *)
(***************************************************************************)
THEOREM AuthorsStray == Spec => OnlyAuthorStrays
<1>1. ASSUME TypeOK, TypeOK', MembersMatchSessions, [Next]_vars
      PROVE  [\A c \in Client : ~Astray(c) /\ Astray(c)' =>
                 /\ toServer[c] # <<>> /\ Head(toServer[c]).type = "code_update"
                 /\ toServer'[c] = Tail(toServer[c])]_vars
  BY <1>1, NextStrays DEF StraysKept, StaysAstray, AuthorStrays, ReadsUpdate
<1> QED
  BY <1>1, TypeCorrect, MembersAlwaysMatch, PTL DEF Spec, OnlyAuthorStrays

-----------------------------------------------------------------------------
\* The buttons that are off.

AnswersTo(request) ==
    IF request = "login" THEN {"login_success", "login_failed"}
                         ELSE {"register_success", "register_failed"}

\* The requests that c waits for an answer to.
Outstanding(c) ==
    {t \in {"login", "register"} : Awaits(c, t, AnswersTo(t))}

\* The button behind a request of type t is off.
Off(c, t) == IF t = "login" THEN window[c].loading ELSE window[c].registering

\* With what is true of windows not launched yet.
ButtonsInOrder ==
    /\ \A c \in Client, t \in {"login", "register"} :
          conn[c] = "open" /\ Off(c, t) => t \in Outstanding(c)
    /\ \A c \in Client, t \in {"login", "register"} :
          conn[c] = "none" => ~Off(c, t)

\* A line of a queue is still there when others are written behind it, and
\* only the first goes when one is read.
LEMMA HasLasts ==
    ASSUME NEW S, NEW q \in Seq(S), NEW t
    PROVE  /\ \A s \in Seq(S) : Has(q, t) \/ Has(s, t) => Has(q \o s, t)
           /\ q # <<>> /\ Has(q, t) => Head(q).type = t \/ Has(Tail(q), t)
<1>1. ASSUME NEW s \in Seq(S), Has(q, t) PROVE Has(q \o s, t)
  <2>1. \A i \in DOMAIN q : i \in DOMAIN (q \o s) /\ (q \o s)[i] = q[i]
    BY QueueGrows, QueueParts, LenProperties
  <2> QED
    BY <1>1, <2>1 DEF Has
<1>2. ASSUME NEW s \in Seq(S), Has(s, t) PROVE Has(q \o s, t)
  <2>1. PICK i \in DOMAIN s : s[i].type = t
    BY <1>2 DEF Has
  <2>2. Len(q) + i \in DOMAIN (q \o s) /\ (q \o s)[Len(q) + i] = s[i]
    BY QueueParts, LenProperties
  <2> QED
    BY <2>1, <2>2 DEF Has
<1>3. ASSUME q # <<>>, Has(q, t) PROVE Head(q).type = t \/ Has(Tail(q), t)
  <2>1. PICK i \in DOMAIN q : q[i].type = t
    BY <1>3 DEF Has
  <2>2. /\ Len(q) \in Nat /\ Len(q) > 0 /\ Len(Tail(q)) = Len(q) - 1
        /\ Tail(q) \in Seq(S) /\ DOMAIN q = 1 .. Len(q) /\ Head(q) = q[1]
        /\ DOMAIN Tail(q) = 1 .. Len(Tail(q))
        /\ \A k \in DOMAIN Tail(q) : Tail(q)[k] = q[k + 1]
    BY <1>3, QueueTail, LenProperties
  <2>3. CASE i = 1
    BY <2>1, <2>2, <2>3
  <2>4. CASE i # 1
    <3>1. i - 1 \in DOMAIN Tail(q) /\ (i - 1) + 1 = i
      BY <2>2, <2>4
    <3>2. Tail(q)[i - 1].type = t
      BY <2>1, <2>2, <3>1
    <3> QED
      BY <3>1, <3>2 DEF Has
  <2> QED
    BY <2>3, <2>4
<1> QED
  BY <1>1, <1>2, <1>3

\* A line that is written is there.
LEMMA HasNew ==
    ASSUME NEW S, NEW q \in Seq(S), NEW m
    PROVE  Has(q \o <<m>>, m.type)
<1> DEFINE T == S \cup {m}
<1>1. q \in Seq(T)
  BY LenProperties
<1>2. <<m>> \in Seq(T) /\ Has(<<m>>, m.type)
  <2>1. DOMAIN <<m>> = {1} /\ <<m>>[1] = m
    OBVIOUS
  <2> QED
    BY <2>1 DEF Has
<1> HIDE DEF T
<1> QED
  BY <1>1, <1>2, HasLasts

\* queue, with one or two lines behind it or none.
Extends(longer, queue) ==
    \/ longer = queue
    \/ \E m, n : longer \in {queue \o <<m>>, queue \o <<m, n>>}

\* Who waits for an answer goes on waiting until a window reads one.
LEMMA OutstandingLasts ==
    ASSUME TypeOK, NEW d \in Client, NEW t \in Outstanding(d),
           NEW answers \in Seq(Reply),
           \/ Extends(toServer'[d], toServer[d])
           \/ /\ toServer[d] # <<>> /\ Head(toServer[d]).type # t
              /\ toServer'[d] = Tail(toServer[d])
           \/ \E a \in AnswersTo(t) : Has(answers, a),
           \/ toClient'[d] = toClient[d] \o answers
           \/ /\ toClient[d] # <<>> /\ Head(toClient[d]).type \notin AnswersTo(t)
              /\ toClient'[d] = Tail(toClient[d])
              /\ answers = <<>>
    PROVE  t \in Outstanding(d)'
<1>1. PICK p \in Seq(Request), q \in Seq(Reply) :
         p = toServer[d] /\ q = toClient[d]
  BY DEF TypeOK, ProtocolTypeOK
<1>2. /\ t \in {"login", "register"}
      /\ Has(p, t) \/ \E a \in AnswersTo(t) : Has(q, a)
  BY <1>1 DEF Outstanding, Awaits
<1>3. /\ p # <<>> /\ Has(p, t) => Head(p).type = t \/ Has(Tail(p), t)
      /\ \A a : Has(q, a) \/ Has(answers, a) => Has(q \o answers, a)
      /\ q # <<>> => \A a : Has(q, a) => Head(q).type = a \/ Has(Tail(q), a)
  BY HasLasts
<1>4. ASSUME Has(p, t), Extends(toServer'[d], p) PROVE Has(toServer'[d], t)
  BY <1>4, HasStays DEF Extends
<1>5. \A a : ~Has(<<>>, a)
  BY DEF Has
<1>6. ASSUME NEW a \in AnswersTo(t), Has(q, a) \/ Has(answers, a)
      PROVE  Has(toClient'[d], a)
  BY <1>1, <1>3, <1>5, <1>6
<1>7. ASSUME ~\E a \in AnswersTo(t) : Has(q, a) \/ Has(answers, a)
      PROVE  Has(toServer'[d], t)
  BY <1>1, <1>2, <1>3, <1>4, <1>7
<1> QED
  BY <1>2, <1>6, <1>7 DEF Outstanding, Awaits, Has

\* The server answers whoever it reads a request of, if its saves succeed.
LEMMA ServerAnswers ==
    ASSUME TypeOK, TypeOK', MembersMatchSessions, ~SaveMayFail,
           NEW c \in Client, ServerTurn(c),
           NEW d \in Client, conn'[d] = "open", NEW t \in Outstanding(d)
    PROVE  conn[d] = "open" /\ t \in Outstanding(d)'
<1> USE DEF ServerTurn
<1>1. PICK out \in Outgoing : Post(out)
  BY ServerTexts
<1>2. \/ HandleDisconnect(c)
      \/ \E type : Reads(c, type)
  BY DEF ServerStep, HandleSessionRestore, HandleRegister, HandleLogin,
         HandleGetRooms, HandleCreateRoom, HandleJoinRoom, HandleLeaveRoom,
         HandleCodeUpdate, HandleChatMessage, SkipMalformed
<1>3. conn[d] = "open" /\ ~(d = c /\ HandleDisconnect(c))
  BY <1>2 DEF HandleDisconnect, Reads, TypeOK, ProtocolTypeOK
<1>4. out[d] \in Seq(Reply) /\ toClient'[d] = toClient[d] \o out[d]
  BY <1>1, <1>3, PostReaches
<1>5. CASE d # c
  <2>1. toServer'[d] = toServer[d]
    BY <1>2, <1>5 DEF HandleDisconnect, Reads, TypeOK, ProtocolTypeOK
  <2> QED
    BY <1>3, <1>4, <2>1, OutstandingLasts DEF Extends
<1>6. ASSUME d = c, NEW type, Reads(c, type), type # t
      PROVE  t \in Outstanding(d)'
  <2>1. /\ toServer[d] # <<>> /\ Head(toServer[d]).type # t
        /\ toServer'[d] = Tail(toServer[d])
    BY <1>6 DEF Reads, TypeOK, ProtocolTypeOK
  <2> QED
    BY <1>4, <2>1, OutstandingLasts
<1>7. ASSUME d = c, NEW m \in Reply, Post(To({c}, m)), m.type \in AnswersTo(t)
      PROVE  t \in Outstanding(d)'
  <2>1. PICK o \in Outgoing : o = To({c}, m)
    BY ToOutgoing
  <2>2. o[d] \in Seq(Reply) /\ toClient'[d] = toClient[d] \o o[d]
    BY <1>3, <1>7, <2>1, PostReaches
  <2>3. Has(o[d], m.type)
    <3>1. o[d] = <<m>> /\ DOMAIN <<m>> = {1} /\ <<m>>[1] = m
      BY <1>7, <2>1 DEF To
    <3> QED
      BY <3>1 DEF Has
  <2> QED
    BY <1>7, <2>2, <2>3, OutstandingLasts
<1>8. ASSUME d = c, Reads(c, t) PROVE t \in Outstanding(d)'
  <2>1. /\ Head(toServer[c]) \in Request /\ Head(toServer[c]).type = t
        /\ t \in {"login", "register"}
    BY <1>8, ReadsType DEF TypeOK, Outstanding
  <2>2. CASE t = "register"
    <3>1. HandleRegister(c)
      BY <1>8, <2>2
      DEF ServerStep, HandleSessionRestore, HandleLogin, HandleGetRooms,
          HandleCreateRoom, HandleJoinRoom, HandleLeaveRoom, HandleCodeUpdate,
          HandleChatMessage, SkipMalformed, HandleDisconnect, Reads
    <3>2. PICK m1, m2 \in Reply : /\ m1 = [type |-> "register_success"]
                                  /\ m2 = [type |-> "register_failed"]
      <4>1. /\ [type |-> "register_success"] \in Reply
            /\ [type |-> "register_failed"] \in Reply
        BY DEF Reply
      <4> QED
        BY <4>1
    <3>3. Post(To({c}, m1)) \/ Post(To({c}, m2))
      BY <3>1, <3>2 DEF HandleRegister
    <3>4. m1.type \in AnswersTo(t) /\ m2.type \in AnswersTo(t)
      BY <2>2, <3>2 DEF AnswersTo
    <3> QED
      BY <1>7, <1>8, <3>3, <3>4
  <2>3. CASE t = "login"
    <3>1. HandleLogin(c)
      BY <1>8, <2>3
      DEF ServerStep, HandleSessionRestore, HandleRegister, HandleGetRooms,
          HandleCreateRoom, HandleJoinRoom, HandleLeaveRoom, HandleCodeUpdate,
          HandleChatMessage, SkipMalformed, HandleDisconnect, Reads
    <3>2. PICK m1, m2 \in Reply :
             /\ m1 = [type |-> "login_success",
                      username |-> Head(toServer[c]).username]
             /\ m2 = [type |-> "login_failed"]
      <4>1. Head(toServer[c]).username \in Name
        BY <2>1, <2>3, RequestFields
      <4>2. /\ [type |-> "login_success",
                username |-> Head(toServer[c]).username] \in Reply
            /\ [type |-> "login_failed"] \in Reply
        BY <4>1 DEF Reply
      <4> QED
        BY <4>2
    <3>3. Post(To({c}, m1)) \/ Post(To({c}, m2))
      BY <3>1, <3>2 DEF HandleLogin
    <3>4. m1.type \in AnswersTo(t) /\ m2.type \in AnswersTo(t)
      BY <2>3, <3>2 DEF AnswersTo
    <3> QED
      BY <1>7, <1>8, <3>3, <3>4
  <2> QED
    BY <2>1, <2>2, <2>3
<1> QED
  BY <1>2, <1>3, <1>5, <1>6, <1>8

\* Timers and users read nothing, and a button goes off with its request.
LEMMA ActionAsks ==
    ASSUME TypeOK, NEW c \in Client, conn[c] = "open", conn'[c] = "open",
           TimerTurn(c) \/ UserStep(c)
    PROVE  /\ toClient'[c] = toClient[c] /\ Extends(toServer'[c], toServer[c])
           /\ \A t \in {"login", "register"} :
                 Off(c, t)' => Off(c, t) \/ Has(toServer'[c], t)
<1> DEFINE Blames(S) ==
      /\ toClient'[c] = toClient[c] /\ Extends(toServer'[c], toServer[c])
      /\ \A t \in {"login", "register"} :
            Off(c, t)' => Off(c, t) \/ (t \in S /\ Has(toServer'[c], t))
<1>1. ASSUME NEW msgs, Sends(c, msgs), \E m, n : msgs \in {<<m>>, <<m, n>>}
      PROVE  /\ toClient'[c] = toClient[c]
             /\ Extends(toServer'[c], toServer[c])
             /\ toServer'[c] = toServer[c] \o msgs
  <2>1. /\ toClient' = toClient
        /\ toServer'[c] = toServer[c] \o msgs
    BY <1>1 DEF Sends, Writes, TypeOK, ProtocolTypeOK
  <2> QED
    BY <1>1, <2>1 DEF Extends
<1>2. ASSUME NEW t \in {"login", "register"},
             NEW m, m.type = t, Sends(c, <<m>>),
             \A s \in {"login", "register"} \ {t} : Off(c, s)' = Off(c, s)
      PROVE  Blames({t})
  <2>1. Has(toServer'[c], t)
    <3>1. PICK q \in Seq(Request) : q = toServer[c]
      BY DEF TypeOK, ProtocolTypeOK
    <3>2. Has(q \o <<m>>, m.type)
      BY HasNew
    <3> QED
      BY <1>1, <1>2, <3>1, <3>2
  <2> QED
    BY <1>1, <1>2, <2>1
<1>3. ASSUME \/ UNCHANGED <<toServer, toClient>>
             \/ \E m, n : Sends(c, <<m>>) \/ Sends(c, <<m, n>>),
             /\ window'[c].loading => window[c].loading
             /\ window'[c].registering => window[c].registering
      PROVE  Blames({})
  <2>1. /\ toClient'[c] = toClient[c]
        /\ Extends(toServer'[c], toServer[c])
    BY <1>1, <1>3 DEF Extends
  <2> QED
    BY <1>3, <2>1 DEF Off
<1>4. CASE TimerTurn(c)
  <2>1. (\E m : Sends(c, <<m>>)) /\ window' = window
    BY <1>4 DEF TimerTurn, codeSyncTriggered
  <2> QED
    BY <1>3, <2>1
<1>5. ASSUME NEW x \in ChatText, Chat(c, x) PROVE Blames({})
  <2>1. (\E m : Sends(c, <<m>>)) /\ window' = window
    BY <1>5 DEF Chat, sendChat, clientVars
  <2> QED
    BY <1>3, <2>1
<1>6. ASSUME NEW u \in User, NEW p \in Password, LogIn(c, u, p)
      PROVE  Blames({"login"})
  <2>1. Sends(c, <<LoginMsg(u, p)>>) /\ Off(c, "register")' = Off(c, "register")
    BY <1>6 DEF LogIn, onLoginAttempt, Off, TypeOK, ClientTypeOK, Window
  <2>2. LoginMsg(u, p).type = "login"
    BY DEF LoginMsg
  <2> QED
    BY <1>2, <2>1, <2>2
<1>7. ASSUME NEW u \in User, NEW p \in Password, Register(c, u, p)
      PROVE  Blames({"register"})
  <2>1. Sends(c, <<RegisterMsg(u, p)>>) /\ Off(c, "login")' = Off(c, "login")
    BY <1>7 DEF Register, onRegisterAttempt, Off, TypeOK, ClientTypeOK, Window
  <2>2. RegisterMsg(u, p).type = "register"
    BY DEF RegisterMsg
  <2> QED
    BY <1>2, <2>1, <2>2
<1>8. CASE BackToRooms(c) \/ logout(c) \/ CloseNewRoomDialog(c)
  <2>1. \/ \E m, n : Sends(c, <<m>>) \/ Sends(c, <<m, n>>)
        \/ UNCHANGED <<toServer, toClient>>
    BY <1>8 DEF BackToRooms, logout, CloseNewRoomDialog, protocolVars
  <2>2. /\ window'[c].loading => window[c].loading
        /\ window'[c].registering => window[c].registering
    BY <1>8 DEF BackToRooms, logout, CloseNewRoomDialog, TypeOK, ClientTypeOK, Window
  <2> QED
    BY <1>3, <2>1, <2>2
<1>9. CASE refresh(c) \/ \E r : onJoinClicked(c, r)
  <2>1. (\E m : Sends(c, <<m>>)) /\ window' = window
    BY <1>9 DEF refresh, onJoinClicked, clientVars
  <2> QED
    BY <1>3, <2>1
<1>10. CASE \/ GoToRegister(c) \/ GoToLogin(c) \/ OpenNewRoomDialog(c)
            \/ OpenTasks(c) \/ CloseTasks(c) \/ \E x \in Text : EditCode(c, x)
  <2>1. /\ UNCHANGED <<toServer, toClient>>
        /\ window'[c].loading = window[c].loading
        /\ window'[c].registering = window[c].registering
    BY <1>10
    DEF GoToRegister, GoToLogin, OpenNewRoomDialog, OpenTasks, CloseTasks,
        EditCode, protocolVars, TypeOK, ClientTypeOK, Window
  <2> QED
    BY <1>3, <2>1
<1>11. CASE UserAction(c)
  <2>1. ~(Launch(c) \/ LaunchAlone(c) \/ CloseWindow(c))
    BY DEF Launch, LaunchAlone, CloseWindow, TypeOK, ProtocolTypeOK
  <2> QED
    BY <1>6, <1>7, <1>8, <1>9, <1>10, <1>11, <2>1 DEF UserAction
<1> QED
  BY <1>4, <1>5, <1>11 DEF UserStep

\* A window that reads an answer puts its button on.
LEMMA TurnAnswers ==
    ASSUME TypeOK, NEW c \in Client, conn[c] = "open", ClientTurn(c),
           NEW t \in {"login", "register"}, Off(c, t)'
    PROVE  /\ Off(c, t)
           /\ toClient[c] # <<>> /\ Head(toClient[c]).type \notin AnswersTo(t)
           /\ toClient'[c] = Tail(toClient[c])
           /\ Extends(toServer'[c], toServer[c])
<1>1. ASSUME NEW types, Receives(c, types)
      PROVE  /\ toClient[c] # <<>> /\ Head(toClient[c]).type \in types
             /\ toClient'[c] = Tail(toClient[c])
  BY <1>1 DEF Receives, TypeOK, ProtocolTypeOK
<1>2. UNCHANGED toServer \/ Writes(c, <<GetRooms>>) =>
         Extends(toServer'[c], toServer[c])
  BY DEF Extends, Writes, TypeOK, ProtocolTypeOK
<1>3. CASE loginSuccess(c) \/ loginFailed(c)
  <2>1. /\ UNCHANGED toServer \/ Writes(c, <<GetRooms>>)
        /\ \E types : /\ types \subseteq {"login_success", "login_failed"}
                      /\ Receives(c, types)
        /\ ~window'[c].loading
        /\ window'[c].registering = window[c].registering
    BY <1>3 DEF loginSuccess, loginFailed, TypeOK, ClientTypeOK, Window
  <2>2. t = "register" /\ Off(c, t)
    BY <2>1 DEF Off
  <2> QED
    BY <1>1, <1>2, <2>1, <2>2 DEF AnswersTo
<1>4. CASE registerSuccess(c) \/ registerFailed(c)
  <2>1. /\ UNCHANGED toServer
        /\ \E types : /\ types \subseteq {"register_success", "register_failed"}
                      /\ Receives(c, types)
        /\ ~window'[c].registering
        /\ window'[c].loading = window[c].loading
    BY <1>4 DEF registerSuccess, registerFailed, TypeOK, ClientTypeOK, Window
  <2>2. t = "login" /\ Off(c, t)
    BY <2>1 DEF Off
  <2> QED
    BY <1>1, <1>2, <2>1, <2>2 DEF AnswersTo
<1>5. CASE ~(loginSuccess(c) \/ loginFailed(c) \/ registerSuccess(c)
             \/ registerFailed(c))
  <2>1. /\ UNCHANGED toServer \/ Writes(c, <<GetRooms>>)
        /\ \E types : /\ types \cap AnswersTo(t) = {} /\ Receives(c, types)
    BY <1>5
    DEF ClientTurn, dispatch, onRoomList, roomEntered, onJoinFailed,
        memberListReceived, userJoined, userLeft, codeUpdated, chatReceived,
        AnswersTo
  <2>2. /\ window'[c].loading = window[c].loading
        /\ window'[c].registering = window[c].registering
    BY <1>5
    DEF ClientTurn, dispatch, onRoomList, roomEntered, onJoinFailed,
        memberListReceived, userJoined, userLeft, codeUpdated, chatReceived,
        clientVars, TypeOK, ClientTypeOK, Window
  <2> QED
    BY <1>1, <1>2, <2>1, <2>2 DEF Off
<1> QED
  BY <1>3, <1>4, <1>5 DEF ClientTurn, dispatch

\* What a window does, it does when it is up or comes up as it was.
LEMMA ConnectsFirst ==
    ASSUME TypeOK, NEW c \in Client,
           ClientTurn(c) \/ TimerTurn(c) \/ UserStep(c)
    PROVE  /\ conn'[c] # "none"
           /\ \/ conn'[c] = conn[c] \/ conn'[c] # "open"
              \/ conn[c] = "none" /\ window'[c] = window[c]
<1>1. ASSUME Up(c), conn' = conn PROVE conn'[c] = conn[c] /\ conn'[c] # "none"
  BY <1>1 DEF Up
<1>2. CASE ClientTurn(c)
  BY <1>1, <1>2
  DEF ClientTurn, dispatch, loginSuccess, loginFailed, registerSuccess,
      registerFailed, onRoomList, roomEntered, onJoinFailed,
      memberListReceived, userJoined, userLeft, codeUpdated, chatReceived,
      Receives
<1>3. CASE TimerTurn(c)
  BY <1>1, <1>3 DEF TimerTurn, codeSyncTriggered, Sends
<1>4. ASSUME NEW x \in ChatText, Chat(c, x) PROVE Up(c) /\ conn' = conn
  BY <1>4 DEF Chat, sendChat, Sends, At
<1>5. CASE Launch(c) \/ LaunchAlone(c) \/ CloseWindow(c)
  BY <1>5
  DEF Launch, LaunchAlone, CloseWindow, clientVars, TypeOK, ProtocolTypeOK
<1>6. CASE UserAction(c) /\ ~(Launch(c) \/ LaunchAlone(c) \/ CloseWindow(c))
  <2>1. Up(c) /\ conn' = conn
    BY <1>6
    DEF UserAction, GoToRegister, GoToLogin, LogIn, onLoginAttempt, Register,
        onRegisterAttempt, OpenNewRoomDialog, CloseNewRoomDialog,
        onJoinClicked, refresh, BackToRooms, logout, OpenTasks, CloseTasks,
        EditCode, Sends, protocolVars, At, LoginClicked, RegisterClicked
  <2> QED
    BY <1>1, <2>1
<1> QED
  BY <1>1, <1>2, <1>3, <1>4, <1>5, <1>6 DEF UserStep

\* What a window does leaves its buttons, and all others', in order.
LEMMA ClientButtons ==
    ASSUME TypeOK, ButtonsInOrder, NEW c \in Client,
           ClientTurn(c) \/ TimerTurn(c) \/ UserStep(c)
    PROVE  ButtonsInOrder'
<1>1. ASSUME NEW d \in Client \ {c}, NEW t \in {"login", "register"}
      PROVE  /\ conn'[d] = "open" /\ Off(d, t)' => t \in Outstanding(d)'
             /\ conn'[d] = "none" => ~Off(d, t)'
  <2>1. /\ conn'[d] = conn[d] /\ toServer'[d] = toServer[d]
        /\ toClient'[d] = toClient[d] /\ window'[d] = window[d]
    BY OthersApart
  <2> QED
    BY <2>1 DEF ButtonsInOrder, Off, Outstanding, Awaits, Has
<1>2. ASSUME NEW t \in {"login", "register"}, conn'[c] = "open", Off(c, t)'
      PROVE  t \in Outstanding(c)'
  <2>1. conn[c] = "open"
    <3>1. conn[c] = "none" /\ window'[c] = window[c] => FALSE
      BY <1>2 DEF ButtonsInOrder, Off
    <3> QED
      BY <1>2, <3>1, ConnectsFirst
  <2>2. <<>> \in Seq(Reply) /\ toClient[c] \o <<>> = toClient[c]
    BY ConcatEmptySeq DEF TypeOK, ProtocolTypeOK
  <2>3. CASE ClientTurn(c)
    <3>1. /\ Off(c, t)
          /\ toClient[c] # <<>> /\ Head(toClient[c]).type \notin AnswersTo(t)
          /\ toClient'[c] = Tail(toClient[c])
          /\ Extends(toServer'[c], toServer[c])
      BY <1>2, <2>1, <2>3, TurnAnswers
    <3>2. t \in Outstanding(c)
      BY <2>1, <3>1 DEF ButtonsInOrder
    <3> QED
      BY <2>2, <3>1, <3>2, OutstandingLasts
  <2>4. CASE TimerTurn(c) \/ UserStep(c)
    <3>1. /\ toClient'[c] = toClient[c] /\ Extends(toServer'[c], toServer[c])
          /\ Off(c, t) \/ Has(toServer'[c], t)
      BY <1>2, <2>1, <2>4, ActionAsks
    <3>2. CASE Has(toServer'[c], t)
      BY <3>2 DEF Outstanding, Awaits, Has
    <3>3. CASE Off(c, t)
      <4>1. t \in Outstanding(c)
        BY <2>1, <3>3 DEF ButtonsInOrder
      <4> QED
        BY <2>2, <3>1, <4>1, OutstandingLasts
    <3> QED
      BY <3>1, <3>2, <3>3
  <2> QED
    BY <2>3, <2>4
<1>3. conn'[c] # "none"
  BY ConnectsFirst
<1> QED
  BY <1>1, <1>2, <1>3 DEF ButtonsInOrder

\* Every step.
LEMMA NextButtons ==
    ASSUME TypeOK, TypeOK', MembersMatchSessions, ~SaveMayFail,
           ButtonsInOrder, [Next]_vars
    PROVE  ButtonsInOrder'
<1>1. ASSUME NEW c \in Client, ServerTurn(c) PROVE ButtonsInOrder'
  <2>1. UNCHANGED window
    BY <1>1 DEF ServerTurn, clientVars
  <2>2. \A d \in Client : conn'[d] = "none" => conn[d] = "none"
    BY <1>1
    DEF ServerTurn, ServerStep, HandleSessionRestore, HandleRegister,
        HandleLogin, HandleGetRooms, HandleCreateRoom, HandleJoinRoom,
        HandleLeaveRoom, HandleCodeUpdate, HandleChatMessage, SkipMalformed,
        HandleDisconnect, Reads, TypeOK, ProtocolTypeOK
  <2>3. ASSUME NEW d \in Client, NEW t \in {"login", "register"},
               conn'[d] = "open", Off(d, t)'
        PROVE  t \in Outstanding(d)'
    <3>1. Off(d, t)
      BY <2>1, <2>3 DEF Off
    <3>2. CASE t \in Outstanding(d)
      BY <1>1, <2>3, <3>2, ServerAnswers
    <3>3. CASE t \notin Outstanding(d)
      <4>1. conn[d] # "open"
        BY <3>1, <3>3 DEF ButtonsInOrder
      <4> QED
        BY <1>1, <2>3, <4>1
        DEF ServerTurn, ServerStep, HandleSessionRestore, HandleRegister,
            HandleLogin, HandleGetRooms, HandleCreateRoom, HandleJoinRoom,
            HandleLeaveRoom, HandleCodeUpdate, HandleChatMessage,
            SkipMalformed, HandleDisconnect, Reads, TypeOK, ProtocolTypeOK
    <3> QED
      BY <3>2, <3>3
  <2> QED
    BY <2>1, <2>2, <2>3 DEF ButtonsInOrder, Off
<1>2. ASSUME NEW c \in Client, ClientTurn(c) \/ TimerTurn(c) \/ UserStep(c)
      PROVE  ButtonsInOrder'
  BY <1>2, ClientButtons
<1>3. CASE Restart
  <2>1. /\ UNCHANGED window
        /\ \A d \in Client : /\ conn'[d] # "open"
                             /\ conn'[d] = "none" => conn[d] = "none"
    BY <1>3 DEF Restart, ServerRestarts, clientVars, TypeOK, ProtocolTypeOK
  <2> QED
    BY <2>1 DEF ButtonsInOrder, Off
<1>4. CASE UNCHANGED vars
  BY <1>4
  DEF vars, protocolVars, clientVars, ButtonsInOrder, Off, Outstanding, Awaits,
      Has
<1> QED
  BY <1>1, <1>2, <1>3, <1>4 DEF Next

(***************************************************************************)
(* No button is off for nothing: while saves succeed, a connected window   *)
(* whose Log In or Register is off has a request at the server or an       *)
(* answer on its way (MainWindow.cpp:49-76, 158-182; server.cpp:144-194).  *)
(***************************************************************************)
THEOREM ButtonsAwaitAnswers ==
    ASSUME ~SaveMayFail
    PROVE  Spec => []OffButtonsAwaited
<1>1. Init => ButtonsInOrder
  BY DEF Init, ProtocolInit, ClientInit, MainWindow, ButtonsInOrder, Off
<1>2. TypeOK /\ TypeOK' /\ MembersMatchSessions /\ ButtonsInOrder /\ [Next]_vars
         => ButtonsInOrder'
  BY NextButtons
<1>3. ButtonsInOrder => OffButtonsAwaited
  BY DEF ButtonsInOrder, OffButtonsAwaited, Off, Outstanding, AnswersTo
<1> QED
  BY <1>1, <1>2, <1>3, TypeCorrect, MembersAlwaysMatch, PTL DEF Spec
=============================================================================
