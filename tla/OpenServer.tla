----------------------------- MODULE OpenServer -----------------------------
(***************************************************************************)
(* The server with clients that may send it any line of the protocol at    *)
(* any time, in any order, and hang up at any moment: everything           *)
(* handle(const json&) can be called with, the messages no window of       *)
(* client/ sends included.                                                 *)
(***************************************************************************)
EXTENDS RoomServer, FiniteSets

CONSTANTS
    Sent,        \* the lines clients send
    MaxBacklog,  \* bound: lines a client has unread at the server
    MaxPending,  \* bound: nobody sends while a client has more unread than this
    MaxRooms     \* bound: no room is asked for once there are this many

ASSUME OpenAssumption ==
    /\ Sent \subseteq Request
    /\ {MaxBacklog, MaxPending, MaxRooms} \subseteq Nat

vars == <<protocolVars, serverVars>>

Init == ProtocolInit /\ ServerInit

Connect(c) ==
    /\ conn[c] = "none"
    /\ conn' = [conn EXCEPT ![c] = "open"]
    /\ UNCHANGED <<toServer, toClient>>

SendLine(c, m) ==
    /\ conn[c] = "open" /\ Len(toServer[c]) < MaxBacklog
    /\ \A d \in Client : Len(toClient[d]) <= MaxPending
    /\ m.type = "create_room" => nextId <= MaxRooms
    /\ toServer' = [toServer EXCEPT ![c] = Append(@, m)]
    /\ UNCHANGED <<conn, toClient>>

\* A client reads all there is; nothing it sends depends on it.
ReadLines(c) ==
    /\ toClient[c] # <<>>
    /\ toClient' = [toClient EXCEPT ![c] = <<>>]
    /\ UNCHANGED <<conn, toServer>>

HangUp(c) ==
    /\ conn[c] = "open"
    /\ conn' = [conn EXCEPT ![c] = "hungup"]
    /\ \E n \in 0 .. Len(toServer[c]) :
          toServer' = [toServer EXCEPT ![c] = SubSeq(@, 1, n)]
    /\ UNCHANGED toClient

ClientStep(c) ==
    \/ Connect(c)
    \/ \E m \in Sent : SendLine(c, m)
    \/ ReadLines(c)
    \/ HangUp(c)

Next == \E c \in Client :
            \/ ServerStep(c)
            \/ ClientStep(c) /\ UNCHANGED serverVars

Spec == Init /\ [][Next]_vars

-----------------------------------------------------------------------------
\* Messages are well-formed, and whoever is in a room is in one that exists:
\* getRoom(current_room) is never null (server.cpp:75, 87, 295).
TypeOK == ProtocolTypeOK /\ ServerTypeOK

\* The code and chat lines of a queue, by their places in it.
Relayed == {"code_update", "chat_message"}
Relays(queue) == {i \in DOMAIN queue : queue[i].type \in Relayed}

(***************************************************************************)
(* Code and chat stay inside their room: at most the members of the room   *)
(* the sender is in get a line more of either, even though the server      *)
(* believes no room_id (server.cpp:292-306).                               *)
(***************************************************************************)
RelayStaysInRoom ==
    [][\A d \in Client :
          Cardinality(Relays(toClient'[d])) > Cardinality(Relays(toClient[d]))
          => \E c \in Client :
                /\ Len(toServer'[c]) < Len(toServer[c])
                /\ current_room[c] = current_room[d]
                /\ current_room[d] # NoRoom]_vars

(***************************************************************************)
(* The rooms kept by the RoomManager, whose member lists are what is       *)
(* broadcast to, implement the RoomBook: a guest's place is the room whose *)
(* member list names it.                                                   *)
(***************************************************************************)
Place(c) ==
    IF \E r \in RoomId : c \in rooms[r].members
    THEN CHOOSE r \in RoomId : c \in rooms[r].members
    ELSE NoRoom

Places == [c \in Client |-> Place(c)]

Book == INSTANCE RoomBook WITH
            Guest <- Client, NoName <- NoUser,
            place <- Places, name <- username, texts <- Codes

\* Every behaviour of the server is one of the RoomBook: what its handlers
\* decide from current_room keeps the promises made of the member lists
\* (server.cpp:204-300).
BookSpec == Book!Spec
=============================================================================
