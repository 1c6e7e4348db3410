------------------------------ MODULE Protocol ------------------------------
(***************************************************************************)
(* The JSON line protocol between client/NetworkClient.cpp and             *)
(* server/server.cpp: the messages each side sends, and one TCP connection *)
(* per running client.  A connection is a pair of FIFO queues.  The client *)
(* end of toClient also covers the Qt event queue behind it: dispatch()    *)
(* re-posts every line as a queued signal, in order.                       *)
(*                                                                         *)
(* Abstracted: a password, a text and a user name are opaque values, a     *)
(* room is its number (the n of "room_n"), the display-only fields (room   *)
(* names, member counts, failure reasons) are left out.                    *)
(***************************************************************************)
EXTENDS Naturals, Sequences

CONSTANTS
    Client,      \* the runs of the client program: one connection each
    User,        \* non-empty user names
    Password,    \* non-empty passwords
    Text,        \* contents of a code editor
    ChatText,    \* lines typed into a chat box
    NoUser,      \* the empty user name
    NoPassword,  \* the empty password
    Blank        \* the empty text

ASSUME ProtocolAssumption ==
    /\ NoUser \notin User
    /\ NoPassword \notin Password
    /\ Blank \in Text

NoRoom == 0

VARIABLES
    conn,      \* conn[c]: the connection of client run c
    toServer,  \* toServer[c]: lines c wrote and the server has not read
    toClient   \* toClient[c]: lines for c that its window has not handled

protocolVars == <<conn, toServer, toClient>>

(***************************************************************************)
(* "none": not launched.  "open": both ends up.  "hungup": the client's    *)
(* end is gone and the server has not noticed.  "offline": the client is   *)
(* up with no server at the other end, for good.  "closed": the Session    *)
(* and the client are gone.                                                *)
(***************************************************************************)
ConnState == {"none", "open", "hungup", "offline", "closed"}

Name == User \cup {NoUser}

Request ==
    [type : {"login", "register"}, username : Name,
     password : Password \cup {NoPassword}]
    \cup [type : {"session_restore"}, username : Name]
    \cup [type : {"get_rooms", "create_room", "leave_room", "malformed"}]
    \cup [type : {"join_room"}, room_id : Nat]
    \cup [type : {"code_update"}, room_id : Nat, code : Text]
    \cup [type : {"chat_message"}, room_id : Nat, sender : Name,
          text : ChatText]

Reply ==
    [type : {"login_failed", "register_success", "register_failed",
             "join_failed"}]
    \cup [type : {"login_success", "user_joined", "user_left"},
          username : Name]
    \cup [type : {"room_list"}, rooms : SUBSET Nat]
    \cup [type : {"room_created"}, room_id : Nat]
    \cup [type : {"room_joined"}, room_id : Nat, code : Text]
    \cup [type : {"member_list"}, members : SUBSET User]
    \cup [type : {"code_update"}, room_id : Nat, code : Text]
    \cup [type : {"chat_message"}, room_id : Nat, sender : Name,
          text : ChatText]

ProtocolTypeOK ==
    /\ conn \in [Client -> ConnState]
    /\ toServer \in [Client -> Seq(Request)]
    /\ toClient \in [Client -> Seq(Reply)]

ProtocolInit ==
    /\ conn = [c \in Client |-> "none"]
    /\ toServer = [c \in Client |-> <<>>]
    /\ toClient = [c \in Client |-> <<>>]

(***************************************************************************)
(* What one step sends: a function from clients to the lines each gets.    *)
(***************************************************************************)
To(S, m) == [d \in Client |-> IF d \in S THEN <<m>> ELSE <<>>]
out1 ++ out2 == [d \in Client |-> out1[d] \o out2[d]]

\* A line written to a connection whose other end is gone is lost: the
\* completion handler of async_write ignores its error code.
Post(out) ==
    toClient' = [d \in Client |-> IF conn[d] = "open"
                                  THEN toClient[d] \o out[d]
                                  ELSE toClient[d]]
=============================================================================
