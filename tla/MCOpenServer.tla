---------------------------- MODULE MCOpenServer ----------------------------
\* One line of every kind, well-formed, incomplete or out of place.
EXTENDS OpenServer, TLC

CONSTANTS c1, c2, u1, u2, pw, wrong, blank, t1, m1

LoginMsg(u, p) == [type |-> "login", username |-> u, password |-> p]
RegisterMsg(u, p) == [type |-> "register", username |-> u, password |-> p]

MCSent ==
    {LoginMsg(u1, pw), LoginMsg(u1, wrong), LoginMsg(NoUser, pw),
     LoginMsg(u2, NoPassword), RegisterMsg(u1, pw), RegisterMsg(u2, NoPassword),
     [type |-> "session_restore", username |-> NoUser]}
    \cup [type : {"get_rooms", "create_room", "leave_room", "malformed"}]
    \cup [type : {"join_room"}, room_id : {1, 2}]
    \cup [type : {"code_update"}, room_id : {1}, code : {t1}]
    \cup [type : {"chat_message"}, room_id : {1}, sender : {u1}, text : {m1}]

\* An empty users.json, and one with an account.
MCSavedAccounts ==
    {[u \in User |-> NoPassword],
     [u \in User |-> IF u = u1 THEN pw ELSE NoPassword]}

Interchangeable == Permutations(Client)
=============================================================================
