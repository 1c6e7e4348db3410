------------------------------- MODULE MCEdit -------------------------------
\* Editing and chatting, from the moment the users have come together in the
\* first room.
EXTENDS CodeBROs, TLC

CONSTANTS
    c1, c2, c3, pw, blank, t1, t2, m1, m2,
    Pages,     \* bound: the pages they go to
    Roaming    \* bound: those who leave the dashboard at all

Interchangeable ==
    Permutations(Roaming) \cup Permutations(Client \ Roaming) \cup
    Permutations(Text \ {Blank}) \cup Permutations(ChatText)

\* The configurations take Client \subseteq User: everybody has a name and an
\* account of their own.
MCSavedAccounts ==
    {[u \in User |-> IF u \in Client THEN pw ELSE NoPassword]}

\* All are registered and logged in, one made the room, the others joined it,
\* and every message has been handled.
InRoomTogether ==
    /\ conn = [c \in Client |-> "open"]
    /\ toServer = [c \in Client |-> <<>>]
    /\ toClient = [c \in Client |-> <<>>]
    /\ username = [c \in Client |-> c]
    /\ current_room = [c \in Client |-> 1]
    /\ nextId = 2
    /\ rooms = [r \in RoomId |-> [members |-> Client, code |-> Blank]]
    /\ accounts \in SavedAccounts
    /\ window = [c \in Client |->
                   [MainWindow EXCEPT !.page = "dashboard",
                                      !.currentUser = c,
                                      !.currentRoomId = 1,
                                      !.loggedIn = TRUE,
                                      !.roomList = {1}]]
    /\ dash = [c \in Client |-> [DashboardWidget EXCEPT !.members = Client]]
    /\ said = {}

\* Only a user goes to another page here: the answers that would are to
\* messages sent from pages among Pages.
EditNext ==
    \/ Restart
    \/ \E c \in Client :
          \/ ServerTurn(c) \/ ClientTurn(c) \/ TimerTurn(c)
          \/ /\ UserStep(c)
             /\ window'[c].page \in IF c \in Roaming THEN Pages ELSE {"dashboard"}

EditSpec == InRoomTogether /\ [][EditNext]_vars

FairEditSpec == EditSpec /\ Fairness
=============================================================================
