----------------------------- MODULE UserStore -----------------------------
(***************************************************************************)
(* shared/src/UserStore.cpp: the accounts in memory, the file they are     *)
(* kept in, and the server process that may be killed between any two of   *)
(* its system calls.  One request is served at a time (server.cpp, one     *)
(* thread).  An account is its user: hashes and dates are left out.        *)
(*                                                                         *)
(* A file is absent, or whole with the accounts it lists, or torn: shorter *)
(* than what was meant to be written, so that json::parse rejects it.      *)
(***************************************************************************)
EXTENDS Naturals, FiniteSets

CONSTANTS
    User,
    FileMayFail,    \* whether a file may fail to open, or a write fall short
    RenameMayFail   \* whether filesystem::rename may throw

ASSUME StoreAssumption == {FileMayFail, RenameMayFail} \subseteq BOOLEAN

VARIABLES
    serverPc,  \* what the server process is doing
    users_,    \* UserStore::users_
    file,      \* data/users.json
    tmp,       \* data/users.json.tmp
    asked,     \* the request being served: [op, user], or NoRequest
    acked      \* the users that were told register_success

storeVars == <<serverPc, users_, file, tmp, asked, acked>>

NoRequest == [op |-> "none"]
Request == [op : {"register", "login"}, user : User] \cup {NoRequest}

Whole(accounts) == [kind |-> "whole", accounts |-> accounts]
TornFile == [kind |-> "torn"]
Absent == [kind |-> "absent"]
FileContent ==
    [kind : {"whole"}, accounts : SUBSET User] \cup {TornFile, Absent}

\* The states of the process and of its two files.
StoreTypeOK ==
    /\ serverPc \in {"down", "creating", "loading", "idle", "opening",
                     "writing", "renaming", "replying"}
    /\ users_ \in SUBSET User
    /\ file \in FileContent /\ tmp \in FileContent
    /\ asked \in Request
    /\ acked \in SUBSET User

StoreInit ==
    /\ serverPc = "down" /\ users_ = {}
    /\ file = Absent /\ tmp = Absent
    /\ asked = NoRequest /\ acked = {}

Proceeds(from, to) == serverPc = from /\ serverPc' = to

-----------------------------------------------------------------------------
\* The constructor.  A new file is first opened, and then gets its "[]".
Start ==
    /\ Proceeds("down", IF file = Absent THEN "creating" ELSE "loading")
    /\ \/ file = Absent /\ file' = TornFile
       \/ file # Absent /\ UNCHANGED file
       \/ FileMayFail /\ UNCHANGED file
    /\ UNCHANGED <<users_, tmp, asked, acked>>

Written(accounts) ==
    {Whole(accounts)} \cup IF FileMayFail THEN {TornFile} ELSE {}

CreateFile ==
    /\ Proceeds("creating", "loading")
    /\ IF file = Absent THEN UNCHANGED file ELSE file' \in Written({})
    /\ UNCHANGED <<users_, tmp, asked, acked>>

\* What the file says: nothing, if it does not parse.
Parsed(content) == IF content.kind = "whole" THEN content.accounts ELSE {}

loadFromFile ==
    /\ Proceeds("loading", "idle")
    /\ \/ users_' = Parsed(file)
       \/ FileMayFail /\ UNCHANGED users_
    /\ UNCHANGED <<file, tmp, asked, acked>>

-----------------------------------------------------------------------------
\* Requests.  A refusal is answered at once and changes nothing.

\* Mutant: answers before the save.
registerUser_acksFirst(u) ==
    /\ u \notin users_
    /\ Proceeds("idle", "opening")
    /\ users_' = users_ \cup {u}
    /\ asked' = [op |-> "register", user |-> u]
    /\ acked' = acked \cup {u}
    /\ UNCHANGED <<file, tmp>>

registerUser(u) ==
    /\ u \notin users_
    /\ Proceeds("idle", "opening")
    /\ users_' = users_ \cup {u}
    /\ asked' = [op |-> "register", user |-> u]
    /\ UNCHANGED <<file, tmp, acked>>

\* A login with the right password goes on to updateLastLogin.
updateLastLogin(u) ==
    /\ u \in users_
    /\ Proceeds("idle", "opening")
    /\ asked' = [op |-> "login", user |-> u]
    /\ UNCHANGED <<users_, file, tmp, acked>>

\* saveToFile: open the temporary file, write it, close it without a look at
\* whether any of that worked, and rename it over the file.
OpenTmp ==
    /\ Proceeds("opening", "writing")
    /\ \/ tmp' = TornFile
       \/ FileMayFail /\ UNCHANGED tmp
    /\ UNCHANGED <<users_, file, asked, acked>>

\* Mutant: writes the accounts the file already holds.
WriteTmp_beforeLast ==
    /\ Proceeds("writing", "renaming")
    /\ tmp' \in Written(IF asked.op = "register" THEN users_ \ {asked.user}
                                                 ELSE users_)
    /\ UNCHANGED <<users_, file, asked, acked>>

\* A file that was not opened stays what it was.
WriteTmp ==
    /\ Proceeds("writing", "renaming")
    /\ \/ tmp # Absent /\ tmp' \in Written(users_)
       \/ FileMayFail /\ UNCHANGED tmp
    /\ UNCHANGED <<users_, file, asked, acked>>

RenameTmp ==
    /\ tmp # Absent
    /\ Proceeds("renaming", "replying")
    /\ file' = tmp /\ tmp' = Absent
    /\ UNCHANGED <<users_, asked, acked>>

\* The exception ends the handler: no answer, and users_ stays as it is.
RenameThrows ==
    /\ RenameMayFail \/ tmp = Absent
    /\ Proceeds("renaming", "idle")
    /\ asked' = NoRequest
    /\ UNCHANGED <<users_, file, tmp, acked>>

Reply ==
    /\ Proceeds("replying", "idle")
    /\ acked' = IF asked.op = "register" THEN acked \cup {asked.user}
                                         ELSE acked
    /\ asked' = NoRequest
    /\ UNCHANGED <<users_, file, tmp>>

\* The process is killed; the files stay as they are.
ServerKilled ==
    /\ serverPc # "down" /\ serverPc' = "down"
    /\ users_' = {} /\ asked' = NoRequest
    /\ UNCHANGED <<file, tmp, acked>>

StoreNext ==
    \/ Start \/ CreateFile \/ loadFromFile
    \/ \E u \in User : registerUser(u) \/ updateLastLogin(u)
    \/ OpenTmp \/ WriteTmp \/ RenameTmp \/ RenameThrows \/ Reply
    \/ ServerKilled

StoreSpec == StoreInit /\ [][StoreNext]_storeVars

-----------------------------------------------------------------------------
(***************************************************************************)
(* "Persistent accounts" (README.md:129): whoever was told that the        *)
(* account exists finds it there whenever the server is up, whatever       *)
(* crashes there were.                                                     *)
(***************************************************************************)
AccountsPersist ==
    serverPc \notin {"down", "creating", "loading"} => acked \subseteq users_

(***************************************************************************)
(* The same of the file, at any point of a save: a server started from it  *)
(* after a crash here would know every user that was told.                 *)
(***************************************************************************)
FileHasAcked == acked \subseteq Parsed(file)

(***************************************************************************)
(* Why: the temporary file is whole when it is renamed, and what is        *)
(* renamed is what is in memory.  With StoreTypeOK, an inductive           *)
(* invariant.                                                              *)
(***************************************************************************)
StoreInv ==
    /\ StoreTypeOK
    /\ AccountsPersist
    /\ FileHasAcked
    /\ serverPc = "creating" => Parsed(file) = {}
    /\ serverPc \in {"down", "creating", "loading"} => asked = NoRequest
    /\ serverPc = "renaming" => tmp = Whole(users_)
    /\ serverPc = "replying" => file = Whole(users_)
    /\ asked.op = "register" => asked.user \in users_
=============================================================================
