# CodeBROs in TLA+

CodeBROs is a collaborative C++ editor: a Boost.Asio server (`server/`), a Qt
client (`client/`) and a library both use (`shared/`). Users register, log in,
create or join a room, edit one text together, chat, and compile what they
wrote. This directory models the server, the clients and what goes on between
them, down to the pieces in which a line crosses the socket, the account file,
and the code runner with the button and the page that use it; TLC checks the
models on small instances, and TLAPS proves every safety property checked there
for any instance.

All paths below are relative to the repository.

## 1. The system

| part | state | operations | works with |
|---|---|---|---|
| Session, Server (`server/server.cpp`) | per connection: `username`, `current_room` | one handler per message type in `handle`, end of a connection, `send`, two broadcasts | RoomManager, UserStore (calls); clients (lines of JSON) |
| RoomManager (`server/RoomManager.cpp`) | `rooms` (code, members), `nextId` | create, list, add and remove a member | called by Session |
| UserStore (`shared/src/UserStore.cpp`) | `users_`, `data/users.json`, its `.tmp` | load, register, authenticate, updateLastLogin, save | called by Session |
| NetworkClient (`client/NetworkClient.cpp`) | socket, I/O thread | connect, sendMessage, dispatch | server; MainWindow by queued Qt signals |
| MainWindow and its pages (`client/*Widget.cpp`) | page shown, `currentUser`, `currentRoomId`, editor, sync timer, chat and member panels | user's clicks, signals of the network, the timer | NetworkClient |
| the socket between both | lines being written, bytes under way | `async_write` in pieces, `async_read_until` | Session, NetworkClient |
| CodeRunner (`shared/src/CodeRunner.cpp`) | three fixed files in `/tmp` | `run` | g++, `timeout`; the Run button, TaskValidator |
| Run button (`client/DashboardWidget.cpp`), task page (`client/TaskWidget.cpp`), TaskValidator | the button, a QThread's queued calls; the task selected, the verdict shown | click, queued slots, select, submit, `validate` | CodeRunner (calls, in the GUI thread) |
| SessionStore, AiHelper, Highlighter | see section 8 | | |

What is hard about it:

- the server handles one line at a time, but lines of several clients and the
  messages to each client overlap in any order, and a window acts on what it
  last heard;
- a client acts before it has its answer: it can leave a room, log out,
  register or type while a join, a login or an update is on its way;
- one fact is kept twice: a session's `current_room` and the room's member
  vector, `currentRoomId` and the page in the window;
- updates of the editor are relayed to everyone but the sender and are applied
  without a version, so they cross;
- clients die at any point, and so does the server, between two system calls of
  a save or with windows open; nothing ever connects a second time;
- both ends start writing a line without waiting for the previous one to end;
- two clients on one machine share the code runner's files, and a run holds up
  the very thread that must take its result.

`PROJECT.json` lists these as hazards, each at its line, with the properties
that cover it. What makes each part correct:

- *rooms*: members and sessions agree, gone sessions are in no room, no
  broadcast leaves its room, a user is in one room once (`MembersMatchSessions`,
  `RelayStaysInRoom`, `UniqueUserInRooms`, `BookSpec`, `RoomsByTheBook`), because
  logins reach the server only outside of a room (`LoginsInOrder`);
- *windows*: a window that has handled its messages agrees with its session, and
  shows the members there are (`ClientServerAgree`, `MemberListCurrent`); logins
  get their answer (`LoginAnswered`), and no button is off for nothing
  (`OffButtonsAwaited`);
- *editor*: texts agree up to one known exception, the author of an update that
  crossed another (`OneStraggler`, `OneAstray`, `OnlyAuthorStrays`), and the
  traffic ends (`TrafficDiesDown`);
- *chat*: one order for all, shown and on the way (`ChatSameOrder`, `ChatInOrder`),
  and only in the room it was typed in (`ChatStaysInRoom`);
- *accounts*: none that was acknowledged is lost (`AccountsPersist`);
- *socket*: pieces nobody writes between stay together, lines arrive in order and
  once, and the reader finds the next line after garbage (`PiecesInOrder`,
  `IsChannel`, `LinesArrive`);
- *code runner, Run button, tasks*: a call that is alone reads only files it has
  written, a result and a verdict are about one's own code and the task selected
  now, and the button comes back (`Undisturbed`, `ResultIsOwn`, `VerdictDeserved`,
  `RunButtonReturns`).

## 2. Modules

```
Protocol            messages, connections as pairs of FIFO queues
  RoomServer        the handlers of server.cpp on sessions, rooms and accounts
    OpenServer      RoomServer with clients that send anything   (MCOpenServer)
      RoomBook      what the rooms promise, with no messages; OpenServer refines
                    it, and so does CodeBROs
  QtClient          MainWindow and its pages, driven by a user and by messages
CodeBROs            RoomServer + QtClient: the whole program  (MCNavigate, MCEdit)
UserStore           accounts, file and kills                  (UserStoreProofs)
CodeRunner          run() of several processes on one set of files
  Workbench         the Run button and the task page on top of it  (MCWorkbench)
    MCFiles         Workbench and UserStore, which share no file, in one run
LineStream          one direction of a socket, in pieces
  LineChannel       what Protocol takes it for: a queue; LineStream refines it

RoomServerProofs    lemmas about the handlers, whoever sends the lines
  OpenServerProofs
  CodeBROsProofs    types, logins, unique users
    WindowProofs    chat, member lists, windows and sessions, texts, buttons
LeastNumber         least numbers, in place of induction
  WorkbenchProofs
  LineStreamProofs
```

**Protocol.** `conn[c]` is the connection of one run of the client program:
`none`, `open`, `hungup` (the client is gone, the server has not noticed),
`offline` (the window is up and has no server, from the start or since the server
died) or `closed`. `toServer[c]` and `toClient[c]` are the lines under way. The second
also stands for the Qt event queue: `dispatch` re-posts each line as a queued
call, in order. A line written to a client that is gone is lost (`Post`): the
completion handler of `async_write` ignores its error. Passwords, texts and names
are opaque; a room is its number; fields that are only displayed are left out.

**RoomServer.** One action per branch of `Session::handle`, named after the
message, plus `HandleDisconnect` and `SkipMalformed` (a line that is not JSON,
has a field of the wrong type, or an unknown type). An action is a whole handler
with its replies and broadcasts in their order, because one thread runs the
`io_context`. For the same reason `RoomManager::mtx` is never contended and is
left out. With `SaveMayFail`, registering and logging in may lose their reply as
the code does when `saveToFile` throws, with the account or the name already
changed. `ServerRestarts` kills the server and starts it again: the sockets close,
windows get at most what was written before, sessions, rooms and the room
counter start anew, and the accounts are those of the file, which with saves
that succeed are all of them (`AccountsPersist` of UserStore). The vector of
`weak_ptr` members is a set: the order is never observed, and
`MembersMatchSessions` shows that no pointer in it has expired.

**QtClient.** `window[c]` is MainWindow with its login, register and room pages,
`dash[c]` the DashboardWidget. The actions of a user have the name of the slot
they trigger; a guard says on which page and when the control is enabled. A
modal `QInputDialog` is open between `OpenNewRoomDialog` and
`CloseNewRoomDialog`, and messages and timers are served meanwhile. The
actions under `dispatch` are the slots of the network's signals; each takes one
message. `roomEntered` covers `onRoomCreated` and `onRoomJoined`, which only
pass the signal on. `RoomWidget::currentRoomId_` is only ever set to empty, so
its two "Already in a room" warnings are dead code and no guard stands for them.
`applyRemoteCode` starts no timer, because signals are blocked. It does not stop
a running one either. `CloseWindow` is the end of the program, with any suffix
of the unread lines lost. `LaunchAlone` is a start with no server to connect to:
the exception is swallowed, the window works, and all it sends is lost without
a word (`Writes`).

**CodeBROs** composes both. A step is a turn of the server, of a client's event
queue, of a client's timer, something a user does, or a restart of the server
(where `ServerMayDie`). `RegisterDuringLogin` and `LoginDuringLogin` say whether
users may submit a registration, or log in again, while a login of theirs is
still unanswered; section 4 says what happens when they do. `said` holds the chat
lines typed so far, each of which is typed once.

**OpenServer** drops the windows: any line of `Sent` at any time. Everything
proved of it holds for whatever client talks to the server. **RoomBook** is the
abstract promise: guests, names and texts, with the five steps Open, Enter,
Leave, Rename and Write. The refinement takes a guest's `place` from the member
lists, which is what the server broadcasts to, while the handlers decide on
`current_room`; so it fails if the two records part. The whole program keeps a
stricter book (`RoomsByTheBook` in CodeBROs, with `current_room` for the places):
guests come in under a name and change it only outside, both of which the server
leaves to the windows, and only a restart of the server begins a new one.

**UserStore** has one action per system call of the constructor and of
`saveToFile` (open, write, rename), with `ServerKilled` between any two. A file is whole,
torn or absent. `acked` records who was told `register_success`.
`FileMayFail` covers a file that does not open (at load or save) and a write
that falls short; nothing in the code looks at either. `RenameMayFail` covers the
one failure that does throw.

**CodeRunner** has one action per step of `run`, for several processes. A program
is its code. `Crash` kills a client in the middle. A `g++` that `std::system` has
started by then runs on beside whatever the client does when it is back: it
reads the source as it is by then, if it has not yet (`OrphanReads`), and ends as
any `g++` does (`OrphanEnds`). `alone[p]` says that no other call, and no such
`g++`, overlapped.

**Workbench** adds what a window does with `run`, for the clients in `Watched`.
Everything is in the GUI thread: `caller[p]` says what that thread is inside
`run` for. A click on Run goes through `starting` (QThread started, its slot
queued to the widget), `inside` (the slot compiles and runs) and `posted` (the
result is queued behind what is there), and in between the user can select a
task and submit. `normalize` works on outputs as sequences of `Symbol`s, of
which only carriage return, space and newline matter: `NoCR` is the first loop of
the code, a recursive function, and `Trim` the second; `SameAnswer` is the
reference it is compared with, written without loops. A killed window is opened
again (`Relaunch`) and can run and submit at once, with its old `g++` perhaps
still running. The other clients only call `run` and are killed (`OtherStep`).

**LineStream** is one direction of one socket. `async_write` of one line is
several writes: `ops` are the lines with a piece waiting for the socket, in
order, `handlers` those whose last piece is written and whose handler has yet to
start the next one. A line may be started at any moment, so pieces of two long
lines may alternate. A unit is what a single write takes at least, so lines of
length 1 cannot be divided. The reader takes what is before the next newline and
drops it if it is not one whole line. **LineChannel** is the queue that
RoomServer and QtClient assume, except that two lines under way together, one of
them longer than a write, may be lost (`Collide`).

Operators marked *Mutant* next to a definition are variations of it with a
plausible bug. No specification uses them: each stands in for its definition to
confirm that the property named in `PROJECT.json` would notice.

## 3. Runs that pass

| run | instance | distinct states | what it shows |
|---|---|---|---|
| `navigate` | 2 clients, 2 users, 1 account, 1 room, 2 lines in flight, clients may die, the server may be killed | 0.5 M (symmetry) | types; logins come outside of rooms, so a user is in rooms once; when quiet, window and session agree on user and room; member panels are right; a button that is off has an answer to come; the rooms are a RoomBook's |
| `live` | 2 clients in a room, one of which goes anywhere, both may be closed, the server may be killed at any point; 2 lines in flight | 71 k | logins are answered; dead clients leave their room; traffic ends |
| `edit_three` | 3 clients type, one leaves the room, logs out and enters again, all may be closed, the server may be killed; 1 line in flight | 0.24 M (symmetry) | at most one editor is astray at any moment, by its own update; at most one straggler when quiet |
| `chat` | 2 clients, one of which moves between 2 rooms, 2 chat lines, 4 lines in flight | 0.6 M (symmetry) | one order of chat, shown and on the way; chat stays in its room |
| `open_server` | 2 clients, 15 lines of every kind, 2 account files, saves may throw | 0.9 M (symmetry) | member records agree; relays stay in the room; RoomBook is implemented |
| `files` | either 2 clients of one machine, one followed, the other running one program, both killed anywhere, with one call or left `g++` beside the window at a time; 2 codes of which one does not build, 2 tasks. Or the server with 3 users, renames that throw, kills anywhere | 0.3 M | calls that are alone are undisturbed; results and verdicts are deserved; the Run button comes back. Acknowledged accounts persist; the invariant that proves it |
| `line_stream` | 4 lines of 1 or 3 units | 151 k | pieces stay in order, so the socket is a queue; lines nobody writes into arrive |

The bounds are constants in guards, never state constraints, so nothing is cut
off in the middle of a handler:

- `MaxInFlight`: a *user* acts only while fewer lines than this are unread. The
  server, the event loops and the timers are never held back, so queues grow
  beyond it by relays and replies. Two lines suffice for two updates to cross
  and for a logout to overtake a join's answer; the runs `logout` and `register`
  allow three. With four, in `chat`, the author of a line has left the room and
  asked for the next one before the line is read. A text that is typed is not a
  line yet, and a sync timer is not held back: all three clients of `edit_three`
  can have one running, and all three updates cross, with one line in flight; it
  is the user who leaves or enters that waits. In `live` that user need not.
- `MaxRooms`: rooms ever asked for. One room suffices to meet and to be
  refused; `chat` needs two to carry a line from one to the other.
- `Roaming` (MCEdit): the clients that leave the dashboard. One client that comes
  and goes is enough to have an update, a chat line or a member list meet a leave
  or a join.
- `Watched`, `Elsewhere` and `MaxOthers` (Workbench): the client whose window is
  followed, the codes that others run, and how many calls of others and `g++` left
  behind there are at a time. What others can do to the window, they do to the
  files, and one of them is enough to end "alone". The proofs need no such bound.
- `MCFiles` holds two separate questions: `moving` says from the start which of the
  two parts moves, so neither sees a state that it has not on its own (2.9 k of
  the states are the server's).
- `MaxSent` (LineStream): four lines are two that collide, one before and one
  after. Three units let two lines alternate more than once.
- Two clients show every pairwise race. The third in `edit_three` is there
  because "at most one" is weak for two.
- `MaxBacklog`, `MaxPending` (OpenServer): unread lines per client. One and zero
  are enough because a server step looks at one line only and what it wrote is
  never read back. The proofs need no such bound.
- `MCEdit` starts with everybody logged in and in one room (`InRoomTogether`), a
  state `navigate` reaches, and `Pages` says where users then go.

Symmetry is used with safety properties only, never with liveness.
`CHECK_DEADLOCK FALSE` is set where the system may really stop: all clients gone,
waiting for a user, or a writer that has hung up. `files` is checked for deadlock.

**Fairness.** Weak fairness of each client's `ServerTurn`, `ClientTurn` and
`TimerTurn`: the server's `io_context` serves every socket that is ready, a Qt
event loop handles what is queued, and a started timer ends. Nothing is assumed
of users: `TrafficDiesDown` says what follows *if* they stop. Logins are
answered under saves that succeed (`SaveMayFail = FALSE` in `live`); when a save
throws the server sends nothing and the button stays off. In LineStream the
`io_context` of each end keeps running and the reader's makes room for the
writer. In Workbench the window's `g++` ends (one left behind need not), `timeout 5`
ends the program, and the two queued
calls of a Run get strong fairness: clicks of the user disable them for a while
each, but Qt delivers queued calls in order. `RunButtonReturns` would not hold for
a program that outlives `timeout`'s SIGTERM, which the code does not handle.

## 4. Where documents and code part

Each is a run whose counterexample shows it.

- `converge` violates `EditorsConverge`: README.md:13 ("Everyone in the room sees
  the same code editor") with README.md:153 (last-write-wins). Two clients type at
  once; the server keeps the update it reads last, but its author then applies
  the other's, relayed before, and is not told of its own (`server.cpp:298`). What
  does hold is `OneStraggler`: at most one editor of a room can be off, and it
  belongs to the author of an update the server has read (`OnlyAuthorStrays`).
- `logout` violates `LoggedOutShowsNoRoom`: a join that is answered after "Log
  Out" shows the room to a window that is logged out and whose session has left
  it (`MainWindow.cpp:78-84`; `server.cpp:208` says "Log out to leave").
- `register` violates `UniqueUserInRooms`: the "global check" of
  `server.cpp:215` and `:254` is made on entry only. If a registration is
  submitted during a login, `register_success` brings the login page back
  (`MainWindow.cpp:66-70`) and a second login can rename a session that is in
  a room. Without such an overlap the property holds (`navigate`).
- `task_tests` violates `AnswersPass`: `tests/test_tasks.cpp:17-22` and `:32-37`
  want `validate(task, "Hello World")` to pass where that is the expected output, and
  README.md:145 counts these among its passing tests. `validate` compiles what it
  is given (`TaskValidator.cpp:17`), so an answer that is the output itself is
  refused with the compiler's complaint. What holds of the code is
  `VerdictDeserved`, about what the submitted program prints.
- `user_store_full` violates `AccountsPersist`: README.md:129 promises persistent
  accounts; `saveToFile` renames a temporary file it never checked, and
  `loadFromFile` treats a file it cannot open or parse as no accounts.

Also noticed, without a run of its own:

- Logging out switches the login button on, whatever is outstanding
  (`MainWindow.cpp:172-182`). A window that was logged out while a join was being
  answered is taken to the dashboard all the same (`logout` above); a user who
  then logs in, is taken there meanwhile and logs out has the button on again
  while that login is unanswered, and a second login renames the session behind
  the pages of the first. With `LoginDuringLogin = TRUE` TLC finds
  `ClientServerAgree` and `ChatStaysInRoom` violated that way, so both are
  checked and proved for users who wait for the answer. `UniqueUserInRooms` is
  proved without that condition.
- README.md:75-78 has the server started first for good reason: a client launched
  before it, or one whose server was restarted, never connects again and is told
  nothing (`MainWindow.cpp:137-139`; `LoginAnswered` is about connected windows).
- Two lines under way together on one socket, one of them longer than a single
  write, can both be lost (`server.cpp:24-29`): the editor's text is the line
  that may be so long. `IsChannel` is as much as the code guarantees.
- Two clients that use the code runner at once on one machine get each other's
  files; `127.0.0.1` is the address in the code, so this is the default setup.
- Two clients in one directory that log in at once share the temporary file of
  `SessionStore`; the second rename throws in a Qt slot.

README.md:130 lists auto-login, but nothing calls
`SessionStore::checkSession` and no window sends `session_restore`.

## 5. What is proved

For every value of the constants, from the named assumptions only, which say
what the constants are, and in CodeBROs that the server is killed only where saves
succeed, since `ServerRestarts` takes all accounts to be in the file. What a
theorem needs beyond them is its hypothesis.

`RoomServerProofs` holds what is true of the handlers whoever their clients are:
the types of what they write and change (one lemma per handler, resting on
`ReadsType`, `RequestFields`, `PostType`), and that each is one of three moves,
`Stays`, `Enters` or `Leaves`, which change `current_room` and the member lists
alike, and what each does to the rooms' codes (`CreateWrites`, `UpdateWrites`,
`KeepsCodes`). The modules below rest on it.

`OpenServerProofs` (the server under clients that send anything):

- `TypeCorrect`: `Spec => []TypeOK`. It carries that `current_room` always names
  a room that exists.
- `MembersAlwaysMatch`: `Spec => []MembersMatchSessions`, inductive relative to
  `TypeOK`.
- `RelaysStayInRoom`: `Spec => RelayStaysInRoom`, an action property. Nine kinds of
  handlers write bundles without a line of code or chat (`HandlersQuiet`); the two
  that relay write to the members of the sender's room, who by
  `MembersMatchSessions` are in it.
- `ServerKeepsBook`: `Spec => BookSpec`. With the two invariants a client's place
  is its `current_room` (`PlaceIsCurrentRoom`), in this state and the next, so
  each handler maps to a step of the book or to no change.

`CodeBROsProofs` (server and windows, through restarts of the server):

- `TypeCorrect` and `MembersAlwaysMatch`, as above with windows at the other end.
- `LoginsAlwaysInOrder`: `[]LoginsInOrder`, inductive relative to the two above.
  A login renames the session, so it matters that none is read inside a room. The
  invariant follows a client's lines: before every login in its queue, and before
  the end of the queue if the window is logged out, no room is asked for after
  some `leave_room`, or at all if the session is in no room (`OutBy`). The other parts of `InOrder` say why no login can be sent otherwise: which pages a
  logged-out window can be on, that no registration is under way behind a login,
  and that whoever asks for a room has a name.
- `UsersStayUnique`: `[]UniqueUserInRooms`. The server checks names on entry only;
  by `LoginsInOrder` nobody's name changes after that.

- `ProgramKeepsBook`: `Spec => RoomsByTheBook`, the refinement of RoomBook by the
  program with its restarts: only `Restart` begins a new book. `EntersByName`, `LoginReadOutside` and `NobodyRestores`
  draw from `LoginsInOrder` what makes the book stricter than the server's own.

The last three suppose `~RegisterDuringLogin`; the run `register` shows that they
need it, since a rename inside a room is no turn of the stricter book either.
Overlapping logins are allowed.

`WindowProofs` (the same system, what windows show):

- `ChatAlwaysInOrder`, `ChatKeepsOrder`: `[]ChatInOrder`, hence `[]ChatSameOrder`,
  with no hypothesis. What a panel shows says nothing of lines on their way to it,
  so `ChatInOrder` takes both together, and adds that a line still on its way to
  the server has been told to nobody: a relay then puts it last everywhere.
- `ListsAlwaysComing`, `MemberListsCurrent` (`~RegisterDuringLogin`): the last
  member list on its way to a member, or the one it shows if there is none,
  names the members of its room (`ListsComing`); so `[]MemberListCurrent`. It
  rests on `LoginsInOrder`, since a login inside would change a name without a list.
- `RoomsAlwaysInOrder`, `ClientsAgree` (`~RegisterDuringLogin`,
  `~LoginDuringLogin`): a logged-in window is in one of four situations with
  its session, `Outside`, `Arriving`, `Inside` or `Going`, told apart by which
  lines are under way; one login is outstanding at a time and finds the session
  as it was (`OneLogin`, `FreshLogin`). When nothing is under way only the
  situations of `ClientServerAgree` are left. Section 4 says what happens without
  the second hypothesis.
- `ChatsAlwaysInRoom`, `ChatKeepsRoom` (the same hypotheses): when the turn
  of a chat line in a queue comes, its author is out of every room (`OutBy`) or
  still in the room the line names (`InsideBy`); so `[]ChatStaysInRoom`.
- `AtMostOneAstray`, `QuietRoomsAgree`, `AuthorsStray`: `[]OneAstray`, hence
  `[]OneStraggler`, and the action property `OnlyAuthorStrays`, with no
  hypothesis. `OneStraggler` says nothing while updates are under way, so the
  invariant asks of each member what it will end on: the last text on its way to
  it (`Delivers`), or else what it shows. A member is `Astray` if that is not the
  room's code and it has no update of its own to come, in a queue or a timer. A
  handler either leaves a room's code alone and sends its members no text, or
  sends the new code to all of them but its author (`ServerTexts`); who enters is
  sent the code of that moment behind everything else, so at most the author of
  the update read last is off. What a window handles moves a text from the queue
  to the editor and changes nothing of this (`HandledText`).
- `ButtonsAwaitAnswers` (`~SaveMayFail`): `[]OffButtonsAwaited`. It is inductive
  together with the buttons of windows not launched yet. It is what safety there
  is in `LoginAnswered`, and covers registering, and windows whose logins
  overlap. Without the hypothesis a save that throws leaves a button off.

`UserStoreProofs` (any users; hypothesis `~FileMayFail`, kills and throwing
renames anywhere):

- `StoreInvHolds` and `AccountsAlwaysPersist`. `AccountsPersist` speaks of memory
  only, which a kill wipes, so it is not inductive. `StoreInv` adds that the file
  always reads as all acknowledged accounts (`FileHasAcked`), that what is about
  to be renamed is what is in memory, and that the user being registered is in
  it; the acknowledgement comes after the rename.

`WorkbenchProofs` (the code runner and the windows that use it):

- `ResultsAreOwn`: `[]ResultIsOwn`, from `Undisturbed`: of a call that is alone,
  each step knows which of the three files it has written.
- `WindowsUndisturbed`: the same of the calls the two buttons make, since each step of
  a window is a step of CodeRunner or leaves it alone (lemma `BenchRunsCode`).
- `BenchTypeCorrect`: `[]BenchTypeOK`, which carries `JobInStep`: the GUI thread is
  inside a call exactly when a button of its window has it so, and it is the Run
  button exactly while its job is inside.
- `VerdictsAreDeserved`: `[]VerdictDeserved`. This needs that
  the two loops of `normalize` decide what `SameAnswer` says, for texts of any
  length (`NormalizeJudges`).

`LineStreamProofs` (the socket; lines of any length cut anywhere):

- `StreamTypeCorrect`; `PiecesStayInOrder`: `[]PiecesInOrder`. Its five parts say
  what of a line is on the wire and what is still to be written: each unit once
  (`WrittenOnce`), lines in the order they were sent (`StartedInOrder`), an untorn
  line in one piece behind the earlier ones (`Unbroken`), a torn one never one
  that looks whole (`Broken`), and what was read in order (`ReadInOrder`).
- `StreamIsChannel`: `Spec => IsChannel`, the refinement of LineChannel, from that
  invariant.

`LeastNumber` stands in for induction, whose theorems take an operator and cannot
be used with this prover: that a set of naturals that is not empty has a least
one follows from the library's `WFMin`, and `UpTo` from that. So what `NoCR`, a
recursive function, computes can be proved for every input.

## 6. Only model-checked

- *Liveness*: `LoginAnswered`, `DeadClientsLeave`, `TrafficDiesDown`,
  `RunButtonReturns`, `LinesArrive`. Fairness is about ENABLED, which this prover
  does not handle.
- The documents' claims that fail (section 4) are refuted by TLC's
  counterexamples.

## 7. What is left

Every safety property of the passing runs is a theorem. The liveness properties
wait for a prover that handles ENABLED; a proof of `LoginAnswered` would start from
`ButtonsAwaitAnswers`, with the place of the request or answer in its queue as the
measure. Beside them, the AI request, the session file and time (section 8)
are what a further model could add.

## 8. Not modelled

- *Presentation*: layout, styles, warning boxes, the typing indicator (nothing
  calls it), hints and descriptions of tasks, the syntax highlighter, colours.
- *AI assistant*: one HTTP request at a time in a thread of its own, whose reply
  goes to the chat panel. It shares no state with the rest, and whether it ever
  ends is up to curl and the service, for which the code sets no timeout.
- *Session file*: it is written and removed but never read. A rename of it that
  fails ends the client, which `CloseWindow` covers.
- *Loading tasks*: a file that cannot be read gives no tasks and a page that does
  nothing; Workbench starts from some tasks.
- `Message`, `build*`, `toJson` and `fromJson` (used by tests only);
  `picosha2.h` (third-party); tests, CI and the generated `repomix-output.xml`.
- *Time*: a timer or a line may take arbitrarily long. Hence no property of the
  sync timer that outlives its room (`DashboardWidget.cpp:158`): in the code its
  300 ms would have to outlast a leave and a join.
- *Torn lines above the socket*: RoomServer and QtClient take the socket for a
  queue of whole lines, which LineStream shows it to be unless two lines meet of
  which one is longer than a write.
- *The restart of the server* is part of `navigate`, `live` and `edit_three`;
  `chat` keeps it up. TCP itself is taken to deliver bytes in order until an end is
  gone.
