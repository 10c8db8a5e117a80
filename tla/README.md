# web-chat, specified and verified

TLA+ models of the web chat in `src/` (server in C++, pages in JavaScript), the
TLC runs that check them and the theorems TLAPS proves about them. Paths below
are relative to `src/src/` unless they start with `assets` or `README`; `engine`
is `http_server/engine_engine_number_9`, `lib` is
`web_chat/iu9_ca_web_chat_lib`, `logic` is `lib/backend_logic`.

## 1. The system

One process serves the site. The main thread accepts TCP connections and puts
them into a bounded queue; worker threads take them one at a time. HTTP
requests go to `RequestGuest`/`Requester` and from there to a page or an API
handler; connections to a second port carry administrator commands. Everything
persistent is in one SQLite file. A chat page in a browser is rendered with the
chat's state inside and keeps itself current by polling.

| Component | State | Operations | Talks to |
|---|---|---|---|
| **Engine**: `engine/running_mainloop.cpp`, `thread_synchronization.h` | `termination`, `WorkersTaskQueue` (linked list), one mutex and condition variable, `corvee_bed` | `electric_boogaloo` (accept, push, ring, join), `worker_func` (sleep, pop, process), `sigterm_action` | workers call the client's or the administrator's handler; a handler may set `termination` (command 8) |
| **Database**: `lib/initialize.cpp`, `logic/server_data_interact.cpp` | tables `nickname`, `user`, `chat`, `user_chat_membership`, `message`; a history counter per chat and one per user's list of chats | row helpers: `add_user`, `reserve_nickname`, `alter_user_chat_role`, `insert_new_message`, ... | used by every handler, each request in a transaction |
| **Chat API**: `logic/api_*.cpp` | none of its own | createChat, addMemberToChat, removeMemberFromChat, leaveChat, sendMessage, deleteMessage | reads and writes the tables, answers with a poll |
| **Polling API**: `logic/polling.cpp` | none | chatPollEvents, chatListPollEvents, getMessageNeighbours; the delta every API answer carries | reads the tables |
| **Chat page**: `assets/js/chat.js`, `common.js`, `logic/when_chat.cpp` | `LocalHistoryId`, `members`, `loadedMessages`, the visible segment, `lastMsgId`, calls in flight | polling timer, whitespace loading, send, delete popup, `updateLocalStateFromRecv` | HTTP calls to the API |
| **Members page, list of rooms**: `chat-members.js`, `list-rooms.js` | the same idea, other maps | poll, add, kick, create, leave | HTTP calls |
| **Request dispatch**: `lib/run.cpp`, `logic/client_server_interact.cpp` | SQLite connection of the worker, transaction guard | route, BEGIN/END/ROLLBACK, error pages | handlers |
| **Request parser**: `engine/http_structures/client_request_parse.cpp` | a matching machine per worker, kept between requests; header, body and declared size of the request in hand | `wipeToInit`, feed a character | the worker's `recv` loop |
| **Templates**: `http_server/new_york_transit_line` | parsed elements, the renderer's stack of frames | `update`, `render` | every page handler |
| **Sessions**: `lib/login_cookie.cpp`, `when_login.cpp`, `when_user.cpp` | cookies in the browser, password column | login, logout, profile form | dispatch |
| **Administrator protocol and CLI**: `engine/admin_control.cpp`, `logic/admin_control_procedure.cpp`, `web_chat/iu9_ca_web_chat_admin_cli` | receive buffers | framed request, answer; adduser, updaterootpw, 8 | engine, database |
| **Forms, cookies, addresses, localization, assets, utilities** | loaded files | parse, print, look up | dispatch |

### What is hard here

* *Threads.* The mutex of the condition variable is also what serializes
  requests: a worker keeps it through `process_connection`. `termination` is
  read under it and written without it, by a signal handler and by the
  acceptor. The bell is rung after the mutex is released.
* *Two histories.* Every change of a chat takes the next number of the chat's
  history; every change of a membership takes one in the user's history too.
  A client is told "everything stamped above your number". A missing bump, a
  stamp from the other counter, or a row changed without a stamp is lost to
  every client, for ever and silently.
* *Long legal sequences.* Roles, one admin for ever, system messages as the
  only record of who was a member when, ids counted by hand from -1.
* *A page with several calls in flight*, each made with the history id the page
  had then, answered in any order or not at all, merging pieces of the message
  log from polls and from both ends. Three pages do this, each in its own way.
* *No sessions on the server*: the oldest login cookie a browser sends decides,
  and overlapping requests of its tabs may leave several.
* *Memory by hand*: a linked queue with a pointer into its last element, owning
  descriptors that are moved from element to task.
* *A protocol read byte by byte* at both ends, cut off anywhere. So is HTTP, by a
  parser whose matching machine is used again for the next request.
* *One step of several failing.* A request is one transaction that a destructor ends;
  five places catch exceptions, each with its own idea of what is rolled back and
  what the client is told; `END` may throw in the destructor.
* *Texts that are written and read again*: commands, forms, cookies, addresses and
  templates, each with characters that have to be told from separators, and the
  templates with indentation that is cut and put back.

What each component must keep true is stated, per module, in section 4, and the
hazards, with source lines and the properties that watch them, are in
`PROJECT.json` (`hazards`).

## 2. Modules

| Module | Models | EXTENDS / INSTANCE |
|---|---|---|
| `ChatDb` | the tables and every helper and API handler as operators on a database value | |
| `ChatServer` | one action per API call and administrator command that writes; safety properties | ChatDb |
| `StampedStore` | abstract: a set of entries, each change of which takes the next stamp of one counter | |
| `ChatHistories` | a chat and a list of chats as instances of `StampedStore` | ChatServer, StampedStore |
| `ChatServerProofs` | theorems about `ChatServer` and `ChatHistories`; lemmas about a page's calls in flight | ChatHistories, TLAPS |
| `ChatPolling` | the answers: poll delta, page, neighbours of a message | ChatDb |
| `ChatPage` | the state of the chat page and what an answer does to it | |
| `ChatSync` | page, server and calls in flight between them | ChatPolling, ChatPage, ChatServer |
| `ChatSyncProofs` | theorems about `ChatSync` | ChatSync, ChatServerProofs |
| `WorkerPool` | the engine's threads | JobServer |
| `JobServer` | abstract: one server that takes jobs in order, one at a time, and drops those above its capacity | |
| `WorkerPoolProofs` | theorems about `WorkerPool` | WorkerPool, TLAPS |
| `Requests` | a connection from the queue to its answer: reading, transaction, exceptions, answer, crashes | TaskQueue, AtomicRequests |
| `AtomicRequests` | abstract: requests that are stored whole or not at all, and answered truthfully | |
| `RequestsProofs` | theorems about `TaskQueue` and `Requests` | Requests, TLAPS |
| `TaskQueue` | the linked list of `WorkersTaskQueue`: elements, the pointer to the last `nxt`, descriptors opened, moved and closed | FifoQueue |
| `FifoQueue` | abstract: a bounded queue of connections, each of which is finished with once | |
| `MembersSync` | the members page and the server | ChatPolling, ChatServer |
| `MembersSyncProofs` | theorems about `MembersSync` | MembersSync, ChatServerProofs |
| `RoomsSync` | the list of rooms and the server | ChatPolling, ChatServer |
| `RoomsSyncProofs` | theorems about `RoomsSync` | RoomsSync, ChatServerProofs |
| `Sessions` | cookies of browsers, logins, changes of passwords | |
| `SessionsProofs` | theorems about `Sessions` | Sessions, TLAPS |
| `AdminProtocol` | one run of the command line tool and the worker that serves it, byte by byte | RemoteCall |
| `RemoteCall` | abstract: a call that is carried out at most once and returns its result or fails | |
| `AdminCommand` | the text of a command: quoted, joined by the tool, cut again by the server (operators) | |
| `Localizator` | which translation a visitor gets (operators) | |
| `Base64` | `base64_encode`, `base64_decode` (operators) | |
| `SocketAddress` | addresses of the configuration, parsed and printed (operators) | |
| `HtmlForm` | a form, as a browser writes it and as the server reads it (operators) | |
| `CookieJar` | names and values of login cookies, the Cookie header (operators) | Base64 |
| `Template` | the templates' parser and renderer (operators) | |
| `TemplateMeaning` | what a template's author means, how templates may be laid out (operators) | Template |
| `Algorithms` | calls of these operators with any input, and what they have to compute | AdminCommand, Localizator, SocketAddress, HtmlForm, CookieJar |
| `Pages` | the call of the renderer, and what page it has to make | Algorithms, TemplateMeaning |
| `TextProofs` | theorems about `AdminProtocol` and `Algorithms` | AdminProtocol, Algorithms, TLAPS |
| `MC*` | model values, bounded inputs and symmetry for TLC | the module they are named after |

### How they correspond to the code

*ChatDb / ChatServer.* A database value is a record of the five tables. A row
that does not exist is a row without a nickname or the constant `NoMembership`;
every SELECT of the code answers "deleted" / stamp 0 for it too. A helper that
writes takes a value and returns one; a handler composes helpers in the order
the C++ calls them, the trailing system message included. `CanX` is the
conjunction of a handler's early returns and exceptions. A refused request is
`ReadOnlyOrRejectedRequest`: its transaction is rolled back, or never wrote. A
request is one step because a worker holds the engine's mutex from the first
byte read to the last byte sent (`WorkerPool!BedDiscipline`, proved) and runs in
one SQLite transaction. Passwords, display names and bios do not take part
in these tables and are left out; which strings are valid is a constant.
`AddUser` is the `adduser` command. The bug in `erase_message`
(`api_deletemessage.cpp:23` names the message by `id` without its chat) is
modelled as it is.

*ChatPolling / ChatPage / ChatSync.* An answer is a record of what the JSON
carries. The page is a record of the fields of `chat.js`; a JavaScript map is a
function over the ids loaded. `updateLocalStateFromChatUpdRespBlind` updates
members first, then folds the messages in order of id, as the code does. Pixels
are abstracted to the question "may there be a hole above (below) what is
shown", so scrolling is a free choice. A call is created with the page's present
`LocalHistoryId`, is answered by the server in one step, and is delivered or
lost. `OthersAct` is any request by anybody, the same user in another tab
included. The page's specification is `PageSpec`, beside the server's `Spec`, which it
implements (`PageIsServed`).

*WorkerPool.* A step is what a thread does between two points at which another
thread may see or change something. The two halves of `pthread_cond_wait`
(release and sleep; wake and take the mutex again) are separate steps, the first
atomic as POSIX has it; spurious wakeups happen. `din_don` is `pthread_cond_signal`
and chooses any sleeper. `served` and `admitted` are history variables.

*TaskQueue.* An element is an address; `first` and `afterLastPtr` are what the
pointers of the struct are, so a pop of the last element must put
`afterLastPtr` back. A descriptor is closed by the destructor of whatever owns
it then: `closed` counts. The pops with one and with several elements are
separate actions, as they are separate branches.

*Requests.* The actions of `TaskQueue` are the queue's; the other steps are those of the one
worker that holds the mutex. A client's message is abstracted to what the parser tells apart:
how many good bytes its header has, whether it ends there or in a bad byte, its Content-Length
fields, the bytes that follow, and the script of `UPDATE`s and refusals its handler comes to.
`sent` is what `recv` has returned so far, in chunks of any size; `vm` is the set of positions
of the threads of the worker's matching machine, which outlives the request (the library is
external: a thread goes on while the bytes are good). `work` is the database as the open
transaction sees it, `stored` what is on disk. `OnException` is who catches what:
`RequestGuest`'s `try` asks for ROLLBACK and rethrows, the choice of the language is before
that `try`, the profile form catches its own, an administrator's command answers with the error.
`End`, `Rollback` and `Terminate` are the destructor of the transaction guard; when a
statement has failed SQLite may have rolled back already (`tx = "none"`), and END then throws in
a destructor. `AtomicRequests` is what all this promises.

*MembersSync / RoomsSync.* As in ChatSync, without messages. A map of JavaScript
objects that mirrors boxes on the page is two functions, what the map says and
what the box shows, where the code lets them differ (`MembersSync`), and one
where it keeps them together. A popup window is open or not and remembers whom
or what it asks about. (The members page sets `__mainloopDelayMS`, which
`common.js`, reading `__mainloopDelayMs`, does not know, so it polls every three
seconds and not every five; how long a delay is does not matter here.)

*Sessions.* A cookie is a login time, a nickname and a password; a jar holds
those not empty. A request takes the jar along when it is posted, is served in
one step, and its `Set-Cookie` headers are obeyed when the answer arrives. The
clock is the number of cookies created and goes forward. `session` is a
history variable: who the browser ought to be.

*AdminProtocol.* A direction is the message and two counters, of bytes sent and
bytes read. The width of a byte, the number of size bytes and the maximal body are
constants; the arithmetic of the size is the code's. Either side may break at
any point; `recv` may time out whenever nothing is there.

*AdminCommand, Localizator, Base64* are pure algorithms, written as operators;
`Algorithms` calls them with every input of constant sets. A loop is a recursive function of
the number of its turns, with its locals as the value: `read_thing` goes over the characters so, and
so do the loops of the other modules; the constructor of
`Localizator` returns a record, with the order of `readdir` and of equal weights
(`std::sort` is not stable) left open; base64 is compared with its meaning in bits.

*SocketAddress, HtmlForm, CookieJar.* A character is a number, a byte, or a model value for a
character the code compares with; a number in an address is one symbol, so that a text is a
sequence of numbers and colons, and the regular expression of `parse_socket_address` is its
alternatives. What a browser does (`Submitted`, `CookieHeader`) is external.

*Template / TemplateMeaning / Pages.* The parser's input is a sequence of items, characters of code and
magic blocks; its stack of frames is `frames`, the elements it has made are `elems`, and
`prepare_to_depart_parts` cuts blank lines and tabs as the code does, line by line and part by
part. Names of variables become numbers of local variables (`Position`), as in the code. The renderer is
recursive where the code keeps a stack of `RFrame`s; `Ditch` is the text so far and the width
of its last line. `TemplateMeaning` starts at the other end: a body is lines of nodes with their
tabs, `Printed` writes it into a file in one of several layouts, and `PageOf` says what page it
means, with environments of names instead of slots and columns read off the text.

*History variables.* `overtaken` (the three pages) becomes true when an answer
is delivered that the server gave before one delivered already; `overlapped`
(`Sessions`) when a browser posts a request while another of its requests is under
way. Properties that hold only up to then say so; nothing is kept from
happening.

## 3. Runs

| Run | Question | Bounds |
|---|---|---|
| `server_one` | one chat: its system messages are a truthful trail, its history orders every change | 3 users, 1 chat, history up to 8 |
| `server_two` | two chats sharing users and names: registry, ids, references, stamps, admins, lists of chats | 3 users, 2 chats, history up to 5 |
| `server_erase` (violation) | system messages of one chat survive deletions in another | as `server_two` |
| `sync` | a page with two calls in flight, in any order: what it shows, what its id promises, that it catches up | 2 users, 1 chat, history up to 4, 2 calls, 1 lost |
| `pool` | mutual exclusion, order of service, wakeups, one server; the queue is served; command 8 ends the server | 3 workers, 3 connections, queue of 2, signals, set-up failure |
| `pool_signal` (violation) | SIGTERM ends the server | 2 workers, 3 connections, queue of 1 |
| `requests` | what is carried out is the request that was sent; each is stored whole or not at all, and the answer is true; the linked list is a bounded queue and closes what it owns once | 3 connections, queue of 2, 2 addresses that are used again, 1 worker; 7 shapes of requests of up to 4 bytes, 9 scripts of up to 3 steps, 1 failure of SQLite, a crash at any time |
| `members` | buttons agree with roles; without overtaking nobody is missing, and boxes are true while my role stays | 2 users, 1 chat, history up to 7, 2 calls |
| `rooms` | the list is true to its history id | 2 users, 2 chats, history up to 3 each, 2 calls; followed until a call overtakes another (`CONSTRAINT CallsInOrder`) |
| `sessions` | a login lasts; cookies do not pile up | one browser with two tabs, 2 users, 2 passwords, 3 cookies |
| `admin` | one remote call; the tool comes back | texts of 0 to 7 bytes of four values, sizes of 2 bytes, bodies up to 6, chunks of 3 |
| `algorithms` | base64 by bits; fields, forms and cookies arrive as meant; the file the settings and the header ask for; addresses; pages | up to 4 bytes, up to two groups of letters; 4 fields of up to 2 characters; 6 ranges, up to 3 files, 2 entries of force-order, headers of 2 ranges; every IPv6 text of up to 9 equal numbers; forms of 2 fields of up to 2 characters; jars of 3 cookies; bodies of up to 3 lines, two blocks in each other, 4 layouts |

Why the bounds are enough:

* *Users, chats.* An admin, a member and a third user who is summoned, kicked
  or refused; two chats are the least in which rows of one can be taken for
  rows of the other. Five nicknames, two of them reserved, let both users
  and chats compete for one.
* *MaxHistory* caps the counters; every write takes a number, so it caps the
  number of writes to a chat. Eight allow create, summon, send, kick and
  summon again (a change of members takes two numbers, one for its system
  message); five in each of two chats are enough for the cross-chat
  erasure, which needs three in a chat.
* *MaxCalls = 2* lets one call overtake another. *Amount = 1* (the page asks
  for fifteen) makes every batch a partial one and makes the most holes.
  *MaxLost = 1* loses one call at any point, before or after the server has carried it out,
  with another before it, beside it and after it.
* *Queue of 2, 3 connections*: the queue is empty, partly full, full and, while
  nobody serves, overflowing, in every combination with sleeping and running
  workers. Three workers let one sleep, one wait for the mutex and one serve.
* *Members and rooms.* Everything these pages keep is per user or per chat; two
  users tell the page's own rows from others', two chats let counters of
  different chats be mixed up. A change takes one or two numbers, so that
  a history of seven holds a summons, a kick, a second summons and what the page
  itself does in between. 
* *Sessions.* Two tabs let requests overlap, two users and the administrator change the
  passwords a browser has cookies for; three cookies let one tab log in again after two
  overlapping logins. The proofs are for any number of all of them.
* *AdminProtocol.* Texts and answers are empty, of one byte, of a size that needs both
  size bytes, of the largest size, and too long; the kernel's buffer is smaller
  than a message, so that both sides wait for each other.
* *Requests.* One worker is enough: the mutex makes workers take turns, and what one leaves to
  the next request is in `vm`, which it meets again itself; the proofs are for any number.
  Queue and addresses as small as they are make addresses come back while descriptors of
  dead elements are still about. Bytes too few and too many, a second Content-Length that
  disagrees with the first, a size of zero, of junk and too large. One failure of SQLite
  leads into every `catch`; the only step that can follow with a second failure (the
  form's apology) is reached by a refusal first.
* *Texts.* The characters are those the code treats specially, and one it does not. The
  IPv6 texts are all placings of one or two colons; numbers of one value are enough, since
  only their count and the place of the gap decide. Two blocks, one in another, and two
  nodes in a line, give every relation of a block to what is before, after, and in it.
* *Localizator.* Ranges of no, one and two subtags give every relation of two
  files (equal, prefix, common prefix, unrelated), three files give a tie to a
  candidate that is neither first nor last.
* *Symmetry* permutes values the modules never compare except for equality, and
  is used in runs without liveness properties only: `pool`, `sync` and `admin` have none.

`CHECK_DEADLOCK` is never switched off: a stopped server is the step `Exited`,
and a server without requests is `ReadOnlyOrRejectedRequest`.

## 4. Properties

`ChatServer`, `WorkerPool`, `TaskQueue`, `Sessions` and `AdminProtocol` have a type
invariant `TypeOK`, which is proved (`Typing`) and so is no run's; the modules of the pages state
properties of their state only. `SystemMessagesSurvive`, which `server_erase` refutes, says that a
system message is never erased.

*ChatServer.* `NicknameRegistryExact`: the table of nicknames is exactly what is
reserved and in use, across users and chats. `MessageIdsContiguous`: 0..lastMsgId,
each once; the page asks for neighbours by id. `ForeignKeysHold`: references, and
the author of a message has a membership row for ever, on which the page
relies. `MembershipStampsSound`: no stamp from the future, none shared, none missing, so
`stamp > local` selects exactly what changed. `AdminIsNeverReplaced` (action
property): at most one admin, never another; a chat without one only shrinks.
`TrailMatchesMembership`: the system messages tell who is in and who of these is not the admin.
`TrailJustifiesMessages`: they tell that whoever did anything was in when doing it. Nobody acts after being
kicked or leaving and before being summoned again; those who act without having been named are one user,
the creator, who is the admin as long as there is one, so that a stranger who could write or leave
would be found; kicks and summonses are the creator's. The trail does not say
who was read-only, and so neither do these. Both hold in a site with one chat, because of the erasure bug.
`ChatLogsAreStamped`, `ChatListsAreStamped`: refinement of `StampedStore` by each
chat (members and messages) and by each user's list of chats.

*ChatSync.* `SendersAreKnown`: the assertion of `updateLocalStateFromChatUpdRespBlind`
never fires, in any order of answers. `ShownRunIsMaximal`: what is shown is one
run without holes that has swallowed everything it touches.
`PageIsCurrentToItsHistoryId`: until an answer overtakes an older one,
`LocalHistoryId` promises the truth about all that was stamped up to it.
`PageNeverGoesBack` (action property): until then it never goes back either.
`PageCatchesUp` (liveness): a page of a member ends up current, if nothing
overtook.

*MembersSync.* `NobodyIsMissing`: without overtaking, a member not changed since
`LocalHistoryId` has a box, and my role is known. `BoxesAreTrueAtFirst`: and until my
role changes, boxes tell the truth (afterwards they need not: section 5). `KickButtonsAgree`: in any
order of answers a button is shown exactly to an admin, for another who is shown
as a member.

*RoomsSync.* `ListIsTrue`: without overtaking, a membership of mine not changed since
`LocalHistoryId`, a counter of mine over all chats, is shown as it is.


*Sessions.* `SessionLasts`: a browser whose requests have not overlapped, in however
many tabs, stays who it logged in as until the password is changed by another, or the
answer to its own change is lost. `CookiesAreFew`: at most one login cookie per tab,
overlapping or not. Beyond that `SessionLasts` fails: two overlapping logins leave two
cookies and the older decides, though its password may be changed later; that is a
listed hazard, no document promises otherwise.

*AdminProtocol.* `ExchangeIsOneCall`: refinement of `RemoteCall`. `ReadsTextToTheEnd`: a text that
is not empty is recognised with its last byte. `ToolComesBack` (liveness).
*AdminCommand.* `FieldsAreRead`: what the README says about blanks, backslashes
and missing fields. (README.md:75 calls the command `updateroopw`; the code knows
`updaterootpw`.)

*TaskQueue.* `ListIsQueue` (proved): the chain from `first` is the queue, and the last pointer is in
its last element, or the head. `ClosedOnce`: no descriptor is closed twice, in use and closed, or
forgotten. `QueueIsFifo`: refinement of `FifoQueue`.

*Requests.* `RequestIsReadWhole`: however `recv` cuts the stream, and whatever request the
worker's machine has read before, the one carried out has a whole header and as many bytes of
body as its first Content-Length says. `RequestsAreAtomic`: refinement of `AtomicRequests`: all
changes of a request are stored or none, of the profile form all up to some field; nothing is
stored after the answer; "ok" is said only if everything is stored, an error only if nothing is;
through failing statements, SQLite's own rollbacks, a server that terminates, and crashes.

*SocketAddress.* `AddressesRoundTrip`: what is accepted spells the address it is taken for, every
spelling is accepted, and the shortest one is printed. *HtmlForm.* `FormsAreRead`. *CookieJar.*
`CookiesAreRead`: among foreign and emptied cookies the server finds exactly its own.
*TemplateMeaning.* `PageIsRendered`: any layout of a template gives the page its author
means, or none if it means none.

*Localizator.* `OrderIsForced` (against a declarative definition of the place of a
file), `AnswerIsAsked`. A visitor who asks for `en-GB` only gets the site's first
file when there is `en-US` only: the code cuts files' ranges, not visitors'.

*Base64.* `Base64IsExact`, both ways.

*WorkerPool.* `BedDiscipline`: the mutex and the threads' beliefs about it agree.
`NoTaskSleptOver`: no lost wakeup
for a task. `PoolIsOneServer`: the pool refines `JobServer`, and so keeps the order of
service (`ServedInOrder`, proved on the way). `QueuedIsServed`,
`CommandEndsServer`, `TerminationEndsServer` (liveness): the server ends once a worker has
served command 8 (it does), or once the flag is set by whatever means (it need not).

### Fairness

*WorkerPool* (`FairSpec`). A thread that is not waiting goes on (weak fairness
of `WorkerMoves`, `AcceptorMoves`). A free mutex that is wanted is
taken by somebody (`SomebodyLocks`): POSIX promises no order and no turn. Serving
ends, which the code owes to `request_timeout`, though a client that sends
one byte before each timeout can stretch it ("todo: add timeout for multiple
bytes", `running_mainloop.cpp:102`); that client is not modelled. Nothing is
assumed of spurious wakeups, signals or arrivals.

*ChatSync* (`FairSpec`). Requests are answered (`QueuedIsServed`) and answers
arrive, or are lost, which `MaxLost` bounds: weak fairness of answering and
delivering, written out as "infinitely often no call is in flight, or infinitely often
one moves on" (a call in flight can always move on; written so, TLC need not
evaluate an ENABLED of the whole server). The one-second timer and the whitespace loop keep
firing; the model's bound `MaxCalls`, which the page does not have, disables them while
two calls are in flight, hence strong fairness for these two. No fairness for anything
a user does. The page recovers from a lost call by its next poll only.

*AdminProtocol* (`FairSpec`). Each program goes on when it can. The server can
always: `recv` ends after `request_timeout` (20 seconds unless configured), and so
does `send`; a queued connection is taken (`QueuedIsServed`) or closed. Breaking
connections are never assumed.

## 5. What the checks found

1. **deleteMessage erases across chats** (`server_erase`). The UPDATE of
   `api_deletemessage.cpp:23` has no chat in its WHERE. It erases the message
   of that id in every chat, even a system message, which the same function
   refuses to erase, and stamps it from another chat's history, so pages of
   that chat are not told, or told at a wrong time. This is why
   `ChatLogsAreStamped` and the trail are checked in a site with one chat.
2. **A signal can leave the process hanging** (`pool_signal`). A worker that has
   read `termination = false` and has not reached `pthread_cond_wait` misses the
   only broadcast, and `electric_boogaloo` waits in `pthread_join` for ever.

Command 8 does not have the defect of 2: it sets the flag under the mutex (`pool`
checks it). A failed `bind` or `listen` has it: the flag is set and both
broadcasts made without the mutex, against the comment at
`running_mainloop.cpp:295` ("no need to tiptoe"), so `CommandEndsServer` speaks of the
command only. The run `pool_signal` leaves failures of the set-up out (`MaySetupFail = FALSE`), so that
what it shows is a signal; with `MaySetupFail` instead of `MaySignal` TLC refutes
`TerminationEndsServer` in the same way.

Two more defects limit what a property says:

* *Boxes of former members come back.* When my role changes,
  `chat-members.js:83` draws all boxes again from the map `members`, which is
  written only when a user is first seen (line 99): one who was kicked since is shown as a
  member, with no later poll to correct it. `BoxesAreTrueAtFirst` stops there.
* *An empty text is never answered.* `feedCharacter` looks at the size only with a
  byte of the body, so that a message without a body, which `cli.cpp:9` allows,
  leaves the worker in `recv` until it times out. `ReadsTextToTheEnd` is for
  texts that are not empty.

Met while the smaller parts were translated; the properties are stated so that they hold, and
the model does what the code does:

* *A REF of a name that has a value.* `parser.cpp:446` (`emplace`) gives no new number to the
  name, but `rendering.cpp:303` appends a value; inside of the block every later variable is off by
  one. A FOR refuses such a name (`parser.cpp:409`). `PageIsRendered` is for templates
  without such a REF (`ElementsNamesAreNew`).
* *The first element of an array* cannot be asked for: `rendering.cpp:32` wants `0 < ind`. The
  meaning of a template shares `descend` with the renderer here.
* *Types of arguments.* `TPFrame` (`parser.cpp:215`) never skips the closing parenthesis, so that an
  argument declared `EL(...)` is refused; and an argument `_` does not advance the number of the
  next one (`parser.cpp:585`). The model has arguments of type JSON, with names.
* `jesccomp` is rendered (`rendering.cpp:263`) but never registered (`templater.cpp:119`); entities
  are written without their semicolon (`html_case.cpp`).
* *One bad cookie hides the others.* A cookie without `=`, or with a quotation mark, makes
  `cookies.cpp:72` refuse the whole header, and one login cookie that cannot be decoded makes
  `login_cookie.cpp:60` drop all. Jars in the model have foreign cookies that can be read.
* *The end of a transaction.* If SQLite has rolled back by itself, `END` fails in a destructor and the
  process terminates (`run.cpp:32`). Nothing half done is stored, as `RequestsAreAtomic` shows, but
  the server is gone; nothing restarts it.

*Stale answers.* Once an answer overtakes an older one, `PageIsCurrentToItsHistoryId` and
`PageNeverGoesBack` may fail: poll A is answered by the server; a later send B is
answered and delivered; call C is made with B's history id; A is delivered late and
puts rows and `LocalHistoryId` back; C's answer raises the id again without the
rows A overwrote. HTTP calls of separate connections can do this; no document of the
repository promises otherwise, so it is a condition of these properties (`overtaken`)
and a listed hazard, not a finding.

## 6. Proofs

From `ChatDbAssumption` (root is a user, NoUser and NoNickname are not
values, the reserved names are nicknames), for any sets of users, chats,
names and texts and any MaxHistory (`ChatServerProofs`):

* `Typing`: `Spec => []TypeOK`.
* `NicknamesUnique`: `Spec => []NicknameRegistryExact`.
* `MessageNumbering`: `Spec => []MessageIdsContiguous`.
* `MembershipStamps`: `Spec => []MembershipStampsSound`.
* `References`: `Spec => []ForeignKeysHold`.
* `AdminForever`: `Spec => AdminIsNeverReplaced`.
* `ListsAreStamped`: `Spec => ChatListsAreStamped`, the refinement of `StampedStore` by
  every user's list of chats.

And if there is one chat (`OneChat`):

* `LogsAreStamped`: `Spec => ChatLogsAreStamped`, the refinement by the chat;
* `TrailTellsWhoIsIn`: `Spec => []TrailMatchesMembership`;
* `TrailTellsWhoMayWrite`: `Spec => []TrailJustifiesMessages`.

`OneChat` is a condition because of the erasure bug (section 5, 1, `server_erase`): with two chats a
deletion in one changes a message of the other without its counter, and takes the text from its
system messages. Everything else in this section holds of any number of chats, unless it says so.

Each argument is made on operators: a lemma says what a helper
(`alter_user_chat_role`, `insert_new_message`, `erase_message`, `add_user`,
`insert_chat`) preserves, a handler composes the lemmas of its helpers, and the
step theorem has one case per action. Each property is made inductive by what
it leans on: types; that a chat without a nickname has no messages and no
members; that a user without one has no memberships; and `Unborn`, that the counters of what does
not exist yet are at their start, without which `insert_chat` and `add_user` could put a history back.

The refinements rest on one lemma, `NextIsOneRequest`: a request is `Quiet`, or `OneRequest(d, e, u, c)`,
which says which counters may move, that the one membership row that changes takes new stamps of both
histories, and that every message that is not an old one has a new stamp of that chat. Each
helper is `OneRequest`, and two in a row are (`TwoSteps`). The trail needs a stronger invariant, `TrailOK`:
what the last verb about a user says of the role; that nobody acts who was put out by the
messages before; and that all who act without having been named by then are one user, the present admin
if there is one. The last part is not a consequence of `AdminIsNeverReplaced` and cannot be left out: a user
who was never named may act only as admin, and there is only one.

From the same assumptions and that the page's user and chat are some of theirs (`SyncAssumption`,
`MembersAssumption`, `RoomsAssumption`), for any number of users, chats, messages and calls in flight,
answered, lost and delivered in any order, the pages:

* `ChatSyncProofs`: `SendersKnown`, `ShownRunMaximal`; `PageIsTrue` (`PageIsCurrentToItsHistoryId`, with `OneChat`);
  `PageGoesForward` (`PageNeverGoesBack`);
* `MembersSyncProofs`: `ButtonsAgree` (`KickButtonsAgree`); `EverybodyIsShown` (`NobodyIsMissing`); `BoxesAreTrue`
  (`BoxesAreTrueAtFirst`);
* `RoomsSyncProofs`: `RoomsAreTrue` (`ListIsTrue`);
* `PageIsServed`, `MembersAreServed`, `RoomsAreServed`: `PageSpec => Spec`, so that what is proved of the server
  holds with a page in front of it.

`KickButtonsAgree` is nearly inductive (`Agree` adds that boxes and the map `members` have the same users).
The others are not (TLC checked what is, `SyncInv`, on the instance of `sync`): whether a page may take
an answer depends on what the page was when it asked, and on the answers before. The invariant follows a fact along that way: what an
answer in flight says is true of the database as far as nothing has changed since
(`AnswerIsTrue`); history ids of calls, page, answers and database are in order (`CallsInTurn`, shared by the
three pages, with lemmas for a call added, answered, removed, and a database that moves on); and the
page shows the truth up to its id (`ShowsTruth`). When nothing has overtaken, the answer delivered is the oldest,
and the rows it does not carry were known to the page already. A step of the server leaves all this alone
because of `OneRequest`: what changes takes a stamp above every id a page or an answer has.

`SendersAreKnown` holds whatever overtakes what, for another reason: the page knows everybody stamped up
to its id, but for those a call in flight is sure to bring (`Knows`, `Introduces`); maps of members only grow, and an
author has a membership row for ever (`ForeignKeysHold`). `PageNeverGoesBack` compares the page, every answer in
flight and the database pairwise (`Forward`): what is said later takes back nothing said before; here an erasure from another chat does no harm.
`ShownRunIsMaximal` is a lemma about one message (`OneMessage`): wherever it lies, the page shows one maximal run
again. Answers are loops over their messages, `opaNewMessages` a recursive function; `Rounds` shows that it has the values its
equations give, and `Kept` is induction along it with a family of sets `G[n]` in the place of a predicate,
from the well-foundedness of the natural numbers, which needs no operator as a parameter.

From `PoolAssumption` (there is a worker, the main thread is not one, capacity is a
number), for any number of workers and connections (`WorkerPoolProofs`):

* `Typing`, `MutualExclusion` (`BedDiscipline`), `FirstComeFirstServed`
  (`ServedInOrder`), `NoLostWakeupForTasks` (`NoTaskSleptOver`);
* `PoolImplementsJobServer`: `Spec => PoolIsOneServer`, the refinement.

The inductive invariant is types (with: a thread that holds a connection holds a
real one), the mutex discipline together with "a worker lying down, and so
holding the mutex, has seen an empty queue", the order of service, and the
wakeup property. The second part is what makes the third and fourth inductive: between `FindNothing`
and `FallAsleep` no connection can be queued. Every step has one of four shapes
for `JobServer` (nothing, a job is admitted, taken, ended); that
lemma gives both the order of service and the refinement.

From `QueueAssumption`, for any numbers of addresses and connections and any capacity (`RequestsProofs`, first part):
`Typing`, `ListNeverBreaks` (`ListIsQueue`), `DescriptorsClosedOnce` (`ClosedOnce`),
`ListImplementsFifo` (`QueueIsFifo`). The elements pushed and not popped are kept
in order in a history variable; `ListIsQueue` and `ClosedOnce` are inductive together
with: an element owns a descriptor, and the destructor starts when no worker has
a task.

The second part, from `QueueAssumption` and `RequestsAssumption` (messages have the form `IsMessage`, and
choosing a language changes nothing), for any connections, workers, messages, longest body and number
of failures: `RequestsAreQueued` (`QueueIsFifo`) and `RequestsCloseOnce` (`ClosedOnce`), because every step is
one of `TaskQueue`'s or leaves it alone; `WholeRequests` (`RequestIsReadWhole`); and `RequestsImplementAtomic`
(`RequestsAreAtomic`), the refinement. The invariant `RInv` adds to the types: a busy worker has exactly one
connection (`InHands`); of a connection that is fresh or queued nothing is stored or told (`Untouched`), so
that taking it is the abstract `Send`; while the header is read, the machine has one thread, at its last byte
(`InHeader`), which is false if the machine is not wiped between requests; in the body, the size is the
first Content-Length (`Reads`); and the open transaction shows what is stored and the statements up to `at`, all of them
updates (`Works`). `HowLeft`, a part of `Works`, says with which answers a handler can be left with
which of its statements done and a rollback asked for or not; END is `CarryOut`, `CarryOutPart` or nothing
by its cases, and this is where a handler that swallowed an exception without asking for
ROLLBACK would be found.

`SessionsProofs`, for any browsers, tabs and users: `Typing`; `NoPileOfCookies` (`CookiesAreFew`);
`LoginsLast` (`SessionLasts`). The bound on cookies is inductive in this form:
whichever of the requests under way come back, the cookies they do not empty, and one
for each of them, are no more than tabs. Logins last because a browser whose requests
never overlapped has at most one of them under way and at most one cookie in its jar, and
the request came with it.

`TextProofs`, its first part, for any texts, widths and windows (`SizeAssumption`): `Typing`, `TextsAreRecognised`
(`ReadsTextToTheEnd`), `OneCall` (`ExchangeIsOneCall`). A receiver *tracks* the message: its
progress is exactly the number of bytes read, its size the value of the size
bytes read so far, its body a prefix of the body sent. The arithmetic is two
lemmas: a number cut after one more digit, and the bound of what is left.

The second part of `TextProofs` is about `Algorithms`, from assumptions that say of what kind the inputs are
(bytes are 0..255, `Pad` is no letter, a language range is a sequence, what the regular expression of an
address lets through, `CookieAssumption`), for inputs of any number and length: `Base64IsExactHolds`, `FieldsAreReadHolds`,
`OrderIsForcedHolds`, `AnswerIsAskedHolds`, `FormsAreReadHolds`, `AddressesRoundTripHolds`, `CookiesAreReadHolds`. All
rest on the lemma `CallInvHolds`: a returned value is what the algorithm makes of arguments that may be given.
`CookieAssumption` says that a browser's jar holds logins of the server's (any time, nanoseconds below a billion,
a nickname without a zero byte, any password) and foreign or emptied cookies a browser can send; that separators are not
letters of base64; and that an exception is no value.

What a loop computes for every text is an induction, and it has to be made without an induction theorem that takes
an operator: `Inductive` is the principle for a set of numbers, from the well-foundedness of the natural
numbers, and each loop is first shown to have the rounds its equations give (`Recursion`, `Reading`, `FormRun`) and
then followed by an invariant that says, of each round, what the value is. *base64*: after so many
groups of three bytes the text is so long (`Pieces`, `Blocks`), each group has the bits of its bytes, and four letters
give back three bytes; where the source ends within a group is arithmetic on its own. *Localizator*: `assignment` is the longest prefix of a file so far (`IsLongest`);
what is in the table for a range is a file that none of the other candidates comes before. *Accept-Language*: the first known
range of any order of weights. *Commands*: `HasRead`, after the fields written so far, with whatever quoting, the locals of
`read_thing` hold these fields; blanks between them, any number, add nothing. *Forms*: `IsFilled`, after so many characters of a
form the fields before are there and the present one is filled so far; an escaped byte is three rounds. *Addresses*: a spelling is
written place by place (`Spells`: eight numbers, or those before and after some zeros), so that a text has one address at most
whatever alternative of the regular expression takes it; the loop over the pieces keeps the longest run of zeros so far
(`IsRun`), and what is printed leaves out that run: no spelling has fewer numbers, counted by a bijection (`CountBy`). *Cookies*: the
header is cut where its cookies begin, and each turn of the loop takes one of them, since neither a name nor a value has its
separator; a number is printed and read by the values of its first digits; credentials come back from base64 by the lemmas above;
and what is selected is, after so many cookies, exactly the logins among them.

Only model-checked: liveness (`PageCatchesUp`, `QueuedIsServed`, `CommandEndsServer`, `ToolComesBack`), which is out of the
provers' reach; `PageIsRendered`, whose templates and meanings are RECURSIVE operators, which is why it is in a module of its
own (`Pages`). The two violations are TLC's.

## 7. Not modelled, and the plan

| Next | What |
|---|---|
| HTTP | the reading of `Accept-Language` and of the request line, character by character |
| templates | `jsinsert`; names and white space inside of magic blocks |

Not planned: SQLite and the binding of its columns (that a transaction is atomic and durable is
taken from SQLite; that the server asks for the right end of it is `Requests`), system-call wrappers,
the routing of URLs and the composing of responses (formatting), the walk through directories,
assets (read once at start, then only looked up), the regular expression library (not in the
repository; what the server relies on is `vm`), the build script.
