------------------------------ MODULE Requests ------------------------------
(***************************************************************************)
(* A connection from the queue to its answer: the worker that holds the    *)
(* mutex reads the request (process_http_connection_input,                 *)
(* ClientHttpRequestParser_Ctx), the guest core carries it out in one      *)
(* SQLite transaction (ONE_SQLITE_TRANSACTION_GUARD), and the answer is    *)
(* sent.  Clients stop at any byte, SQLite fails at any statement, and the *)
(* process may be killed at any time.                                      *)
(***************************************************************************)
EXTENDS TaskQueue

CONSTANTS
    Workers,
    Messages,       \* what clients send:
                    \*   header   good bytes before the header ends
                    \*   whole    it ends there; otherwise a bad byte follows
                    \*   lengths  the values of its Content-Length fields
                    \*   body     bytes that follow a whole header
                    \*   handler  what carries it out, and
                    \*   script   the UPDATEs and refusals it comes to
    NoMessage,
    Junk,           \* a Content-Length that is no number
    MaxBody,        \* 100000000 in the code
    MaxFaults       \* bound: failures of SQLite

IsMessage(m) ==
    /\ m.header \in Nat /\ m.body \in Nat /\ m.whole \in BOOLEAN
    /\ m.lengths \in Seq(Nat \cup {Junk})
    /\ m.handler \in {"core", "locale", "form", "command"}
    /\ m.script \in Seq({"update", "refuse"})

\* no language has been chosen before the first statement
ASSUME RequestsAssumption ==
    /\ MaxBody \in Nat /\ MaxFaults \in Nat
    /\ Junk \notin Nat
    /\ NoMessage \notin Messages
    /\ \A m \in Messages :
        /\ IsMessage(m)
        /\ m.handler = "locale" => m.script = <<"refuse">>

VARIABLES
    message,        \* of every connection
    sent,           \* bytes of it that recv() has returned
    vm,             \* of every worker, kept between requests: how far each of
                    \* the threads of its matching machine has come
    worker,         \* who holds the mutex
    parser,         \* ClientHttpRequestParser_Ctx
    stage,          \* what the worker is about
    at,             \* next step of the script
    stored,         \* the database: <<connection, step>>
    work,           \* the database, as the open transaction sees it
    tx,             \* "open" or "none", according to SQLite
    rollback,       \* ONE_SQLITE_TRANSACTION_GUARD
    answer,         \* "none": an exception goes through process_connection
    told,           \* what the client has got
    faults

inputs == <<message, sent, vm, worker, parser>>
database == <<stored, work, tx>>
control == <<stage, at, rollback, answer, told, faults>>

rvars == <<inputs, database, control>>

qvars == vars

NewParser == [header |-> 0, body |-> 0, size |-> 0, collecting |-> FALSE, status |-> 0]

RInit ==
    /\ Init
    /\ message = [t \in Tasks |-> NoMessage]
    /\ sent = 0
    /\ vm \in [Workers -> {{0}}]
    /\ worker \in Workers
    /\ parser = NewParser
    /\ stage = "idle" /\ at = 1
    /\ stored = {} /\ work = {} /\ tx = "none"
    /\ rollback = FALSE /\ answer = "none"
    /\ told = [t \in Tasks |-> "nothing"]
    /\ faults = 0

\* the connection in the worker's hands
task == CHOOSE t \in taken : TRUE

request == message[task]

-----------------------------------------------------------------------------
(* Reading *)

\* Broken: the machine is as the request before has left it.
WipedAndStarted_not(machine) == machine \cup {0}

\* wipeToInit(), addNewMatchingThread()
WipedAndStarted(machine) == {0}

TakeConnection(w) ==
    /\ stage = "idle" /\ taken = {}
    /\ pop_first_single \/ pop_first_several
    /\ \E t \in taken', m \in Messages : message' = [message EXCEPT ![t] = m]
    /\ worker' = w
    /\ vm' = [vm EXCEPT ![w] = WipedAndStarted(@)]
    /\ stage' = "reading"
    /\ UNCHANGED <<database, sent, parser, at, rollback, answer, told, faults>>

\* The header is matched.  Its first Content-Length counts; std::stoull throws
\* at Junk, which ends as status -1 does.
HeaderEnds(p, lengths) ==
    IF lengths = <<>> THEN [p EXCEPT !.status = 1]
    ELSE LET size == Head(lengths)
         IN  IF size = Junk THEN [p EXCEPT !.status = -1]
             ELSE [p EXCEPT !.collecting = TRUE, !.size = size,
                            !.status = IF size > MaxBody THEN -1
                                       ELSE IF size = 0 THEN 1 ELSE 0]

BytesOf(m) == m.header + (IF m.whole THEN m.body ELSE 1)

\* the loop over `buf` has come to
fed == parser.header + parser.body

Recv ==
    /\ stage = "reading" /\ parser.status = 0 /\ fed = sent
    /\ \E n \in sent + 1 .. BytesOf(request) : sent' = n
    /\ UNCHANGED <<qvars, database, control, message, vm, worker, parser>>

feedHeader ==
    LET threads == IF fed < request.header THEN {n + 1 : n \in vm[worker]} ELSE {}
        p == [parser EXCEPT !.header = @ + 1]
    IN  /\ vm' = [vm EXCEPT ![worker] = threads]
        /\ parser' = IF request.whole /\ request.header \in threads
                     THEN HeaderEnds(p, request.lengths)
                     ELSE [p EXCEPT !.status = IF threads = {} THEN -1 ELSE 0]

feedBody ==
    /\ parser' = [parser EXCEPT !.body = @ + 1,
                    !.status = IF parser.body + 1 >= parser.size THEN 1 ELSE 0]
    /\ UNCHANGED vm

\* What recv() has returned beyond the request is dropped.
feedCharacter ==
    /\ stage = "reading" /\ parser.status = 0 /\ fed < sent
    /\ IF parser.collecting THEN feedBody ELSE feedHeader
    /\ UNCHANGED <<qvars, database, control, message, sent, worker>>

\* The end, a timeout or an error of recv(), or status -1: "Incorrect request"
RecvEnds ==
    /\ stage = "reading" /\ parser.status # 1 /\ (parser.status = 0 => fed = sent)
    /\ stage' = "closing"
    /\ UNCHANGED <<qvars, inputs, at, database, rollback, answer, told, faults>>

-----------------------------------------------------------------------------
(* The guest core and its transaction *)

Fault == faults < MaxFaults /\ faults' = faults + 1

Begin ==
    /\ stage = "reading" /\ parser.status = 1
    /\ stage' = "handling"
    /\ tx' = "open" /\ work' = stored
    /\ UNCHANGED <<qvars, inputs, stored, at, rollback, answer, told, faults>>

\* The guard was not made, so there is nothing to end.
BeginFails ==
    /\ stage = "reading" /\ parser.status = 1
    /\ Fault
    /\ stage' = "closing"
    /\ UNCHANGED <<qvars, inputs, at, database, rollback, answer, told>>

Update ==
    /\ stage = "handling" /\ at <= Len(request.script)
    /\ request.script[at] = "update"
    /\ work' = work \cup {<<task, at>>}
    /\ at' = at + 1
    /\ UNCHANGED <<qvars, inputs, stage, stored, tx, rollback, answer, told, faults>>

Caught(roll_back, text) == [rollback |-> roll_back, answer |-> text]

\* Broken: the guest core rethrows without asking for ROLLBACK.
OnException_rethrow(handler) ==
    CASE handler = "core" -> Caught(FALSE, "none")
      [] handler = "locale" -> Caught(FALSE, "none")
      [] handler = "form" -> Caught(FALSE, "sorry")
      [] handler = "command" -> Caught(TRUE, "error")

\* Who catches what.  The language is chosen before the guest core's `try`;
\* the profile form has a `try` of its own around its three fields.
OnException(handler) ==
    CASE handler = "core" -> Caught(TRUE, "none")
      [] handler = "locale" -> Caught(FALSE, "none")
      [] handler = "form" -> Caught(FALSE, "sorry")
      [] handler = "command" -> Caught(TRUE, "error")

Throw(handler) ==
    /\ stage' = "leaving"
    /\ rollback' = OnException(handler).rollback
    /\ answer' = OnException(handler).answer

Refuse ==
    /\ stage = "handling" /\ at <= Len(request.script)
    /\ request.script[at] = "refuse"
    /\ Throw(request.handler)
    /\ UNCHANGED <<qvars, inputs, at, database, told, faults>>

\* sqlite3_step fails; after some errors SQLite has rolled back by itself.
StatementFails ==
    /\ stage = "handling" /\ at <= Len(request.script)
    /\ request.script[at] = "update"
    /\ Fault
    /\ Throw(request.handler)
    /\ \/ UNCHANGED <<tx, work>>
       \/ tx' = "none" /\ work' = stored
    /\ UNCHANGED <<qvars, inputs, at, stored, told>>

\* The form's own answer needs the profile: the guest core catches this one.
ApologyFails ==
    /\ stage = "leaving" /\ answer = "sorry"
    /\ Fault
    /\ Throw("core")
    /\ UNCHANGED <<qvars, inputs, at, database, told>>

\* `return`: the answer is composed, the guard's destructor comes next
Return ==
    /\ stage = "handling" /\ at > Len(request.script)
    /\ stage' = "leaving" /\ answer' = "ok"
    /\ UNCHANGED <<qvars, inputs, at, database, rollback, told, faults>>

Left == stage' = IF answer = "none" THEN "closing" ELSE "answering"

End ==
    /\ stage = "leaving" /\ tx = "open" /\ ~rollback
    /\ stored' = work /\ tx' = "none"
    /\ Left
    /\ UNCHANGED <<qvars, inputs, at, work, rollback, answer, told, faults>>

Rollback ==
    /\ stage = "leaving" /\ tx = "open" /\ rollback
    /\ work' = stored /\ tx' = "none"
    /\ Left
    /\ UNCHANGED <<qvars, inputs, at, stored, rollback, answer, told, faults>>

\* END or ROLLBACK throws in the destructor: std::terminate.  The journal on
\* the disk takes the file back to `stored`.
Terminate ==
    /\ stage = "leaving"
    /\ IF tx = "none" THEN UNCHANGED faults ELSE Fault
    /\ stage' = "dead"
    /\ UNCHANGED <<qvars, inputs, at, database, rollback, answer, told>>

-----------------------------------------------------------------------------
(* The answer *)

SendAnswer ==
    /\ stage = "answering"
    /\ told' = [told EXCEPT ![task] = answer]
    /\ stage' = "closing"
    /\ UNCHANGED <<qvars, inputs, at, database, rollback, answer, faults>>

SendFails ==
    /\ stage = "answering"
    /\ stage' = "closing"
    /\ UNCHANGED <<qvars, inputs, at, database, rollback, answer, told, faults>>

\* The locals, the task and the lock go out of scope.  `personal_parser_buffer`
\* is as the parser has left it.
CloseConnection ==
    /\ stage = "closing"
    /\ EndTask(task)
    /\ stage' = "idle"
    /\ parser' = NewParser /\ sent' = 0 /\ at' = 1
    /\ rollback' = FALSE /\ answer' = "none"
    /\ UNCHANGED <<message, vm, worker, database, told, faults>>

\* SIGKILL, a power failure
Crash ==
    /\ stage # "dead"
    /\ stage' = "dead"
    /\ UNCHANGED <<qvars, inputs, at, database, rollback, answer, told, faults>>

Dead == stage = "dead" /\ UNCHANGED <<qvars, rvars>>

\* The acceptor pushes with the mutex; what fails before does not need it.
Accept ==
    /\ stage # "dead"
    /\ \E t \in Tasks : (taken = {} /\ push_back(t)) \/ Turn_away(t)
    /\ UNCHANGED rvars

Stop ==
    /\ stage = "idle"
    /\ Destroy \/ DestroyElement \/ Destroyed \/ Gone
    /\ UNCHANGED rvars

RNext ==
    \/ Accept
    \/ \E w \in Workers : TakeConnection(w)
    \/ Recv \/ feedCharacter \/ RecvEnds
    \/ Begin \/ BeginFails
    \/ Update \/ Refuse \/ StatementFails \/ ApologyFails \/ Return
    \/ End \/ Rollback \/ Terminate
    \/ SendAnswer \/ SendFails \/ CloseConnection
    \/ Crash \/ Dead
    \/ Stop

RSpec == RInit /\ [][RNext]_<<qvars, rvars>>

-----------------------------------------------------------------------------
(* Properties *)

\* What is carried out is the request that was sent: a whole header, matched
\* from its first byte, and exactly as many bytes as its first Content-Length
\* says, however recv() cut it and whatever the worker has read before.
RequestIsReadWhole ==
    stage = "handling" =>
        /\ request.whole /\ parser.header = request.header
        /\ parser.body = IF request.lengths = <<>> THEN 0 ELSE Head(request.lengths)

Atomic == INSTANCE AtomicRequests WITH Requests <- Tasks

\* A request is stored as a whole or not at all, the profile form up to some
\* field; nothing is stored after the answer, and the answer is true: through
\* refusals, failing statements, rollbacks SQLite makes by itself, a server
\* that terminates in the guard's destructor, and crashes.
RequestsAreAtomic == Atomic!Spec
=============================================================================
