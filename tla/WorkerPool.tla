----------------------------- MODULE WorkerPool -----------------------------
(***************************************************************************)
(* The engine's threads (running_mainloop.cpp): one acceptor, which is the *)
(* main thread inside electric_boogaloo, and the workers.  They share a    *)
(* bounded queue of accepted connections and the flag `termination`, under *)
(* a mutex with one condition variable, corvee_bed.  A worker serves its   *)
(* connection, from the first recv to the last send, without letting the   *)
(* mutex go.                                                               *)
(*                                                                         *)
(* Every step is what a thread does between two points where another       *)
(* thread can see or change something: taking and releasing the mutex,     *)
(* reading or writing `termination`, which the signal handler, and the     *)
(* acceptor too, write without the mutex, and the condition variable.      *)
(***************************************************************************)
EXTENDS Integers, Sequences, FiniteSets

CONSTANTS
    Workers,            \* the threads of config.server.workers
    Main,               \* the acceptor
    Nobody,             \* holder of a free mutex
    Conns,              \* client connections, each arrives at most once
    StopConns,          \* those that carry the administrator's command 8
    NoConn,
    CriticalLoad2,      \* s_conf.critical_load_2: the queue's capacity
    MaySignal,          \* environment: SIGTERM or SIGINT may come
    MaySetupFail        \* environment: socket, bind or listen may fail

ASSUME PoolAssumption ==
    /\ Workers # {}                 \* ASSERT(params.slave_number > 0)
    /\ Main \notin Workers
    /\ Nobody \notin Workers \cup {Main}
    /\ NoConn \notin Conns
    /\ StopConns \subseteq Conns
    /\ CriticalLoad2 \in Nat
    /\ MaySignal \in BOOLEAN /\ MaySetupFail \in BOOLEAN

VARIABLES
    pc,             \* where each thread is
    lock,           \* holder of the mutex of corvee_bed
    termination,
    queue,          \* WorkersTaskQueue
    task,           \* the connection each thread holds
    arrived,        \* connections the acceptor has taken from the kernel
    served,         \* history: connections done with, in that order
    admitted        \* history: connections put into the queue, in that order

vars == <<pc, lock, termination, queue, task, arrived, served, admitted>>

Threads == Workers \cup {Main}

WorkerPlaces == {"starting", "woke", "looking", "lying_down", "asleep",
                 "roused", "serving", "done_serving", "finished"}

MainPlaces == {"setup", "failed_waking", "checking", "polling",
               "accepted", "pushing", "ringing", "stopping", "waking",
               "joining", "exited"}

Init ==
    /\ pc = [t \in Threads |-> IF t = Main THEN "setup" ELSE "starting"]
    /\ lock = Nobody
    /\ termination = FALSE
    /\ queue = <<>>
    /\ task = [t \in Threads |-> NoConn]
    /\ arrived = {}
    /\ served = <<>>
    /\ admitted = <<>>

Goto(t, place) == pc' = [pc EXCEPT ![t] = place]

Move(t, from, to) == pc[t] = from /\ Goto(t, to)

Acquire(t) == lock = Nobody /\ lock' = t

Release(t) == lock = t /\ lock' = Nobody

-----------------------------------------------------------------------------
(* worker_func *)

\* MutexLockGuard at the top of the loop, or the end of pthread_cond_wait
TakeBed(w) ==
    /\ pc[w] \in {"starting", "roused"}
    /\ Acquire(w)
    /\ Goto(w, "woke")
    /\ UNCHANGED <<termination, queue, task, arrived, served, admitted>>

\* woke: if (wtec.termination) break;
SeeTermination(w) ==
    /\ Move(w, "woke", "finished")
    /\ termination
    /\ Release(w)
    /\ UNCHANGED <<termination, queue, task, arrived, served, admitted>>

SeeNoTermination(w) ==
    /\ Move(w, "woke", "looking")
    /\ ~termination
    /\ UNCHANGED <<lock, termination, queue, task, arrived, served, admitted>>

\* if (wtec.queue.empty()) the worker goes for a sleep ...
FindNothing(w) ==
    /\ Move(w, "looking", "lying_down")
    /\ queue = <<>>
    /\ UNCHANGED <<lock, termination, queue, task, arrived, served, admitted>>

\* Broken: the worker sleeps without letting the mutex go.
FallAsleepLocked(w) ==
    /\ Move(w, "lying_down", "asleep")
    /\ UNCHANGED <<lock, termination, queue, task, arrived, served, admitted>>

\* ... pthread_cond_wait: joins the sleepers and frees the mutex at once ...
FallAsleep(w) ==
    /\ Move(w, "lying_down", "asleep")
    /\ Release(w)
    /\ UNCHANGED <<termination, queue, task, arrived, served, admitted>>

\* ... from which POSIX allows it to return unasked; hence `goto woke`.
SpuriousWakeup(w) ==
    /\ Move(w, "asleep", "roused")
    /\ UNCHANGED <<lock, termination, queue, task, arrived, served, admitted>>

\* pop_first
TakeTask(w) ==
    /\ Move(w, "looking", "serving")
    /\ queue # <<>>
    /\ task' = [task EXCEPT ![w] = Head(queue)]
    /\ queue' = Tail(queue)
    /\ UNCHANGED <<lock, termination, arrived, served, admitted>>

\* process_connection: answered, or given up by an exception the loop catches.
\* The administrator's command 8 sets the flag on the way.
Serve(w) ==
    /\ Move(w, "serving", "done_serving")
    /\ termination' = (termination \/ task[w] \in StopConns)
    /\ served' = Append(served, task[w])
    /\ task' = [task EXCEPT ![w] = NoConn]
    /\ UNCHANGED <<lock, queue, arrived, admitted>>

\* ~MutexLockGuard, and the next round
EndRound(w) ==
    /\ Move(w, "done_serving", "starting")
    /\ Release(w)
    /\ UNCHANGED <<termination, queue, task, arrived, served, admitted>>

Worker(w) ==
    \/ TakeBed(w)
    \/ SeeTermination(w)
    \/ SeeNoTermination(w)
    \/ FindNothing(w)
    \/ FallAsleep(w)
    \/ SpuriousWakeup(w)
    \/ TakeTask(w)
    \/ Serve(w)
    \/ EndRound(w)

-----------------------------------------------------------------------------
(* electric_boogaloo *)

SetupSockets ==
    /\ Move(Main, "setup", "checking")
    /\ UNCHANGED <<lock, termination, queue, task, arrived, served, admitted>>

\* "System failure 2": an exception before or in the loop; the flag is set,
SetupFails ==
    /\ MaySetupFail
    /\ Move(Main, "setup", "failed_waking")
    /\ termination' = TRUE
    /\ UNCHANGED <<lock, queue, task, arrived, served, admitted>>

\* while (true) { if (wtec.termination) break;
CheckTermination ==
    /\ Move(Main, "checking", IF termination THEN "stopping" ELSE "polling")
    /\ UNCHANGED <<lock, termination, queue, task, arrived, served, admitted>>

\* accept() of a connection some ear has ready
AcceptConn(c) ==
    /\ c \notin arrived
    /\ Move(Main, "polling", "accepted")
    /\ arrived' = arrived \cup {c}
    /\ task' = [task EXCEPT ![Main] = c]
    /\ UNCHANGED <<lock, termination, queue, served, admitted>>

\* "Error aceepting connection"
AcceptFails(c) ==
    /\ c \notin arrived
    /\ pc[Main] = "polling"
    /\ arrived' = arrived \cup {c}
    /\ UNCHANGED <<pc, lock, termination, queue, task, served, admitted>>

\* poll() timed out or failed, or every ready ear is served
RoundOver ==
    /\ Move(Main, "polling", "checking")
    /\ UNCHANGED <<lock, termination, queue, task, arrived, served, admitted>>

LockForPush ==
    /\ Move(Main, "accepted", "pushing")
    /\ Acquire(Main)
    /\ UNCHANGED <<termination, queue, task, arrived, served, admitted>>

\* Broken: one task more than the critical load.
PushOneTooMany ==
    /\ Move(Main, "pushing", "ringing")
    /\ Release(Main)
    /\ IF Len(queue) <= CriticalLoad2
       THEN /\ queue' = Append(queue, task[Main])
            /\ admitted' = Append(admitted, task[Main])
       ELSE UNCHANGED <<queue, admitted>>
    /\ task' = [task EXCEPT ![Main] = NoConn]
    /\ UNCHANGED <<termination, arrived, served>>

\* Below critical load the connection is queued; above it the task object
\* goes out of scope and the connection is closed.  The mutex goes either way.
PushTask ==
    /\ Move(Main, "pushing", "ringing")
    /\ Release(Main)
    /\ IF Len(queue) < CriticalLoad2
       THEN /\ queue' = Append(queue, task[Main])
            /\ admitted' = Append(admitted, task[Main])
       ELSE UNCHANGED <<queue, admitted>>
    /\ task' = [task EXCEPT ![Main] = NoConn]
    /\ UNCHANGED <<termination, arrived, served>>

Sleepers == {w \in Workers : pc[w] = "asleep"}

\* Broken: the bell is not rung.
NoDinDon ==
    /\ Move(Main, "ringing", "polling")
    /\ UNCHANGED <<lock, termination, queue, task, arrived, served, admitted>>

\* din_don, after the mutex is released: wakes one sleeper if there is one
DinDon ==
    /\ pc[Main] = "ringing"
    /\ \/ /\ Sleepers = {}
          /\ Goto(Main, "polling")
       \/ \E w \in Sleepers :
            pc' = [pc EXCEPT ![Main] = "polling", ![w] = "roused"]
    /\ UNCHANGED <<lock, termination, queue, task, arrived, served, admitted>>

\* Broken: one sleeper is woken, as for a task.
WakeOne(from, to) ==
    /\ pc[Main] = from
    /\ \/ Sleepers = {} /\ Goto(Main, to)
       \/ \E w \in Sleepers : pc' = [pc EXCEPT ![Main] = to, ![w] = "roused"]
    /\ UNCHANGED <<lock, termination, queue, task, arrived, served, admitted>>

\* wake_them_all, without the mutex
WakeThemAll(from, to) ==
    /\ pc[Main] = from
    /\ pc' = [t \in Threads |-> IF t = Main THEN to
                                ELSE IF t \in Sleepers THEN "roused"
                                ELSE pc[t]]
    /\ UNCHANGED <<lock, termination, queue, task, arrived, served, admitted>>

\* wtec.termination = true;  after the loop, without the mutex
SetTermination ==
    /\ Move(Main, "stopping", "waking")
    /\ termination' = TRUE
    /\ UNCHANGED <<lock, queue, task, arrived, served, admitted>>

JoinAll ==
    /\ Move(Main, "joining", "exited")
    /\ \A w \in Workers : pc[w] = "finished"
    /\ UNCHANGED <<lock, termination, queue, task, arrived, served, admitted>>

Acceptor ==
    \/ SetupSockets
    \/ SetupFails
    \/ CheckTermination
    \/ \E c \in Conns : AcceptConn(c) \/ AcceptFails(c)
    \/ RoundOver
    \/ LockForPush
    \/ PushTask
    \/ DinDon
    \/ WakeThemAll("failed_waking", "stopping")
    \/ SetTermination
    \/ WakeThemAll("waking", "joining")
    \/ JoinAll

-----------------------------------------------------------------------------

\* sigterm_action, on whatever thread, at whatever moment
Signal ==
    /\ MaySignal
    /\ ~termination
    /\ termination' = TRUE
    /\ UNCHANGED <<pc, lock, queue, task, arrived, served, admitted>>

Exited == pc[Main] = "exited" /\ UNCHANGED vars

Next ==
    \/ \E w \in Workers : Worker(w)
    \/ Acceptor
    \/ Signal
    \/ Exited

Spec == Init /\ [][Next]_vars

(* FAIRNESS.  A thread that can go on without the mutex goes on; serving    *)
(* ends, because a recv or send gives up after request_timeout (a client    *)
(* that keeps sending a byte in time is not modelled).  A free mutex that   *)
(* somebody wants goes to somebody: pthread mutexes promise no more, no     *)
(* thread is promised its turn.  Nothing is promised of spurious wakeups,   *)
(* signals, or the arrival of connections.                                  *)
WorkerMoves(w) ==
    \/ SeeTermination(w) \/ SeeNoTermination(w) \/ FindNothing(w)
    \/ FallAsleep(w) \/ TakeTask(w) \/ Serve(w) \/ EndRound(w)

AcceptorMoves ==
    \/ SetupSockets \/ CheckTermination \/ RoundOver \/ PushTask \/ DinDon
    \/ WakeThemAll("failed_waking", "stopping") \/ SetTermination
    \/ WakeThemAll("waking", "joining") \/ JoinAll

SomebodyLocks == LockForPush \/ \E w \in Workers : TakeBed(w)

FairSpec ==
    /\ Spec
    /\ \A w \in Workers : WF_vars(WorkerMoves(w))
    /\ WF_vars(AcceptorMoves)
    /\ WF_vars(SomebodyLocks)

-----------------------------------------------------------------------------
(* Properties *)

TypeOK ==
    /\ pc \in [Threads -> WorkerPlaces \cup MainPlaces]
    /\ pc[Main] \in MainPlaces
    /\ \A w \in Workers : pc[w] \in WorkerPlaces
    /\ lock \in Threads \cup {Nobody}
    /\ termination \in BOOLEAN
    /\ queue \in Seq(Conns)
    /\ task \in [Threads -> Conns \cup {NoConn}]
    /\ arrived \in SUBSET Conns
    /\ served \in Seq(Conns)
    /\ admitted \in Seq(Conns)

HoldsBed(t) == pc[t] \in {"woke", "looking", "lying_down", "serving",
                          "done_serving", "pushing"}

\* The mutex is held by exactly the threads that believe they hold it: the
\* assertions `locked == 1` of sleep() and unlock() cannot fail, no two
\* requests are processed at a time, and the queue is touched by one thread.
BedDiscipline == \A t \in Threads : HoldsBed(t) <=> lock = t

\* the connection being served, if there is one, as a sequence
InService ==
    IF \E w \in Workers : pc[w] = "serving"
    THEN <<task[CHOOSE w \in Workers : pc[w] = "serving"]>>
    ELSE <<>>

\* Requests are done in the order in which their connections were queued,
\* none twice and none lost: what is served, in service and queued is what
\* was admitted, in order.  It is the mutex kept while serving that does it.
ServedInOrder == admitted = served \o InService \o queue

\* A queued connection never waits for a bell that has rung already: some
\* worker is up, or the acceptor is about to ring.
NoTaskSleptOver ==
    queue # <<>> /\ ~termination =>
        \/ pc[Main] = "ringing"
        \/ \E w \in Workers : pc[w] \notin {"asleep", "finished"}

\* Every connection that was queued is served, unless the server stops.
QueuedIsServed ==
    \A c \in Conns :
        (\E i \in 1 .. Len(queue) : queue[i] = c)
            ~> (termination \/ \E i \in 1 .. Len(served) : served[i] = c)

Server == INSTANCE JobServer WITH
    Jobs <- Conns, Capacity <- CriticalLoad2,
    waiting <- queue, running <- InService, done <- served

\* The threads together are one server that takes jobs in order and one at a
\* time: the mutex is held from pop_first to the end of process_connection.
PoolIsOneServer == Server!Spec

\* "To stop the service, throw SIGTERM or SIGINT at it": once the flag is set
\* every worker ends and electric_boogaloo returns.  (It does not always.)
TerminationEndsServer == termination ~> pc[Main] = "exited"

\* Command 8 of the administrator does end the server, also when a signal
\* comes at the same time: it sets the flag under the mutex, so that no worker
\* is between reading the flag and sleeping.
CommandEndsServer ==
    (\E i \in 1 .. Len(served) : served[i] \in StopConns) ~> pc[Main] = "exited"
=============================================================================
