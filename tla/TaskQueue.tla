----------------------------- MODULE TaskQueue -----------------------------
(***************************************************************************)
(* WorkersTaskQueue (running_mainloop.cpp), the linked list behind the     *)
(* sequence that WorkerPool calls `queue`, and the descriptors its tasks   *)
(* own (UniqueFdWrapper).  The list keeps a pointer to the field where the *)
(* next element goes; that field may lie in an element that is deleted.    *)
(* The mutex makes every call one step; the destructor, which runs when    *)
(* all threads have ended, is one step per element.                        *)
(***************************************************************************)
EXTENDS Integers, Sequences, Functions

CONSTANTS
    Cells,          \* addresses `new` may return, again after `delete`
    NULL,
    HEAD,           \* the address of the field `first`
    Tasks,          \* tasks, named by the descriptor each owns
    NoTask,         \* a moved-from task: fd is -1
    CriticalLoad2   \* the acceptor pushes only below it

ASSUME QueueAssumption ==
    /\ NULL \notin Cells /\ HEAD \notin Cells /\ NULL # HEAD
    /\ NoTask \notin Tasks
    /\ CriticalLoad2 \in Nat

VARIABLES
    first, afterLastPtr, sz,
    cell,           \* [task, nxt] of every address, live or not
    live,           \* addresses allocated and not deleted
    fresh,          \* descriptors accept() has not returned yet
    taken,          \* tasks popped and in a worker's hands
    closed,         \* history: how often each descriptor was closed
    cur,            \* the destructor's next element
    phase,          \* "open", "draining" or "gone"
    order           \* history: the live addresses, in order of push_back

vars == <<first, afterLastPtr, sz, cell, live, fresh, taken, closed, cur,
          phase, order>>

Init ==
    /\ first = NULL /\ afterLastPtr = HEAD /\ sz = 0
    /\ cell \in [Cells -> [task : {NoTask}, nxt : {NULL}]]
    /\ live = {}
    /\ fresh = Tasks /\ taken = {}
    /\ closed = [t \in Tasks |-> 0]
    /\ cur = NULL
    /\ phase = "open"
    /\ order = <<>>

-----------------------------------------------------------------------------

\* ~UniqueFdWrapper: a moved-from one closes nothing
Close(count, t) ==
    IF t = NoTask THEN count ELSE [count EXCEPT ![t] = @ + 1]

push_back(t) ==
    /\ phase = "open" /\ t \in fresh
    /\ sz < CriticalLoad2
    /\ \E el \in Cells \ live :
        /\ live' = live \cup {el}
        /\ cell' = [c \in Cells |->
                IF c = el THEN [task |-> t, nxt |-> NULL]
                ELSE IF c = afterLastPtr THEN [cell[c] EXCEPT !.nxt = el]
                ELSE cell[c]]
        /\ first' = IF afterLastPtr = HEAD THEN el ELSE first
        /\ afterLastPtr' = el
        /\ order' = Append(order, el)
    /\ sz' = sz + 1
    /\ fresh' = fresh \ {t}
    /\ UNCHANGED <<taken, closed, cur, phase>>

\* The queue is at critical load, or `new` throws: the task dies with its
\* variable.  "Exception does not leave queue in incorrect state"
Turn_away(t) ==
    /\ phase = "open" /\ t \in fresh
    /\ fresh' = fresh \ {t}
    /\ closed' = Close(closed, t)
    /\ UNCHANGED <<first, afterLastPtr, sz, cell, live, taken, cur, phase, order>>

\* Broken: the task is copied, not moved.
CopyOutAndDelete ==
    /\ taken' = taken \cup {cell[first].task}
    /\ closed' = Close(closed, cell[first].task)
    /\ live' = live \ {first}
    /\ order' = Tail(order)
    /\ UNCHANGED <<cell, fresh, cur, phase>>

\* ret_task = std::move(first->task) leaves the element without a descriptor;
\* then the element is deleted.
MoveOutAndDelete ==
    /\ taken' = taken \cup {cell[first].task}
    /\ cell' = [cell EXCEPT ![first].task = NoTask]
    /\ closed' = Close(closed, cell'[first].task)
    /\ live' = live \ {first}
    /\ order' = Tail(order)
    /\ UNCHANGED <<fresh, cur, phase>>

pop_first_single ==
    /\ phase = "open" /\ sz = 1
    /\ MoveOutAndDelete
    /\ first' = NULL /\ afterLastPtr' = HEAD /\ sz' = 0

\* Broken: the second element does not take the place of the first.
pop_first_several_stuck ==
    /\ phase = "open" /\ sz > 1
    /\ MoveOutAndDelete
    /\ sz' = sz - 1
    /\ UNCHANGED <<first, afterLastPtr>>

pop_first_several ==
    /\ phase = "open" /\ sz > 1
    /\ MoveOutAndDelete
    /\ first' = cell[first].nxt
    /\ sz' = sz - 1
    /\ UNCHANGED afterLastPtr

\* the worker's SlaveTask goes out of scope
EndTask(t) ==
    /\ t \in taken
    /\ taken' = taken \ {t}
    /\ closed' = Close(closed, t)
    /\ UNCHANGED <<first, afterLastPtr, sz, cell, live, fresh, cur, phase, order>>

\* ~WorkersTaskQueue, when every thread has been joined
Destroy ==
    /\ phase = "open" /\ taken = {}
    /\ phase' = "draining"
    /\ cur' = first
    /\ UNCHANGED <<first, afterLastPtr, sz, cell, live, fresh, taken, closed, order>>

DestroyElement ==
    /\ phase = "draining" /\ cur # NULL
    /\ cur' = cell[cur].nxt
    /\ closed' = Close(closed, cell[cur].task)
    /\ cell' = [cell EXCEPT ![cur].task = NoTask]
    /\ live' = live \ {cur}
    /\ order' = Tail(order)
    /\ UNCHANGED <<first, afterLastPtr, sz, fresh, taken, phase>>

Destroyed ==
    /\ phase = "draining" /\ cur = NULL
    /\ phase' = "gone"
    /\ UNCHANGED <<first, afterLastPtr, sz, cell, live, fresh, taken, closed, cur, order>>

Gone == phase = "gone" /\ UNCHANGED vars

Next ==
    \/ \E t \in Tasks : push_back(t) \/ Turn_away(t) \/ EndTask(t)
    \/ pop_first_single
    \/ pop_first_several
    \/ Destroy
    \/ DestroyElement
    \/ Destroyed
    \/ Gone

Spec == Init /\ [][Next]_vars

-----------------------------------------------------------------------------
(* Properties *)

TypeOK ==
    /\ first \in Cells \cup {NULL}
    /\ afterLastPtr \in Cells \cup {HEAD}
    /\ sz \in Nat
    /\ cell \in [Cells -> [task : Tasks \cup {NoTask}, nxt : Cells \cup {NULL}]]
    /\ live \in SUBSET Cells
    /\ fresh \in SUBSET Tasks /\ taken \in SUBSET Tasks
    /\ closed \in [Tasks -> Nat]
    /\ cur \in Cells \cup {NULL}
    /\ phase \in {"open", "draining", "gone"}
    /\ order \in Seq(Cells)

\* where the walk over the list starts
Start == IF phase = "open" THEN first ELSE cur

\* The list is the queue: from its start the nxt pointers run through the
\* elements that were pushed and not popped, in that order, and end in NULL;
\* these are all elements that are allocated, so none leaks; and
\* afterLastPtr points to the last nxt, or to `first` in an empty list, never
\* into an element that pop_first has deleted.
ListIsQueue ==
    LET n == Len(order) IN
    /\ IsInjective(order)
    /\ live = {order[i] : i \in 1 .. n}
    /\ Start = IF n = 0 THEN NULL ELSE order[1]
    /\ \A i \in 1 .. n :
        cell[order[i]].nxt = IF i = n THEN NULL ELSE order[i + 1]
    /\ phase = "open" =>
        /\ sz = n
        /\ afterLastPtr = IF n = 0 THEN HEAD ELSE order[n]

\* the descriptors that elements of the list own
Queued == {cell[c].task : c \in live}

\* Every descriptor is owned by one owner and closed once: never while a task
\* still uses it, never twice (a number the kernel has given out again!), and
\* never forgotten, whichever way its task goes through the queue.
ClosedOnce ==
    \A t \in Tasks :
        /\ closed[t] = IF t \in fresh \cup taken \cup Queued THEN 0 ELSE 1
        /\ t \in fresh => t \notin taken \cup Queued
        /\ t \in taken => t \notin Queued
        /\ \A c, e \in live : cell[c].task = t /\ cell[e].task = t => c = e

Contents == [i \in 1 .. Len(order) |-> cell[order[i]].task]

Fifo == INSTANCE FifoQueue WITH Items <- Tasks, items <- Contents,
                                Capacity <- CriticalLoad2

\* What the workers see is a bounded first-in-first-out queue.
QueueIsFifo == Fifo!Spec
=============================================================================
