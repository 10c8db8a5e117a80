----------------------------- MODULE JobServer ------------------------------
(***************************************************************************)
(* What the engine promises the chat: one bounded queue of jobs and one    *)
(* server.  Jobs are admitted at the tail, or turned away when the queue   *)
(* is full, and run one at a time from the head; a job that runs is never  *)
(* interrupted by another.  This is why a handler of the back end may be   *)
(* modelled as one step.                                                   *)
(***************************************************************************)
EXTENDS Integers, Sequences

CONSTANTS Jobs, Capacity

VARIABLES waiting, running, done

vars == <<waiting, running, done>>

Init == waiting = <<>> /\ running = <<>> /\ done = <<>>

Admit(j) ==
    /\ Len(waiting) < Capacity
    /\ waiting' = Append(waiting, j)
    /\ UNCHANGED <<running, done>>

Start ==
    /\ running = <<>> /\ waiting # <<>>
    /\ running' = <<Head(waiting)>>
    /\ waiting' = Tail(waiting)
    /\ UNCHANGED done

Finish ==
    /\ running # <<>>
    /\ done' = Append(done, Head(running))
    /\ running' = <<>>
    /\ UNCHANGED waiting

Next == Start \/ Finish \/ \E j \in Jobs : Admit(j)

Spec == Init /\ [][Next]_vars
=============================================================================
