----------------------------- MODULE RemoteCall -----------------------------
(***************************************************************************)
(* What one run of the command line tool promises: the command is carried  *)
(* out at most once, as it was given; an answer that is shown is the       *)
(* answer to it; without an answer nobody knows whether it was carried     *)
(* out, and it may still be.                                               *)
(***************************************************************************)
EXTENDS Sequences

CONSTANTS Commands, Reply(_), NoResult, Failure

VARIABLES command, executed, result

Init ==
    /\ command \in Commands
    /\ executed = <<>>
    /\ result = NoResult

Execute ==
    /\ executed = <<>>
    /\ executed' = <<command>>
    /\ UNCHANGED <<command, result>>

Return ==
    /\ executed = <<command>> /\ result = NoResult
    /\ result' = Reply(command)
    /\ UNCHANGED <<command, executed>>

Fail ==
    /\ result = NoResult
    /\ result' = Failure
    /\ UNCHANGED <<command, executed>>

Next == Execute \/ Return \/ Fail

vars == <<command, executed, result>>

Spec == Init /\ [][Next]_vars
=============================================================================
