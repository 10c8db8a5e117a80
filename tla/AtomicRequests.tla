--------------------------- MODULE AtomicRequests ---------------------------
(***************************************************************************)
(* What the server promises of requests whose changes are kept in a        *)
(* database: all of a request's changes, or none; for the profile form,    *)
(* all up to some field; and an answer only about what is stored.          *)
(***************************************************************************)
EXTENDS Integers, Sequences, Functions

CONSTANTS Requests, Messages, NoMessage

VARIABLES
    message,    \* of every request: what was sent, or NoMessage
    stored,     \* pairs of a request and the number of one of its changes
    told        \* what the client has been told: "nothing", "ok", ...

vars == <<message, stored, told>>

Init ==
    /\ message = [r \in Requests |-> NoMessage]
    /\ stored = {}
    /\ told = [r \in Requests |-> "nothing"]

Changes(r) == DOMAIN message[r].script

Done(r) == {i \in Changes(r) : <<r, i>> \in stored}

Send(r) ==
    /\ message[r] = NoMessage
    /\ \E m \in Messages : message' = [message EXCEPT ![r] = m]
    /\ UNCHANGED <<stored, told>>

Open(r) == message[r] # NoMessage /\ told[r] = "nothing"

Store(r, changes) ==
    /\ \A i \in changes : message[r].script[i] = "update"
    /\ stored' = stored \cup ({r} \X changes)
    /\ UNCHANGED <<message, told>>

CarryOut(r) == Open(r) /\ Done(r) = {} /\ Store(r, Changes(r))

CarryOutPart(r) ==
    /\ Open(r) /\ Done(r) = {}
    /\ message[r].handler = "form"
    /\ \E n \in Changes(r) : Store(r, 1 .. n - 1)

Tell(r) ==
    /\ Open(r)
    /\ \E answer \in {"ok", "error", "sorry"} :
        /\ answer = "ok" => Done(r) = Changes(r)
        /\ answer = "error" => Done(r) = {} /\ message[r].handler = "command"
        /\ answer = "sorry" => Done(r) # Changes(r) /\ message[r].handler = "form"
        /\ told' = [told EXCEPT ![r] = answer]
    /\ UNCHANGED <<message, stored>>

Next == \E r \in Requests : Send(r) \/ CarryOut(r) \/ CarryOutPart(r) \/ Tell(r)

Spec == Init /\ [][Next]_vars
=============================================================================
