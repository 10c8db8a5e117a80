---------------------------- MODULE StampedStore ----------------------------
(***************************************************************************)
(* What a history id promises, whatever the tables look like: a family of  *)
(* versioned stores.  A commit raises one store's version, and every key   *)
(* it changes gets a stamp above the old version and not above the new     *)
(* one.  Then `stamp > v` selects all that changed since version v, which  *)
(* is what the two polling calls rely on.                                  *)
(***************************************************************************)
EXTENDS Integers

CONSTANTS Stores, Keys, Absent

VARIABLES version,      \* version[s] : the store's current history id
          stamp,        \* stamp[s][k] : version at which k last changed
          value         \* value[s][k]

vars == <<version, stamp, value>>

Init ==
    /\ version = [s \in Stores |-> 0]
    /\ stamp = [s \in Stores |-> [k \in Keys |-> 0]]
    /\ value = [s \in Stores |-> [k \in Keys |-> Absent]]

Kept(s, k) == stamp'[s][k] = stamp[s][k] /\ value'[s][k] = value[s][k]

Untouched(s) ==
    /\ version'[s] = version[s]
    /\ \A k \in Keys : Kept(s, k)

Commit(s) ==
    /\ version'[s] > version[s]
    /\ \A k \in Keys :
        Kept(s, k) \/ stamp'[s][k] \in version[s] + 1 .. version'[s]

Next == \E s \in Stores :
            /\ Commit(s)
            /\ \A t \in Stores \ {s} : Untouched(t)

Spec == Init /\ [][Next]_vars
=============================================================================
