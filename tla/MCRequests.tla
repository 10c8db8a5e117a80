----------------------------- MODULE MCRequests -----------------------------
(* Three connections, a queue of two elements, requests of a few bytes.     *)
EXTENDS Requests, TLC

CONSTANTS a1, a2, f1, f2, f3

\* Addresses and descriptors are only compared for equality.
Symmetry == Permutations({a1, a2}) \cup Permutations({f1, f2, f3})

Sent(header, whole, lengths, body, handler, script) ==
    [header |-> header, whole |-> whole, lengths |-> lengths, body |-> body,
     handler |-> handler, script |-> script]

Page(whole, lengths, body) == Sent(2, whole, lengths, body, "core", <<>>)

\* Every shape of a request, with bytes missing and bytes too many, ...
Shapes ==
    {Page(FALSE, <<>>, 0), Page(TRUE, <<>>, 1), Page(TRUE, <<0>>, 0),
     Page(TRUE, <<2, 1>>, 1), Page(TRUE, <<1, 2>>, 2),
     Page(TRUE, <<Junk>>, 0), Page(TRUE, <<MaxBody + 1>>, 1)}

\* ... and every outcome of a handler, for a request of one byte.
Scripts ==
    {Sent(1, TRUE, <<>>, 0, h, s) :
        h \in {"core", "command"},
        s \in {<<"refuse">>, <<"update", "update">>}}
    \cup {Sent(1, TRUE, <<>>, 0, "locale", <<"refuse">>)}
    \cup {Sent(1, TRUE, <<>>, 0, "form", s) :
        s \in {<<"refuse">>, <<"update", "refuse">>,
               <<"update", "update", "refuse">>, <<"update", "update", "update">>}}

MCMessages == Shapes \cup Scripts
=============================================================================
