---------------------------- MODULE MCRoomsSync ----------------------------
(* RoomsSync on small instances. *)
EXTENDS RoomsSync

Symmetry ==
    Permutations(Chats)
        \cup Permutations(Nicknames \ (Sus \cup {RootNickname}))

\* BOUND: histories are followed until a call overtakes another.
CallsInOrder == ~overtaken
=============================================================================
