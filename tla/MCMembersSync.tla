--------------------------- MODULE MCMembersSync ---------------------------
(* MembersSync on small instances. *)
EXTENDS MembersSync

Symmetry ==
    Permutations(Users \ {Root, Me})
        \cup Permutations(Nicknames \ (Sus \cup {RootNickname}))
=============================================================================
