---------------------------- MODULE MCChatServer ----------------------------
(* ChatServer on small instances: model values, and what symmetry allows.  *)
EXTENDS ChatHistories, TLC

\* Users other than root, chats, and nicknames not yet given meaning are
\* interchangeable: no operator of ChatDb orders or names them.
Symmetry ==
    Permutations(Users \ {Root}) \cup Permutations(Chats)
        \cup Permutations(Nicknames \ (Sus \cup {RootNickname}))

=============================================================================
