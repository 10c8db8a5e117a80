--------------------------- MODULE ChatHistories ---------------------------
(***************************************************************************)
(* The two histories of the database as stamped stores.  Every user's list *)
(* of chats is a store (key: chat, value: the user's role there), and so   *)
(* is every chat (keys: its members and its message ids).  The polls of    *)
(* polling.cpp read these stores by `stamp > LocalHistoryId`.              *)
(***************************************************************************)
EXTENDS ChatServer

Absent == "absent"

RoleValue(u, c) ==
    LET role == get_role_of_user_in_chat(db, u, c)
    IN  IF role = "deleted" THEN Absent ELSE role

MessageIds == 0 .. MaxHistory

HasMessage(c, i) == \E m \in MessagesOf(db, c) : m.id = i

MessageAt(c, i) == CHOOSE m \in MessagesOf(db, c) : m.id = i

\* what a client is shown of a message; the stamp is not part of it
MessageValue(c, i) ==
    IF HasMessage(c, i)
    THEN [sender |-> MessageAt(c, i).senderUserId,
          exists |-> MessageAt(c, i).exists,
          text |-> MessageAt(c, i).text]
    ELSE Absent

ChatLists == INSTANCE StampedStore WITH
    Stores <- Users, Keys <- Chats,
    version <- [u \in Users |-> db.user[u].chatList_HistoryId],
    stamp <- [u \in Users |-> [c \in Chats |->
                db.membership[c][u].user_chatList_IncHistoryId]],
    value <- [u \in Users |-> [c \in Chats |-> RoleValue(u, c)]]

ChatLogs == INSTANCE StampedStore WITH
    Stores <- Chats, Keys <- Users \cup MessageIds,
    version <- [c \in Chats |-> db.chat[c].it_HistoryId],
    stamp <- [c \in Chats |-> [k \in Users \cup MessageIds |->
                IF k \in Users THEN db.membership[c][k].chat_IncHistoryId
                ELSE IF HasMessage(c, k) THEN MessageAt(c, k).chat_IncHistoryId
                ELSE 0]],
    value <- [c \in Chats |-> [k \in Users \cup MessageIds |->
                IF k \in Users THEN RoleValue(k, c) ELSE MessageValue(c, k)]]

\* Each user's list of chats is a stamped store: a poll of the list with any
\* id the server once answered returns everything that changed since.
ChatListsAreStamped == ChatLists!Spec

\* So is each chat, its members and messages together (in a site with one
\* chat: with two, deleteMessage writes into the wrong chat's history).
ChatLogsAreStamped == ChatLogs!Spec
=============================================================================
