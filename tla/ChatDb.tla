------------------------------- MODULE ChatDb -------------------------------
(***************************************************************************)
(* The SQLite database of the web chat and the C++ helpers that read and   *)
(* write it, as operators on a database value `d`.  A helper that writes   *)
(* returns the new value; an API call composes helpers the way its handler *)
(* calls them.  Nothing here is a state machine: ChatServer runs these     *)
(* operators one request at a time, ChatSync puts browsers around them.    *)
(*                                                                         *)
(* A row that is not in a table is a row without a nickname (user, chat)   *)
(* or the row NoMembership; SELECTs treat both alike, because a membership *)
(* that was never inserted answers "deleted" and has no stamp above 0.     *)
(***************************************************************************)
EXTENDS Integers, FiniteSets

CONSTANTS
    Users,          \* user ids
    Root,           \* the user with id 0
    Chats,          \* chat ids
    Nicknames,      \* strings that pass check_nickname
    RootNickname,   \* "root"
    Sus,            \* nicknames reserved when the site is initialized
    Texts,          \* message texts that pass the handler's checks
    NoUser,         \* the id -1, or NULL in senderUserId
    NoNickname,     \* nickname of a row that does not exist
    NoText          \* NULL in message.text

ASSUME ChatDbAssumption ==
    /\ Root \in Users
    /\ NoUser \notin Users
    /\ Sus \subseteq Nicknames
    /\ RootNickname \in Nicknames \ Sus
    /\ NoNickname \notin Nicknames

-----------------------------------------------------------------------------
(* The tables *)

Roles == {"admin", "regular", "read_only", "deleted"}

Verbs == {"summoned", "kicked", "left"}

\* "<subject>,<verb>,<object>", the text of a system message
SvoText == [subject : Users, verb : Verbs, object : Users \cup {NoUser}]

UserRow == [nickname : Nicknames \cup {NoNickname}, chatList_HistoryId : Nat]

ChatRow == [nickname : Nicknames \cup {NoNickname},
            it_HistoryId : Nat, lastMsgId : Nat \cup {-1}]

MembershipRow == [role : Roles, chat_IncHistoryId : Nat,
                  user_chatList_IncHistoryId : Nat]

MessageRow == [chatId : Chats, id : Nat, senderUserId : Users \cup {NoUser},
               exists : BOOLEAN, isSystem : BOOLEAN,
               text : Texts \cup SvoText \cup {NoText},
               chat_IncHistoryId : Nat]

Database == [nickname : SUBSET Nicknames,
             user : [Users -> UserRow],
             chat : [Chats -> ChatRow],
             membership : [Chats -> [Users -> MembershipRow]],
             message : SUBSET MessageRow]

NoMembership == [role |-> "deleted", chat_IncHistoryId |-> 0,
                 user_chatList_IncHistoryId |-> 0]

RegisteredUsers(d) == {u \in Users : d.user[u].nickname # NoNickname}

CreatedChats(d) == {c \in Chats : d.chat[c].nickname # NoNickname}

MessagesOf(d, c) == {m \in d.message : m.chatId = c}

get_role_of_user_in_chat(d, u, c) == d.membership[c][u].role

Members(d, c) == {u \in Users : get_role_of_user_in_chat(d, u, c) # "deleted"}

-----------------------------------------------------------------------------
(* Accounts and nicknames *)

\* The database initialize_website leaves: reserved nicknames and root.
InitialDb ==
    [nickname |-> Sus \cup {RootNickname},
     user |-> [u \in Users |->
        [nickname |-> IF u = Root THEN RootNickname ELSE NoNickname,
         chatList_HistoryId |-> 0]],
     chat |-> [c \in Chats |->
        [nickname |-> NoNickname, it_HistoryId |-> 0, lastMsgId |-> -1]],
     membership |-> [c \in Chats |-> [u \in Users |-> NoMembership]],
     message |-> {}]

is_nickname_taken(d, n) == n \in d.nickname

reserve_nickname(d, n) ==
    [nickname |-> d.nickname \cup {n}, user |-> d.user, chat |-> d.chat,
     membership |-> d.membership, message |-> d.message]

\* add_user: a fresh id, a nickname nobody has, an empty chat list
CanAddUser(d, u, n) ==
    /\ u \notin RegisteredUsers(d)
    /\ ~is_nickname_taken(d, n)

add_user(d, u, n) ==
    LET e == reserve_nickname(d, n)
        row == [nickname |-> n, chatList_HistoryId |-> 0]
    IN  [nickname |-> e.nickname, user |-> [e.user EXCEPT ![u] = row],
         chat |-> e.chat, membership |-> e.membership, message |-> e.message]

-----------------------------------------------------------------------------
(* Membership *)

\* Broken: the two counters mixed up, the chat takes the stamp of the list.
alter_user_chat_role_mixed(d, c, u, role) ==
    LET listStamp == d.user[u].chatList_HistoryId + 1
        row == [role |-> role, chat_IncHistoryId |-> listStamp,
                user_chatList_IncHistoryId |-> listStamp]
    IN  [d EXCEPT !.user[u].chatList_HistoryId = listStamp,
                  !.chat[c].it_HistoryId = listStamp,
                  !.membership[c][u] = row]

\* Broken: the user's list of chats gets no new stamp.
alter_user_chat_role_unlisted(d, c, u, role) ==
    LET chatStamp == d.chat[c].it_HistoryId + 1
    IN  [d EXCEPT !.chat[c].it_HistoryId = chatStamp,
                  !.membership[c][u].role = role,
                  !.membership[c][u].chat_IncHistoryId = chatStamp]

\* One new stamp in the chat's history and one in the user's list of chats;
\* the row is inserted or overwritten with both.
alter_user_chat_role(d, c, u, role) ==
    LET chatStamp == d.chat[c].it_HistoryId + 1
        listStamp == d.user[u].chatList_HistoryId + 1
        row == [role |-> role, chat_IncHistoryId |-> chatStamp,
                user_chatList_IncHistoryId |-> listStamp]
    IN  [nickname |-> d.nickname,
         user |-> [d.user EXCEPT ![u].chatList_HistoryId = listStamp],
         chat |-> [d.chat EXCEPT ![c].it_HistoryId = chatStamp],
         membership |-> [d.membership EXCEPT ![c][u] = row],
         message |-> d.message]

kick_from_chat(d, c, u) == alter_user_chat_role(d, c, u, "deleted")

-----------------------------------------------------------------------------
(* Messages *)

\* Broken: the second UPDATE forgets lastMsgId.
insert_new_message_uncounted(d, uid, c, text, isSystem) ==
    LET stamp == d.chat[c].it_HistoryId + 1
        row == [chatId |-> c, id |-> d.chat[c].lastMsgId + 1,
                senderUserId |-> IF isSystem THEN NoUser ELSE uid,
                exists |-> TRUE, isSystem |-> isSystem, text |-> text,
                chat_IncHistoryId |-> stamp]
    IN  [d EXCEPT !.chat[c].it_HistoryId = stamp, !.message = @ \cup {row}]

insert_new_message(d, uid, c, text, isSystem) ==
    LET stamp == d.chat[c].it_HistoryId + 1
        msgId == d.chat[c].lastMsgId + 1
        row == [chatId |-> c, id |-> msgId,
                senderUserId |-> IF isSystem THEN NoUser ELSE uid,
                exists |-> TRUE, isSystem |-> isSystem, text |-> text,
                chat_IncHistoryId |-> stamp]
    IN  [nickname |-> d.nickname,
         user |-> d.user,
         chat |-> [d.chat EXCEPT ![c].lastMsgId = msgId,
                                 ![c].it_HistoryId = stamp],
         membership |-> d.membership,
         message |-> d.message \cup {row}]

insert_system_message_svo(d, c, subject, verb, object) ==
    insert_new_message(d, NoUser, c,
        [subject |-> subject, verb |-> verb, object |-> object], TRUE)

\* Broken: an erased message keeps its old stamp.
erase_message_unstamped(d, c, msgId) ==
    [d EXCEPT !.chat[c].it_HistoryId = @ + 1,
              !.message = {IF m.id = msgId
                           THEN [m EXCEPT !.exists = FALSE, !.text = NoText]
                           ELSE m : m \in @}]

\* UPDATE `message` SET ... WHERE `id` = ?2: the statement does not name the
\* chat, so it erases the message of that id in every chat, and stamps all of
\* them from the history of the chat the request named.
erase_message(d, c, msgId) ==
    LET stamp == d.chat[c].it_HistoryId + 1
    IN  [nickname |-> d.nickname,
         user |-> d.user,
         chat |-> [d.chat EXCEPT ![c].it_HistoryId = stamp],
         membership |-> d.membership,
         message |-> {IF m.id = msgId
                      THEN [m EXCEPT !.exists = FALSE, !.text = NoText,
                                     !.chat_IncHistoryId = stamp]
                      ELSE m : m \in d.message}]

-----------------------------------------------------------------------------
(* The API calls: when the handler goes through, and what it commits.      *)
(* A handler that throws or answers an error status leaves the database as *)
(* it was (the transaction is rolled back, or nothing was written yet).    *)

CanCreateChat(d, uid, c, n) ==
    /\ uid \in RegisteredUsers(d)
    /\ c \notin CreatedChats(d)
    /\ ~is_nickname_taken(d, n)

\* Broken: the chat's nickname is not reserved.
insert_chat_unreserved(d, c, n) ==
    [d EXCEPT !.chat[c] = [nickname |-> n, it_HistoryId |-> 0, lastMsgId |-> -1]]

insert_chat(d, c, n) ==
    LET e == reserve_nickname(d, n)
        row == [nickname |-> n, it_HistoryId |-> 0, lastMsgId |-> -1]
    IN  [nickname |-> e.nickname, user |-> e.user,
         chat |-> [e.chat EXCEPT ![c] = row],
         membership |-> e.membership, message |-> e.message]

internalapi_createChat(d, uid, c, n) ==
    alter_user_chat_role(insert_chat(d, c, n), c, uid, "admin")

\* Broken: anybody may summon.
CanAddMember_anybody(d, uid, c, alien) ==
    /\ c \in CreatedChats(d) /\ uid \in RegisteredUsers(d)
    /\ alien \in RegisteredUsers(d)
    /\ get_role_of_user_in_chat(d, alien, c) = "deleted"

\* Broken: the summoned user is not looked up.
CanAddMember_unknown(d, uid, c, alien) ==
    /\ get_role_of_user_in_chat(d, uid, c) = "admin"
    /\ get_role_of_user_in_chat(d, alien, c) = "deleted"

CanAddMember(d, uid, c, alien) ==
    /\ get_role_of_user_in_chat(d, uid, c) = "admin"
    /\ alien \in RegisteredUsers(d)
    /\ get_role_of_user_in_chat(d, alien, c) = "deleted"

internalapi_addMemberToChat(d, uid, c, alien, makeReadOnly) ==
    insert_system_message_svo(
        alter_user_chat_role(d, c, alien,
            IF makeReadOnly THEN "read_only" ELSE "regular"),
        c, uid, "summoned", alien)

\* The victim need not be a member, and may be the admin itself.
CanRemoveMember(d, uid, c, badAlien) ==
    /\ get_role_of_user_in_chat(d, uid, c) = "admin"
    /\ badAlien \in RegisteredUsers(d)

internalapi_removeMemberFromChat(d, uid, c, badAlien) ==
    insert_system_message_svo(
        kick_from_chat(d, c, badAlien), c, uid, "kicked", badAlien)

CanLeave(d, uid, c) == get_role_of_user_in_chat(d, uid, c) # "deleted"

\* Broken: nobody is told that the user left.
internalapi_leaveChat_silently(d, uid, c) == kick_from_chat(d, c, uid)

internalapi_leaveChat(d, uid, c) ==
    insert_system_message_svo(kick_from_chat(d, c, uid), c, uid, "left", NoUser)

\* Broken: only the role read-only is refused, so that strangers may write.
CanSendMessage_stranger(d, uid, c) ==
    /\ uid \in RegisteredUsers(d) /\ c \in CreatedChats(d)
    /\ get_role_of_user_in_chat(d, uid, c) # "read_only"

CanSendMessage(d, uid, c) ==
    get_role_of_user_in_chat(d, uid, c) \notin {"deleted", "read_only"}

internalapi_sendMessage(d, uid, c, text) ==
    insert_new_message(d, uid, c, text, FALSE)

CanDeleteMessage(d, uid, c, msgId) ==
    /\ get_role_of_user_in_chat(d, uid, c) \notin {"deleted", "read_only"}
    /\ \E m \in MessagesOf(d, c) :
        /\ m.id = msgId
        /\ ~m.isSystem
        /\ \/ m.senderUserId = uid
           \/ get_role_of_user_in_chat(d, uid, c) = "admin"

internalapi_deleteMessage(d, uid, c, msgId) == erase_message(d, c, msgId)

=============================================================================
