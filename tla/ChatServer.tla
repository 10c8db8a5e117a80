----------------------------- MODULE ChatServer -----------------------------
(***************************************************************************)
(* The back end: every API call and every administrator command that       *)
(* changes the chat tables, one transaction per request.  The workers hold *)
(* one mutex for the whole of a request (WorkerPool shows it), so a step   *)
(* is a whole request.                                                     *)
(***************************************************************************)
EXTENDS ChatDb

CONSTANT MaxHistory     \* bound: no history counter goes above it

VARIABLE db

Init == db = InitialDb

\* BOUND.  A request that would push a history counter past MaxHistory is
\* not made; int64 counters do not get there in the life of a server.
WithinBound(d) ==
    /\ \A c \in Chats : d.chat[c].it_HistoryId <= MaxHistory
    /\ \A u \in Users : d.user[u].chatList_HistoryId <= MaxHistory

\* END of the transaction of a request that did not throw
Commit(d) ==
    /\ WithinBound(d)
    /\ db' = d

-----------------------------------------------------------------------------

AddUser(u, n) ==
    /\ CanAddUser(db, u, n)
    /\ Commit(add_user(db, u, n))

CreateChat(uid, c, n) ==
    /\ CanCreateChat(db, uid, c, n)
    /\ Commit(internalapi_createChat(db, uid, c, n))

AddMemberToChat(uid, c, alien, makeReadOnly) ==
    /\ CanAddMember(db, uid, c, alien)
    /\ Commit(internalapi_addMemberToChat(db, uid, c, alien, makeReadOnly))

RemoveMemberFromChat(uid, c, badAlien) ==
    /\ CanRemoveMember(db, uid, c, badAlien)
    /\ Commit(internalapi_removeMemberFromChat(db, uid, c, badAlien))

LeaveChat(uid, c) ==
    /\ CanLeave(db, uid, c)
    /\ Commit(internalapi_leaveChat(db, uid, c))

SendMessage(uid, c, text) ==
    /\ CanSendMessage(db, uid, c)
    /\ Commit(internalapi_sendMessage(db, uid, c, text))

DeleteMessage(uid, c, msgId) ==
    /\ CanDeleteMessage(db, uid, c, msgId)
    /\ Commit(internalapi_deleteMessage(db, uid, c, msgId))

\* A poll, a page, or any request whose handler throws or reports an error:
\* the transaction ends, or is rolled back, without a change.
ReadOnlyOrRejectedRequest == UNCHANGED db

Next ==
    \/ \E u \in Users, n \in Nicknames : AddUser(u, n)
    \/ \E uid \in Users, c \in Chats :
        \/ \E n \in Nicknames : CreateChat(uid, c, n)
        \/ \E alien \in Users, makeReadOnly \in BOOLEAN :
                AddMemberToChat(uid, c, alien, makeReadOnly)
        \/ \E badAlien \in Users : RemoveMemberFromChat(uid, c, badAlien)
        \/ LeaveChat(uid, c)
        \/ \E text \in Texts : SendMessage(uid, c, text)
        \/ \E msgId \in 0 .. MaxHistory : DeleteMessage(uid, c, msgId)
    \/ ReadOnlyOrRejectedRequest

Spec == Init /\ [][Next]_db

-----------------------------------------------------------------------------
(* Properties *)

\* Every table holds rows of its schema.
TypeOK == db \in Database

RegistryExact(d) ==
    LET named == RegisteredUsers(d)
        nickOf(u) == d.user[u].nickname
    IN  /\ \A n \in Nicknames :
            n \in d.nickname <=>
                \/ n \in Sus
                \/ \E u \in Users : nickOf(u) = n
                \/ \E c \in Chats : d.chat[c].nickname = n
        /\ \A u \in named :
            /\ nickOf(u) \notin Sus
            /\ \A v \in named : nickOf(u) = nickOf(v) => u = v
            /\ \A c \in Chats : d.chat[c].nickname # nickOf(u)
        /\ \A c \in CreatedChats(d) :
            /\ d.chat[c].nickname \notin Sus
            /\ \A e \in Chats : d.chat[c].nickname = d.chat[e].nickname => c = e

\* The nickname table is the single registry of names: it holds the reserved
\* words and exactly the nicknames in use, and no two users or chats share
\* one (is_nickname_taken and reserve_nickname in two handlers and add_user).
NicknameRegistryExact == RegistryExact(db)

IdsContiguous(d) ==
    \A c \in Chats :
        /\ {m.id : m \in MessagesOf(d, c)} = 0 .. d.chat[c].lastMsgId
        /\ \A m, n \in MessagesOf(d, c) : m.id = n.id => m = n

\* The ids of a chat's messages are 0 .. lastMsgId, each used once: the page
\* asks for neighbours by id, and an INSERT never meets its primary key.
MessageIdsContiguous == IdsContiguous(db)

StampsSound(d) ==
    \A c \in Chats, u \in Users :
        LET row == d.membership[c][u] IN
        /\ row.chat_IncHistoryId <= d.chat[c].it_HistoryId
        /\ row.user_chatList_IncHistoryId <= d.user[u].chatList_HistoryId
        /\ row.chat_IncHistoryId = 0 => row.role = "deleted"
        /\ row.chat_IncHistoryId > 0 =>
            /\ \A v \in Users \ {u} :
                d.membership[c][v].chat_IncHistoryId # row.chat_IncHistoryId
            /\ \A e \in Chats \ {c} :
                d.membership[e][u].user_chatList_IncHistoryId
                    # row.user_chatList_IncHistoryId

\* No membership carries a stamp from the future of its chat or of its
\* user's list, one without a stamp is no membership, and within one chat
\* (one list) two rows changed by different requests have different stamps:
\* what a poll selects with `stamp > local` is then exactly what changed
\* since the poller's last answer, all of it when local is 0.
MembershipStampsSound == StampsSound(db)

ReferencesHold(d) ==
    /\ \A c \in Chats, u \in Users : d.membership[c][u] # NoMembership =>
            u \in RegisteredUsers(d) /\ c \in CreatedChats(d)
    /\ \A m \in d.message :
        /\ m.chatId \in CreatedChats(d)
        /\ IF m.isSystem THEN m.senderUserId = NoUser
           ELSE /\ m.senderUserId \in RegisteredUsers(d)
                /\ d.membership[m.chatId][m.senderUserId].chat_IncHistoryId > 0

\* The REFERENCES clauses of the schema hold, and the sender of a message,
\* gone or not, has a membership row in its chat: a page that was sent all
\* members can name the author of every message ("First - update members").
ForeignKeysHold == ReferencesHold(db)

Admins(d, c) == {u \in Users : get_role_of_user_in_chat(d, u, c) = "admin"}

AdminStep(c) ==
    /\ \A u, v \in Admins(db, c) : u = v
    /\ Admins(db', c) \subseteq Admins(db, c)
    /\ Admins(db, c) = {} => Members(db', c) \subseteq Members(db, c)

\* A chat has at most the admin who created it, forever: nobody becomes admin
\* of a chat that exists, and a chat whose admin left or kicked itself can
\* only lose members from then on.
AdminIsNeverReplaced == [][\A c \in CreatedChats(db) : AdminStep(c)]_db

-----------------------------------------------------------------------------
(* The system messages of a chat are its audit trail. *)

SystemMessages(c) == {m \in MessagesOf(db, c) : m.isSystem}

\* the user whose membership a system message reports
Concerns(m) == IF m.text.verb = "left" THEN m.text.subject ELSE m.text.object

\* the newest verb reported about u before message id `upTo`, or "none"
LastVerb(c, u, upTo) ==
    LET about == {m \in SystemMessages(c) : Concerns(m) = u /\ m.id < upTo}
    IN  IF about = {} THEN "none"
        ELSE (CHOOSE m \in about : \A n \in about : n.id <= m.id).text.verb

\* The trail tells the truth about the present: a user last summoned is in
\* the chat without being its admin, one last kicked or gone is out, and one
\* the trail never names is the creator or a stranger.
TrailMatchesMembership ==
    \A c \in CreatedChats(db), u \in Users :
        LET role == get_role_of_user_in_chat(db, u, c)
            verb == LastVerb(c, u, db.chat[c].lastMsgId + 1)
        IN  CASE verb = "none"     -> role \in {"admin", "deleted"}
              [] verb = "summoned" -> role \in {"regular", "read_only"}
              [] OTHER             -> role = "deleted"

\* who wrote a message or caused a system message
Actor(m) == IF m.isSystem THEN m.text.subject ELSE m.senderUserId

\* the messages by users the trail did not name before
Unannounced(c) == {m \in MessagesOf(db, c) : LastVerb(c, Actor(m), m.id) = "none"}

\* The trail tells the truth about the past.  Nobody acts whom it last showed
\* kicked or gone; who kicks or summons was never named before; and all that
\* was ever done by users it did not name before was done by one of them, the
\* creator, who is the admin as long as the chat has one.  So whoever wrote a
\* message or left was in the chat at that point: the creator, or somebody
\* summoned and not put out since.  (It does not show who was read-only.)
TrailJustifiesMessages ==
    \A c \in CreatedChats(db) :
        /\ \A m \in MessagesOf(db, c) :
            LastVerb(c, Actor(m), m.id) \in
                IF m.isSystem /\ m.text.verb # "left"
                THEN {"none"} ELSE {"none", "summoned"}
        /\ \A m \in Unannounced(c) :
            /\ \A n \in Unannounced(c) : Actor(m) = Actor(n)
            /\ \A u \in Admins(db, c) : Actor(m) = u

\* api_deletemessage.cpp refuses to delete a system message ("Can't delete:
\* permission denied"); so no system message is ever erased.
SystemMessagesSurvive == \A m \in db.message : m.isSystem => m.exists

=============================================================================
