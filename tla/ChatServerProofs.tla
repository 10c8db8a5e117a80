-------------------------- MODULE ChatServerProofs --------------------------
(***************************************************************************)
(* Safety of the back end for any users, chats, nicknames and texts.       *)
(* First what each helper of ChatDb changes, as facts about the fields of  *)
(* the database it returns; then, helper by helper, that it preserves the  *)
(* inductive invariant; then each API call, as the helpers it composes.    *)
(* After that what one request can do to the histories, and with it that   *)
(* chats and lists of chats are stamped stores; the trail of a chat; and   *)
(* lemmas about calls in flight for the pages.                             *)
(***************************************************************************)
EXTENDS ChatHistories, SequencesExt, SequenceTheorems, WellFoundedInduction, TLAPS

\* No chat has two admins.
OneAdmin(d) ==
    \A c \in Chats, u, v \in Users :
        /\ d.membership[c][u].role = "admin"
        /\ d.membership[c][v].role = "admin"
        => u = v

\* Who is not registered has an empty list, and a chat nobody has created has
\* no history.
Unborn(d) ==
    /\ \A u \in Users : d.user[u].nickname = NoNickname
            => d.user[u].chatList_HistoryId = 0
    /\ \A c \in Chats : d.chat[c].nickname = NoNickname
            => d.chat[c].it_HistoryId = 0 /\ d.chat[c].lastMsgId = -1

\* the inductive invariant, of a database value
DbInv(d) ==
    /\ d \in Database
    /\ RegistryExact(d)
    /\ IdsContiguous(d)
    /\ StampsSound(d)
    /\ ReferencesHold(d)
    /\ OneAdmin(d)
    /\ Unborn(d)

Inv == DbInv(db)

-----------------------------------------------------------------------------
(* What the helpers change *)

\* two databases with the same names in the same places
SameNames(d, e) ==
    /\ e.nickname = d.nickname
    /\ \A u \in Users : e.user[u].nickname = d.user[u].nickname
    /\ \A c \in Chats : e.chat[c].nickname = d.chat[c].nickname

\* alter_user_chat_role moves one membership row and two counters.
LEMMA AlterFacts ==
    ASSUME NEW d \in Database, NEW c \in Chats, NEW u \in Users,
           NEW role \in Roles
    PROVE  LET e == alter_user_chat_role(d, c, u, role) IN
           /\ e \in Database
           /\ SameNames(d, e)
           /\ e.message = d.message
           /\ \A k \in Chats : e.chat[k].lastMsgId = d.chat[k].lastMsgId
           /\ e.chat[c].it_HistoryId = d.chat[c].it_HistoryId + 1
           /\ \A k \in Chats \ {c} : e.chat[k] = d.chat[k]
           /\ e.user[u].chatList_HistoryId = d.user[u].chatList_HistoryId + 1
           /\ \A v \in Users \ {u} : e.user[v] = d.user[v]
           /\ e.membership[c][u].role = role
           /\ e.membership[c][u].chat_IncHistoryId = d.chat[c].it_HistoryId + 1
           /\ e.membership[c][u].user_chatList_IncHistoryId
                = d.user[u].chatList_HistoryId + 1
           /\ \A k \in Chats, v \in Users :
                k # c \/ v # u => e.membership[k][v] = d.membership[k][v]
<1> DEFINE e == alter_user_chat_role(d, c, u, role)
           chatStamp == d.chat[c].it_HistoryId + 1
           listStamp == d.user[u].chatList_HistoryId + 1
           row == [role |-> role, chat_IncHistoryId |-> chatStamp,
                   user_chatList_IncHistoryId |-> listStamp]
<1>1. /\ e.nickname = d.nickname
      /\ e.user = [d.user EXCEPT ![u].chatList_HistoryId = listStamp]
      /\ e.chat = [d.chat EXCEPT ![c].it_HistoryId = chatStamp]
      /\ e.membership = [d.membership EXCEPT ![c][u] = row]
      /\ e.message = d.message
    BY DEF alter_user_chat_role
<1>2. /\ d.user \in [Users -> UserRow] /\ d.chat \in [Chats -> ChatRow]
      /\ d.membership \in [Chats -> [Users -> MembershipRow]]
    BY DEF Database
<1>3. chatStamp \in Nat /\ listStamp \in Nat
    BY <1>2 DEF UserRow, ChatRow
<1>12. /\ row \in MembershipRow
      /\ row.role = role /\ row.chat_IncHistoryId = chatStamp
      /\ row.user_chatList_IncHistoryId = listStamp
    BY <1>3 DEF MembershipRow
<1> HIDE DEF e, chatStamp, listStamp, row
<1>4. e.user \in [Users -> UserRow]
  <2>1. d.user[u] \in UserRow
    BY <1>2
  <2>2. [d.user[u] EXCEPT !.chatList_HistoryId = listStamp] \in UserRow
    BY <1>3, <2>1 DEF UserRow
  <2> QED
    BY <1>1, <1>2, <2>2
<1>5. e.chat \in [Chats -> ChatRow]
  <2>1. d.chat[c] \in ChatRow
    BY <1>2
  <2>2. [d.chat[c] EXCEPT !.it_HistoryId = chatStamp] \in ChatRow
    BY <1>3, <2>1 DEF ChatRow
  <2> QED
    BY <1>1, <1>2, <2>2
<1>6. e.membership \in [Chats -> [Users -> MembershipRow]]
    BY <1>1, <1>2, <1>12
<1>7. e \in Database
    BY <1>4, <1>5, <1>6 DEF e, alter_user_chat_role, Database
<1>8. SameNames(d, e)
    BY <1>1, <1>2 DEF SameNames, UserRow, ChatRow
<1>9. /\ \A k \in Chats : e.chat[k].lastMsgId = d.chat[k].lastMsgId
      /\ e.chat[c].it_HistoryId = chatStamp
      /\ \A k \in Chats \ {c} : e.chat[k] = d.chat[k]
    BY <1>1, <1>2 DEF ChatRow
<1>10. /\ e.user[u].chatList_HistoryId = listStamp
       /\ \A v \in Users \ {u} : e.user[v] = d.user[v]
    BY <1>1, <1>2 DEF UserRow
<1>11. /\ e.membership[c][u] = row
       /\ \A k \in Chats, v \in Users :
            k # c \/ v # u => e.membership[k][v] = d.membership[k][v]
    BY <1>1, <1>2
<1> QED
    BY <1>1, <1>12, <1>7, <1>8, <1>9, <1>10, <1>11
       DEF e, chatStamp, listStamp

\* insert_new_message adds one row, under the next id and the next stamp.
LEMMA InsertFacts ==
    ASSUME NEW d \in Database, NEW c \in Chats, NEW uid \in Users \cup {NoUser},
           NEW text \in Texts \cup SvoText, NEW isSystem \in BOOLEAN
    PROVE  LET e == insert_new_message(d, uid, c, text, isSystem) IN
           /\ e \in Database
           /\ SameNames(d, e)
           /\ e.user = d.user
           /\ e.membership = d.membership
           /\ \E row \in MessageRow :
                /\ e.message = d.message \cup {row}
                /\ row.chatId = c
                /\ row.id = d.chat[c].lastMsgId + 1
                /\ row.isSystem = isSystem
                /\ row.senderUserId = IF isSystem THEN NoUser ELSE uid
           /\ e.chat[c].lastMsgId = d.chat[c].lastMsgId + 1
           /\ e.chat[c].it_HistoryId = d.chat[c].it_HistoryId + 1
           /\ \A k \in Chats \ {c} : e.chat[k] = d.chat[k]
<1> DEFINE e == insert_new_message(d, uid, c, text, isSystem)
           row == [chatId |-> c, id |-> d.chat[c].lastMsgId + 1,
                   senderUserId |-> IF isSystem THEN NoUser ELSE uid,
                   exists |-> TRUE, isSystem |-> isSystem, text |-> text,
                   chat_IncHistoryId |-> d.chat[c].it_HistoryId + 1]
           chat == [d.chat EXCEPT ![c].lastMsgId = d.chat[c].lastMsgId + 1,
                                  ![c].it_HistoryId = d.chat[c].it_HistoryId + 1]
<1>1. d.chat \in [Chats -> ChatRow] /\ d.chat[c] \in ChatRow
    BY DEF Database
<1>2. row \in MessageRow
  <2>1. row.id \in Nat /\ row.chat_IncHistoryId \in Nat
    BY <1>1 DEF ChatRow
  <2>2. row.senderUserId \in Users \cup {NoUser}
    OBVIOUS
  <2> QED
    BY <2>1, <2>2 DEF MessageRow
<1>3. chat \in [Chats -> ChatRow]
    BY <1>1 DEF ChatRow
<1>4. e \in Database
    BY <1>2, <1>3 DEF insert_new_message, Database
<1>5. /\ e.nickname = d.nickname /\ e.user = d.user /\ e.chat = chat
      /\ e.membership = d.membership /\ e.message = d.message \cup {row}
    BY DEF insert_new_message
<1>6. /\ chat[c].lastMsgId = d.chat[c].lastMsgId + 1
      /\ chat[c].it_HistoryId = d.chat[c].it_HistoryId + 1
      /\ \A k \in Chats \ {c} : chat[k] = d.chat[k]
      /\ \A k \in Chats : chat[k].nickname = d.chat[k].nickname
    BY <1>1 DEF ChatRow
<1>7. SameNames(d, e)
    BY <1>5, <1>6 DEF SameNames
<1>8. /\ row.chatId = c /\ row.id = d.chat[c].lastMsgId + 1
      /\ row.isSystem = isSystem
      /\ row.senderUserId = IF isSystem THEN NoUser ELSE uid
    OBVIOUS
<1>9. \E r \in MessageRow :
        /\ e.message = d.message \cup {r}
        /\ r.chatId = c
        /\ r.id = d.chat[c].lastMsgId + 1
        /\ r.isSystem = isSystem
        /\ r.senderUserId = IF isSystem THEN NoUser ELSE uid
    BY <1>2, <1>5, <1>8
<1> HIDE DEF e, row, chat
<1> QED
    BY <1>4, <1>5, <1>6, <1>7, <1>9 DEF e

\* erase_message changes no id, sender or kind of any message, keeps every
\* row, and adds none.
LEMMA EraseFacts ==
    ASSUME NEW d \in Database, NEW c \in Chats, NEW msgId
    PROVE  LET e == erase_message(d, c, msgId) IN
           /\ e \in Database
           /\ SameNames(d, e)
           /\ e.user = d.user
           /\ e.membership = d.membership
           /\ \E f \in [d.message -> MessageRow] :
                /\ e.message = {f[m] : m \in d.message}
                /\ \A m \in d.message :
                    /\ f[m].chatId = m.chatId /\ f[m].id = m.id
                    /\ f[m].isSystem = m.isSystem
                    /\ f[m].senderUserId = m.senderUserId
           /\ \A k \in Chats : e.chat[k].lastMsgId = d.chat[k].lastMsgId
           /\ e.chat[c].it_HistoryId = d.chat[c].it_HistoryId + 1
           /\ \A k \in Chats \ {c} : e.chat[k] = d.chat[k]
<1> DEFINE e == erase_message(d, c, msgId)
           stamp == d.chat[c].it_HistoryId + 1
           er(m) == [m EXCEPT !.exists = FALSE, !.text = NoText,
                              !.chat_IncHistoryId = stamp]
           new(m) == IF m.id = msgId THEN er(m) ELSE m
           f == [m \in d.message |-> new(m)]
<1>1. /\ e.nickname = d.nickname /\ e.user = d.user
      /\ e.chat = [d.chat EXCEPT ![c].it_HistoryId = stamp]
      /\ e.membership = d.membership
      /\ e.message = {new(m) : m \in d.message}
    BY DEF erase_message
<1>2. d.chat \in [Chats -> ChatRow] /\ d.chat[c] \in ChatRow /\ stamp \in Nat
    BY DEF Database, ChatRow
<1>3. ASSUME NEW m \in d.message
      PROVE  /\ new(m) \in MessageRow
             /\ new(m).chatId = m.chatId /\ new(m).id = m.id
             /\ new(m).isSystem = m.isSystem
             /\ new(m).senderUserId = m.senderUserId
  <2>1. m \in MessageRow
    BY DEF Database
  <2>2. /\ er(m) \in MessageRow
        /\ er(m).chatId = m.chatId /\ er(m).id = m.id
        /\ er(m).isSystem = m.isSystem /\ er(m).senderUserId = m.senderUserId
    BY <1>2, <2>1 DEF MessageRow
  <2> QED
    BY <2>1, <2>2
<1> HIDE DEF stamp, new
<1>4. [d.chat[c] EXCEPT !.it_HistoryId = stamp] \in ChatRow
    BY <1>2 DEF ChatRow
<1>5. /\ e.chat \in [Chats -> ChatRow]
      /\ \A k \in Chats : /\ e.chat[k].lastMsgId = d.chat[k].lastMsgId
                          /\ e.chat[k].nickname = d.chat[k].nickname
      /\ e.chat[c].it_HistoryId = stamp
      /\ \A k \in Chats \ {c} : e.chat[k] = d.chat[k]
    BY <1>1, <1>2, <1>4 DEF ChatRow
<1>6. e \in Database
  <2>1. e.message \subseteq MessageRow
    BY <1>1, <1>3
  <2> QED
    BY <2>1, <1>1, <1>5 DEF erase_message, Database
<1>7. SameNames(d, e)
    BY <1>1, <1>5 DEF SameNames
<1>8. /\ f \in [d.message -> MessageRow]
      /\ e.message = {f[m] : m \in d.message}
      /\ \A m \in d.message :
            /\ f[m].chatId = m.chatId /\ f[m].id = m.id
            /\ f[m].isSystem = m.isSystem
            /\ f[m].senderUserId = m.senderUserId
    BY <1>1, <1>3
<1> HIDE DEF e, f
<1>9. \E g \in [d.message -> MessageRow] :
        /\ e.message = {g[m] : m \in d.message}
        /\ \A m \in d.message :
            /\ g[m].chatId = m.chatId /\ g[m].id = m.id
            /\ g[m].isSystem = m.isSystem
            /\ g[m].senderUserId = m.senderUserId
    BY <1>8
<1> QED
    BY <1>1, <1>5, <1>6, <1>7, <1>9 DEF e, stamp

-----------------------------------------------------------------------------
(* Each helper preserves the invariant *)

\* What keeps the names keeps the registry.
LEMMA SameNamesRegistry ==
    ASSUME NEW d, NEW e, SameNames(d, e), RegistryExact(d)
    PROVE  RegistryExact(e) /\ RegisteredUsers(e) = RegisteredUsers(d)
                            /\ CreatedChats(e) = CreatedChats(d)
BY DEF SameNames, RegistryExact, RegisteredUsers, CreatedChats

\* A role change of a registered user in a created chat, to "admin" only
\* where there is none.
LEMMA AlterInv ==
    ASSUME NEW d, NEW c \in Chats, NEW u \in Users, NEW role \in Roles,
           DbInv(d), c \in CreatedChats(d), u \in RegisteredUsers(d),
           role = "admin" =>
                \A v \in Users : d.membership[c][v].role # "admin"
    PROVE  DbInv(alter_user_chat_role(d, c, u, role))
<1> DEFINE e == alter_user_chat_role(d, c, u, role)
<1>1. d \in Database
    BY DEF DbInv
<1>2. /\ e \in Database
      /\ SameNames(d, e)
      /\ e.message = d.message
      /\ \A k \in Chats : e.chat[k].lastMsgId = d.chat[k].lastMsgId
      /\ e.chat[c].it_HistoryId = d.chat[c].it_HistoryId + 1
      /\ \A k \in Chats \ {c} : e.chat[k] = d.chat[k]
      /\ e.user[u].chatList_HistoryId = d.user[u].chatList_HistoryId + 1
      /\ \A v \in Users \ {u} : e.user[v] = d.user[v]
      /\ e.membership[c][u].role = role
      /\ e.membership[c][u].chat_IncHistoryId = d.chat[c].it_HistoryId + 1
      /\ e.membership[c][u].user_chatList_IncHistoryId
           = d.user[u].chatList_HistoryId + 1
      /\ \A k \in Chats, v \in Users :
           k # c \/ v # u => e.membership[k][v] = d.membership[k][v]
    BY <1>1, AlterFacts
<1> HIDE DEF e
<1>3. /\ \A k \in Chats : d.chat[k].it_HistoryId \in Nat
      /\ \A v \in Users : d.user[v].chatList_HistoryId \in Nat
      /\ \A k \in Chats, v \in Users :
            /\ d.membership[k][v].chat_IncHistoryId \in Nat
            /\ d.membership[k][v].user_chatList_IncHistoryId \in Nat
    BY <1>1 DEF Database, ChatRow, UserRow, MembershipRow
<1>4. /\ RegistryExact(e) /\ RegisteredUsers(e) = RegisteredUsers(d)
      /\ CreatedChats(e) = CreatedChats(d)
    BY <1>2, SameNamesRegistry DEF DbInv
<1>5. IdsContiguous(e)
    BY <1>2 DEF DbInv, IdsContiguous, MessagesOf
<1>6. StampsSound(e)
    BY SMTT(30), <1>2, <1>3 DEF DbInv, StampsSound
<1>7. ReferencesHold(e)
  <2>1. ASSUME NEW k \in Chats, NEW v \in Users,
               e.membership[k][v] # NoMembership
        PROVE  v \in RegisteredUsers(e) /\ k \in CreatedChats(e)
    BY <2>1, <1>2, <1>4 DEF DbInv, ReferencesHold
  <2>2. ASSUME NEW m \in e.message
        PROVE  /\ m.chatId \in CreatedChats(e)
               /\ m.isSystem => m.senderUserId = NoUser
               /\ ~m.isSystem =>
                    /\ m.senderUserId \in RegisteredUsers(e)
                    /\ e.membership[m.chatId][m.senderUserId].chat_IncHistoryId > 0
    <3>1. /\ m.chatId \in CreatedChats(d)
          /\ m.isSystem => m.senderUserId = NoUser
          /\ ~m.isSystem =>
                /\ m.senderUserId \in RegisteredUsers(d)
                /\ d.membership[m.chatId][m.senderUserId].chat_IncHistoryId > 0
      BY <1>2 DEF DbInv, ReferencesHold
    <3>2. ~m.isSystem => m.senderUserId \in Users /\ m.chatId \in Chats
      BY <3>1 DEF RegisteredUsers, CreatedChats
    <3> QED
      BY <3>1, <3>2, <1>2, <1>3, <1>4
  <2> QED
    BY <2>1, <2>2 DEF ReferencesHold
<1>8. OneAdmin(e)
    BY <1>2 DEF DbInv, OneAdmin
<1>9. Unborn(e)
    BY <1>2 DEF DbInv, Unborn, SameNames, RegisteredUsers, CreatedChats
<1> QED
    BY <1>2, <1>4, <1>5, <1>6, <1>7, <1>8, <1>9 DEF DbInv, e

\* A message into a created chat, from a registered user who has been in it.
LEMMA InsertInv ==
    ASSUME NEW d, NEW c \in Chats, NEW uid \in Users \cup {NoUser},
           NEW text \in Texts \cup SvoText, NEW isSystem \in BOOLEAN,
           DbInv(d), c \in CreatedChats(d),
           ~isSystem => /\ uid \in RegisteredUsers(d)
                        /\ d.membership[c][uid].chat_IncHistoryId > 0
    PROVE  DbInv(insert_new_message(d, uid, c, text, isSystem))
<1> DEFINE e == insert_new_message(d, uid, c, text, isSystem)
<1>1. d \in Database
    BY DEF DbInv
<1>2. /\ e \in Database
      /\ SameNames(d, e)
      /\ e.user = d.user
      /\ e.membership = d.membership
      /\ \E row \in MessageRow :
           /\ e.message = d.message \cup {row}
           /\ row.chatId = c
           /\ row.id = d.chat[c].lastMsgId + 1
           /\ row.isSystem = isSystem
           /\ row.senderUserId = IF isSystem THEN NoUser ELSE uid
      /\ e.chat[c].lastMsgId = d.chat[c].lastMsgId + 1
      /\ e.chat[c].it_HistoryId = d.chat[c].it_HistoryId + 1
      /\ \A k \in Chats \ {c} : e.chat[k] = d.chat[k]
    BY <1>1, InsertFacts
<1> HIDE DEF e
<1> PICK row \in MessageRow :
           /\ e.message = d.message \cup {row}
           /\ row.chatId = c
           /\ row.id = d.chat[c].lastMsgId + 1
           /\ row.isSystem = isSystem
           /\ row.senderUserId = IF isSystem THEN NoUser ELSE uid
    BY <1>2
<1>3. /\ d.chat[c].lastMsgId \in Nat \cup {-1}
      /\ \A k \in Chats : d.chat[k].it_HistoryId \in Nat
      /\ \A k \in Chats, v \in Users :
            d.membership[k][v].chat_IncHistoryId \in Nat
    BY <1>1 DEF Database, ChatRow, MembershipRow
<1>4. /\ RegistryExact(e) /\ RegisteredUsers(e) = RegisteredUsers(d)
      /\ CreatedChats(e) = CreatedChats(d)
    BY <1>2, SameNamesRegistry DEF DbInv
<1>5. IdsContiguous(e)
  <2>1. ASSUME NEW k \in Chats
        PROVE  /\ {m.id : m \in MessagesOf(e, k)} = 0 .. e.chat[k].lastMsgId
               /\ \A m, n \in MessagesOf(e, k) : m.id = n.id => m = n
    <3>0. /\ {m.id : m \in MessagesOf(d, k)} = 0 .. d.chat[k].lastMsgId
          /\ \A m, n \in MessagesOf(d, k) : m.id = n.id => m = n
      BY DEF DbInv, IdsContiguous
    <3>1. CASE k # c
      <4>1. MessagesOf(e, k) = MessagesOf(d, k)
        BY <3>1 DEF MessagesOf
      <4> QED
        BY <4>1, <3>0, <3>1, <1>2
    <3>2. CASE k = c
      <4> DEFINE last == d.chat[c].lastMsgId
      <4>1. MessagesOf(e, c) = MessagesOf(d, c) \cup {row}
        BY DEF MessagesOf
      <4>2. {m.id : m \in MessagesOf(e, c)}
                = {m.id : m \in MessagesOf(d, c)} \cup {last + 1}
        BY <4>1
      <4>3. (0 .. last) \cup {last + 1} = 0 .. last + 1
        BY <1>3
      <4>4. {m.id : m \in MessagesOf(e, c)} = 0 .. last + 1
        BY <3>0, <3>2, <4>2, <4>3
      <4>5. \A m \in MessagesOf(d, c) : m.id # row.id
        <5>1. \A m \in MessagesOf(d, c) : m.id \in 0 .. last
          BY <3>0, <3>2
        <5> QED
          BY <5>1, <1>3
      <4> QED
        BY <4>1, <4>4, <4>5, <3>0, <3>2, <1>2
    <3> QED
      BY <3>1, <3>2
  <2> QED
    BY <2>1 DEF IdsContiguous
<1>6. StampsSound(e)
    BY <1>2, <1>3 DEF DbInv, StampsSound
<1>7. ReferencesHold(e)
  <2>1. \A m \in d.message :
           /\ m.chatId \in CreatedChats(d)
           /\ IF m.isSystem THEN m.senderUserId = NoUser
              ELSE /\ m.senderUserId \in RegisteredUsers(d)
                   /\ d.membership[m.chatId][m.senderUserId].chat_IncHistoryId > 0
    BY DEF DbInv, ReferencesHold
  <2>2. /\ row.chatId \in CreatedChats(d)
        /\ IF row.isSystem THEN row.senderUserId = NoUser
           ELSE /\ row.senderUserId \in RegisteredUsers(d)
                /\ d.membership[row.chatId][row.senderUserId].chat_IncHistoryId > 0
    OBVIOUS
  <2>3. \A k \in Chats, v \in Users : d.membership[k][v] # NoMembership =>
            v \in RegisteredUsers(d) /\ k \in CreatedChats(d)
    BY DEF DbInv, ReferencesHold
  <2> QED
    BY <2>1, <2>2, <2>3, <1>2, <1>4 DEF ReferencesHold
<1>8. OneAdmin(e)
    BY <1>2 DEF DbInv, OneAdmin
<1>9. Unborn(e)
    BY <1>2 DEF DbInv, Unborn, SameNames, RegisteredUsers, CreatedChats
<1> QED
    BY <1>2, <1>4, <1>5, <1>6, <1>7, <1>8, <1>9 DEF DbInv, e

\* Erasing messages by id, in any chat.
LEMMA EraseInv ==
    ASSUME NEW d, NEW c \in Chats, NEW msgId, DbInv(d), c \in CreatedChats(d)
    PROVE  DbInv(erase_message(d, c, msgId))
<1> DEFINE e == erase_message(d, c, msgId)
<1>1. d \in Database
    BY DEF DbInv
<1>2. /\ e \in Database
      /\ SameNames(d, e)
      /\ e.user = d.user
      /\ e.membership = d.membership
      /\ \E f \in [d.message -> MessageRow] :
           /\ e.message = {f[m] : m \in d.message}
           /\ \A m \in d.message :
               /\ f[m].chatId = m.chatId /\ f[m].id = m.id
               /\ f[m].isSystem = m.isSystem
               /\ f[m].senderUserId = m.senderUserId
      /\ \A k \in Chats : e.chat[k].lastMsgId = d.chat[k].lastMsgId
      /\ e.chat[c].it_HistoryId = d.chat[c].it_HistoryId + 1
      /\ \A k \in Chats \ {c} : e.chat[k] = d.chat[k]
    BY <1>1, EraseFacts
<1> HIDE DEF e
<1> PICK f \in [d.message -> MessageRow] :
           /\ e.message = {f[m] : m \in d.message}
           /\ \A m \in d.message :
               /\ f[m].chatId = m.chatId /\ f[m].id = m.id
               /\ f[m].isSystem = m.isSystem
               /\ f[m].senderUserId = m.senderUserId
    BY <1>2
<1>3. /\ \A k \in Chats : d.chat[k].it_HistoryId \in Nat
      /\ \A k \in Chats, v \in Users :
            d.membership[k][v].chat_IncHistoryId \in Nat
    BY <1>1 DEF Database, ChatRow, MembershipRow
<1>4. /\ RegistryExact(e) /\ RegisteredUsers(e) = RegisteredUsers(d)
      /\ CreatedChats(e) = CreatedChats(d)
    BY <1>2, SameNamesRegistry DEF DbInv
<1>5. IdsContiguous(e)
  <2>1. ASSUME NEW k \in Chats
        PROVE  /\ {m.id : m \in MessagesOf(e, k)} = 0 .. e.chat[k].lastMsgId
               /\ \A m, n \in MessagesOf(e, k) : m.id = n.id => m = n
    <3>1. MessagesOf(e, k) = {f[m] : m \in MessagesOf(d, k)}
      BY DEF MessagesOf
    <3>2. {m.id : m \in MessagesOf(e, k)} = {m.id : m \in MessagesOf(d, k)}
      BY <3>1 DEF MessagesOf
    <3>3. /\ {m.id : m \in MessagesOf(d, k)} = 0 .. d.chat[k].lastMsgId
          /\ \A m, n \in MessagesOf(d, k) : m.id = n.id => m = n
      BY DEF DbInv, IdsContiguous
    <3>4. \A m, n \in MessagesOf(e, k) : m.id = n.id => m = n
      BY <3>1, <3>3 DEF MessagesOf
    <3> QED
      BY <3>2, <3>3, <3>4, <1>2
  <2> QED
    BY <2>1 DEF IdsContiguous
<1>6. StampsSound(e)
    BY <1>2, <1>3 DEF DbInv, StampsSound
<1>7. ReferencesHold(e)
    BY <1>2, <1>4 DEF DbInv, ReferencesHold
<1>8. OneAdmin(e)
    BY <1>2 DEF DbInv, OneAdmin
<1>9. Unborn(e)
    BY <1>2 DEF DbInv, Unborn, SameNames, RegisteredUsers, CreatedChats
<1> QED
    BY <1>2, <1>4, <1>5, <1>6, <1>7, <1>8, <1>9 DEF DbInv, e

\* A new user under a nickname nobody has.
LEMMA AddUserInv ==
    ASSUME NEW d, NEW u \in Users, NEW n \in Nicknames,
           DbInv(d), CanAddUser(d, u, n)
    PROVE  DbInv(add_user(d, u, n))
<1> DEFINE e == add_user(d, u, n)
           row == [nickname |-> n, chatList_HistoryId |-> 0]
<1>1. d \in Database
    BY DEF DbInv
<1>2. /\ e.nickname = d.nickname \cup {n}
      /\ e.user = [d.user EXCEPT ![u] = row]
      /\ e.chat = d.chat /\ e.membership = d.membership
      /\ e.message = d.message
    BY DEF add_user, reserve_nickname
<1>3. d.user \in [Users -> UserRow] /\ row \in UserRow
    BY <1>1 DEF Database, UserRow
<1>4. e \in Database
    BY <1>1, <1>2, <1>3 DEF add_user, reserve_nickname, Database
<1>5. /\ e.user[u] = row /\ row.nickname = n /\ row.chatList_HistoryId = 0
      /\ \A v \in Users \ {u} : e.user[v] = d.user[v]
    BY <1>2, <1>3
<1> HIDE DEF e, row
<1>6. n # NoNickname /\ NoNickname \notin Sus
    BY ChatDbAssumption
<1>7. d.user[u].nickname = NoNickname /\ n \notin d.nickname
    BY DEF CanAddUser, RegisteredUsers, is_nickname_taken
<1>8. \A c \in Chats : d.membership[c][u] = NoMembership
    BY <1>7 DEF DbInv, ReferencesHold, RegisteredUsers
<1>9. RegisteredUsers(e) = RegisteredUsers(d) \cup {u}
    BY <1>5, <1>6, <1>7 DEF RegisteredUsers
<1>10. CreatedChats(e) = CreatedChats(d)
    BY <1>2 DEF CreatedChats
<1>11. RegistryExact(e)
  <2>1. \A m \in Nicknames :
            m \in d.nickname <=>
                \/ m \in Sus
                \/ \E v \in Users : d.user[v].nickname = m
                \/ \E c \in Chats : d.chat[c].nickname = m
    BY DEF DbInv, RegistryExact
  <2>2. ASSUME NEW m \in Nicknames
        PROVE  m \in e.nickname <=>
                \/ m \in Sus
                \/ \E v \in Users : e.user[v].nickname = m
                \/ \E c \in Chats : e.chat[c].nickname = m
    <3>1. m # NoNickname
      BY ChatDbAssumption
    <3>2. (\E v \in Users : e.user[v].nickname = m)
            <=> m = n \/ \E v \in Users : d.user[v].nickname = m
      BY <1>5, <1>7, <3>1
    <3> QED
      BY <2>1, <3>2, <1>2
  <2>3. /\ n \notin Sus
        /\ \A v \in Users : d.user[v].nickname # n
        /\ \A c \in Chats : d.chat[c].nickname # n
    BY <2>1, <1>7
  <2>4. /\ \A v \in RegisteredUsers(d) :
            /\ d.user[v].nickname \notin Sus
            /\ \A w \in RegisteredUsers(d) :
                    d.user[v].nickname = d.user[w].nickname => v = w
            /\ \A c \in Chats : d.chat[c].nickname # d.user[v].nickname
        /\ \A c \in CreatedChats(d) :
            /\ d.chat[c].nickname \notin Sus
            /\ \A k \in Chats : d.chat[c].nickname = d.chat[k].nickname => c = k
    BY DEF DbInv, RegistryExact
  <2>5. u \notin RegisteredUsers(d)
    BY <1>7 DEF RegisteredUsers
  <2>6. \A v \in RegisteredUsers(e) :
            /\ e.user[v].nickname \notin Sus
            /\ \A w \in RegisteredUsers(e) :
                    e.user[v].nickname = e.user[w].nickname => v = w
            /\ \A c \in Chats : e.chat[c].nickname # e.user[v].nickname
    BY <2>3, <2>4, <2>5, <1>2, <1>5, <1>9 DEF RegisteredUsers
  <2> QED
    BY <2>2, <2>4, <2>6, <1>2, <1>10 DEF RegistryExact
<1>12. IdsContiguous(e)
    BY <1>2 DEF DbInv, IdsContiguous, MessagesOf
<1>13. StampsSound(e)
  <2>1. \A c \in Chats : e.membership[c][u].user_chatList_IncHistoryId
                            <= e.user[u].chatList_HistoryId
    BY <1>2, <1>5, <1>8 DEF NoMembership
  <2> QED
    BY <2>1, <1>2, <1>5 DEF DbInv, StampsSound
<1>14. ReferencesHold(e)
    BY <1>2, <1>9, <1>10 DEF DbInv, ReferencesHold
<1>15. OneAdmin(e)
    BY <1>2 DEF DbInv, OneAdmin
<1>16. Unborn(e)
    BY <1>2, <1>5 DEF DbInv, Unborn
<1> QED
    BY <1>4, <1>11, <1>12, <1>13, <1>14, <1>15, <1>16 DEF DbInv, e

\* A new chat, still without members, under a nickname nobody has.
LEMMA InsertChatInv ==
    ASSUME NEW d, NEW c \in Chats, NEW n \in Nicknames, DbInv(d),
           c \notin CreatedChats(d), ~is_nickname_taken(d, n)
    PROVE  LET e == insert_chat(d, c, n) IN
           /\ DbInv(e)
           /\ c \in CreatedChats(e)
           /\ RegisteredUsers(e) = RegisteredUsers(d)
           /\ e.membership = d.membership
           /\ \A v \in Users : d.membership[c][v] = NoMembership
<1> DEFINE e == insert_chat(d, c, n)
           row == [nickname |-> n, it_HistoryId |-> 0, lastMsgId |-> -1]
<1>1. d \in Database
    BY DEF DbInv
<1>2. /\ e.nickname = d.nickname \cup {n}
      /\ e.chat = [d.chat EXCEPT ![c] = row]
      /\ e.user = d.user /\ e.membership = d.membership
      /\ e.message = d.message
    BY DEF insert_chat, reserve_nickname
<1>3. d.chat \in [Chats -> ChatRow] /\ row \in ChatRow
    BY <1>1 DEF Database, ChatRow
<1>4. e \in Database
    BY <1>1, <1>2, <1>3 DEF insert_chat, reserve_nickname, Database
<1>5. /\ e.chat[c] = row /\ row.nickname = n /\ row.it_HistoryId = 0
      /\ row.lastMsgId = -1
      /\ \A k \in Chats \ {c} : e.chat[k] = d.chat[k]
    BY <1>2, <1>3
<1> HIDE DEF e, row
<1>6. n # NoNickname /\ NoNickname \notin Sus
    BY ChatDbAssumption
<1>7. d.chat[c].nickname = NoNickname /\ n \notin d.nickname
    BY DEF CreatedChats, is_nickname_taken
<1>8. \A v \in Users : d.membership[c][v] = NoMembership
    BY <1>7 DEF DbInv, ReferencesHold, CreatedChats
<1>9. RegisteredUsers(e) = RegisteredUsers(d)
    BY <1>2 DEF RegisteredUsers
<1>10. CreatedChats(e) = CreatedChats(d) \cup {c}
    BY <1>5, <1>6 DEF CreatedChats
<1>11. RegistryExact(e)
  <2>1. \A m \in Nicknames :
            m \in d.nickname <=>
                \/ m \in Sus
                \/ \E v \in Users : d.user[v].nickname = m
                \/ \E k \in Chats : d.chat[k].nickname = m
    BY DEF DbInv, RegistryExact
  <2>2. ASSUME NEW m \in Nicknames
        PROVE  m \in e.nickname <=>
                \/ m \in Sus
                \/ \E v \in Users : e.user[v].nickname = m
                \/ \E k \in Chats : e.chat[k].nickname = m
    <3>1. m # NoNickname
      BY ChatDbAssumption
    <3>2. (\E k \in Chats : e.chat[k].nickname = m)
            <=> m = n \/ \E k \in Chats : d.chat[k].nickname = m
      BY <1>5, <1>7, <3>1
    <3> QED
      BY <2>1, <3>2, <1>2
  <2>3. /\ n \notin Sus
        /\ \A v \in Users : d.user[v].nickname # n
        /\ \A k \in Chats : d.chat[k].nickname # n
    BY <2>1, <1>7
  <2>4. /\ \A v \in RegisteredUsers(d) :
            /\ d.user[v].nickname \notin Sus
            /\ \A w \in RegisteredUsers(d) :
                    d.user[v].nickname = d.user[w].nickname => v = w
            /\ \A k \in Chats : d.chat[k].nickname # d.user[v].nickname
        /\ \A k \in CreatedChats(d) :
            /\ d.chat[k].nickname \notin Sus
            /\ \A j \in Chats : d.chat[k].nickname = d.chat[j].nickname => k = j
    BY DEF DbInv, RegistryExact
  <2>5. \A v \in RegisteredUsers(e) :
            /\ e.user[v].nickname \notin Sus
            /\ \A w \in RegisteredUsers(e) :
                    e.user[v].nickname = e.user[w].nickname => v = w
            /\ \A k \in Chats : e.chat[k].nickname # e.user[v].nickname
    BY <2>3, <2>4, <1>2, <1>5, <1>9 DEF RegisteredUsers
  <2>6. \A k \in CreatedChats(e) :
            /\ e.chat[k].nickname \notin Sus
            /\ \A j \in Chats : e.chat[k].nickname = e.chat[j].nickname => k = j
    BY <2>3, <2>4, <1>5, <1>6, <1>7, <1>10 DEF CreatedChats
  <2> QED
    BY <2>2, <2>5, <2>6 DEF RegistryExact
<1>12. IdsContiguous(e)
  <2>1. MessagesOf(d, c) = {}
    BY DEF DbInv, ReferencesHold, MessagesOf
  <2>2. /\ {m.id : m \in MessagesOf(e, c)} = 0 .. -1
        /\ \A m, k \in MessagesOf(e, c) : m.id = k.id => m = k
    BY <2>1, <1>2 DEF MessagesOf
  <2>3. \A k \in Chats \ {c} :
            /\ {m.id : m \in MessagesOf(e, k)} = 0 .. e.chat[k].lastMsgId
            /\ \A m, j \in MessagesOf(e, k) : m.id = j.id => m = j
    BY <1>2, <1>5 DEF DbInv, IdsContiguous, MessagesOf
  <2> QED
    BY <2>2, <2>3, <1>5 DEF IdsContiguous
<1>13. StampsSound(e)
  <2>1. \A v \in Users : e.membership[c][v].chat_IncHistoryId
                            <= e.chat[c].it_HistoryId
    BY <1>2, <1>5, <1>8 DEF NoMembership
  <2> QED
    BY <2>1, <1>2, <1>5 DEF DbInv, StampsSound
<1>14. ReferencesHold(e)
    BY <1>2, <1>9, <1>10 DEF DbInv, ReferencesHold
<1>15. OneAdmin(e)
    BY <1>2 DEF DbInv, OneAdmin
<1>16. Unborn(e)
    BY <1>2, <1>5, <1>6 DEF DbInv, Unborn
<1> QED
    BY <1>2, <1>4, <1>8, <1>9, <1>10, <1>11, <1>12, <1>13, <1>14, <1>15, <1>16
       DEF DbInv, e

\* What initialize_website leaves.
LEMMA InitialInv == DbInv(InitialDb)
<1>1. InitialDb \in Database
    BY ChatDbAssumption DEF InitialDb, Database, UserRow, ChatRow,
       MembershipRow, NoMembership, Roles
<1>2. RegistryExact(InitialDb)
    BY ChatDbAssumption DEF InitialDb, RegistryExact, RegisteredUsers, CreatedChats
<1>3. IdsContiguous(InitialDb)
    BY DEF InitialDb, IdsContiguous, MessagesOf
<1>4. StampsSound(InitialDb)
    BY DEF InitialDb, StampsSound, NoMembership
<1>5. ReferencesHold(InitialDb)
    BY DEF InitialDb, ReferencesHold
<1>6. OneAdmin(InitialDb)
    BY DEF InitialDb, OneAdmin, NoMembership
<1>7. Unborn(InitialDb)
    BY DEF InitialDb, Unborn
<1> QED
    BY <1>1, <1>2, <1>3, <1>4, <1>5, <1>6, <1>7 DEF DbInv

-----------------------------------------------------------------------------
(* The API calls and the specification *)

\* a system message can be inserted after any role change
LEMMA AlterThenSvo ==
    ASSUME NEW d, NEW c \in Chats, NEW u \in Users, NEW role \in Roles \ {"admin"},
           NEW subject \in Users, NEW verb \in Verbs,
           NEW object \in Users \cup {NoUser},
           DbInv(d), c \in CreatedChats(d), u \in RegisteredUsers(d)
    PROVE  DbInv(insert_system_message_svo(
                    alter_user_chat_role(d, c, u, role), c, subject, verb, object))
<1> DEFINE e == alter_user_chat_role(d, c, u, role)
           text == [subject |-> subject, verb |-> verb, object |-> object]
<1>1. DbInv(e)
    BY AlterInv
<1>2. c \in CreatedChats(e)
    BY AlterFacts DEF DbInv, CreatedChats, SameNames
<1>3. text \in SvoText
    BY DEF SvoText
<1> HIDE DEF e, text
<1>4. DbInv(insert_new_message(e, NoUser, c, text, TRUE))
    BY <1>1, <1>2, <1>3, InsertInv
<1> QED
    BY <1>4 DEF insert_system_message_svo, e, text

\* whoever has a role in a chat is registered, and the chat exists
LEMMA MemberExists ==
    ASSUME NEW d, DbInv(d), NEW u \in Users, NEW c \in Chats,
           get_role_of_user_in_chat(d, u, c) # "deleted"
    PROVE  /\ u \in RegisteredUsers(d) /\ c \in CreatedChats(d)
           /\ d.membership[c][u].chat_IncHistoryId > 0
<1>1. d.membership[c][u] # NoMembership
    BY DEF get_role_of_user_in_chat, NoMembership
<1>2. d.membership[c][u].chat_IncHistoryId \in Nat
    BY DEF DbInv, Database, MembershipRow
<1>3. d.membership[c][u].chat_IncHistoryId # 0
    BY DEF DbInv, StampsSound, get_role_of_user_in_chat
<1> QED
    BY <1>1, <1>2, <1>3 DEF DbInv, ReferencesHold

\* Every request preserves the invariant.
LEMMA NextInv == Inv /\ [Next]_db => Inv'
<1> SUFFICES ASSUME DbInv(db), [Next]_db PROVE DbInv(db')
    BY DEF Inv
<1>1. ASSUME NEW u \in Users, NEW n \in Nicknames, AddUser(u, n)
      PROVE  DbInv(db')
    BY <1>1, AddUserInv DEF AddUser, Commit
<1>2. ASSUME NEW uid \in Users, NEW c \in Chats, NEW n \in Nicknames,
             CreateChat(uid, c, n)
      PROVE  DbInv(db')
  <2> DEFINE e == insert_chat(db, c, n)
  <2>1. /\ uid \in RegisteredUsers(db) /\ c \notin CreatedChats(db)
        /\ ~is_nickname_taken(db, n)
        /\ db' = alter_user_chat_role(e, c, uid, "admin")
    BY <1>2 DEF CreateChat, CanCreateChat, Commit, internalapi_createChat
  <2>2. /\ DbInv(e) /\ c \in CreatedChats(e)
        /\ RegisteredUsers(e) = RegisteredUsers(db)
        /\ \A v \in Users : e.membership[c][v] = NoMembership
    BY <2>1, InsertChatInv
  <2> HIDE DEF e
  <2>3. \A v \in Users : e.membership[c][v].role # "admin"
    BY <2>2 DEF NoMembership
  <2>4. "admin" \in Roles
    BY DEF Roles
  <2> QED
    BY <2>1, <2>2, <2>3, <2>4, AlterInv
<1>3. ASSUME NEW uid \in Users, NEW c \in Chats, NEW alien \in Users,
             NEW makeReadOnly \in BOOLEAN,
             AddMemberToChat(uid, c, alien, makeReadOnly)
      PROVE  DbInv(db')
  <2> DEFINE role == IF makeReadOnly THEN "read_only" ELSE "regular"
  <2>1. /\ get_role_of_user_in_chat(db, uid, c) = "admin"
        /\ alien \in RegisteredUsers(db)
        /\ db' = insert_system_message_svo(
                    alter_user_chat_role(db, c, alien, role),
                    c, uid, "summoned", alien)
    BY <1>3 DEF AddMemberToChat, CanAddMember, Commit, internalapi_addMemberToChat
  <2>2. role \in Roles \ {"admin"} /\ "summoned" \in Verbs
    BY DEF Roles, Verbs
  <2> HIDE DEF role
  <2>3. c \in CreatedChats(db)
    BY <2>1, MemberExists
  <2> QED
    BY <2>1, <2>2, <2>3, AlterThenSvo
<1>4. ASSUME NEW uid \in Users, NEW c \in Chats, NEW badAlien \in Users,
             RemoveMemberFromChat(uid, c, badAlien)
      PROVE  DbInv(db')
  <2>1. /\ get_role_of_user_in_chat(db, uid, c) = "admin"
        /\ badAlien \in RegisteredUsers(db)
        /\ db' = insert_system_message_svo(
                    alter_user_chat_role(db, c, badAlien, "deleted"),
                    c, uid, "kicked", badAlien)
    BY <1>4 DEF RemoveMemberFromChat, CanRemoveMember, Commit, kick_from_chat,
                internalapi_removeMemberFromChat
  <2>2. "deleted" \in Roles \ {"admin"} /\ "kicked" \in Verbs
    BY DEF Roles, Verbs
  <2>3. c \in CreatedChats(db)
    BY <2>1, MemberExists
  <2> QED
    BY <2>1, <2>2, <2>3, AlterThenSvo
<1>5. ASSUME NEW uid \in Users, NEW c \in Chats, LeaveChat(uid, c)
      PROVE  DbInv(db')
  <2>1. /\ get_role_of_user_in_chat(db, uid, c) # "deleted"
        /\ db' = insert_system_message_svo(
                    alter_user_chat_role(db, c, uid, "deleted"),
                    c, uid, "left", NoUser)
    BY <1>5 DEF LeaveChat, CanLeave, Commit, kick_from_chat, internalapi_leaveChat
  <2>2. "deleted" \in Roles \ {"admin"} /\ "left" \in Verbs
    BY DEF Roles, Verbs
  <2>3. c \in CreatedChats(db) /\ uid \in RegisteredUsers(db)
    BY <2>1, MemberExists
  <2> QED
    BY <2>1, <2>2, <2>3, AlterThenSvo
<1>6. ASSUME NEW uid \in Users, NEW c \in Chats, NEW text \in Texts,
             SendMessage(uid, c, text)
      PROVE  DbInv(db')
  <2>1. /\ get_role_of_user_in_chat(db, uid, c) # "deleted"
        /\ db' = insert_new_message(db, uid, c, text, FALSE)
    BY <1>6 DEF SendMessage, CanSendMessage, Commit, internalapi_sendMessage
  <2>2. /\ c \in CreatedChats(db) /\ uid \in RegisteredUsers(db)
        /\ db.membership[c][uid].chat_IncHistoryId > 0
    BY <2>1, MemberExists
  <2> QED
    BY <2>1, <2>2, InsertInv
<1>7. ASSUME NEW uid \in Users, NEW c \in Chats, NEW msgId \in 0 .. MaxHistory,
             DeleteMessage(uid, c, msgId)
      PROVE  DbInv(db')
  <2>1. /\ get_role_of_user_in_chat(db, uid, c) # "deleted"
        /\ db' = erase_message(db, c, msgId)
    BY <1>7 DEF DeleteMessage, CanDeleteMessage, Commit, internalapi_deleteMessage
  <2>2. c \in CreatedChats(db)
    BY <2>1, MemberExists
  <2> QED
    BY <2>1, <2>2, EraseInv
<1>8. ASSUME UNCHANGED db PROVE DbInv(db')
    BY <1>8
<1> QED
    BY <1>1, <1>2, <1>3, <1>4, <1>5, <1>6, <1>7, <1>8
       DEF Next, ReadOnlyOrRejectedRequest

\* The invariant of the server.
LEMMA Invariance == Spec => []Inv
<1>1. Init => Inv
    BY InitialInv DEF Init, Inv
<1> QED
    BY <1>1, NextInv, PTL DEF Spec

-----------------------------------------------------------------------------
(* The theorems *)

\* Every table always holds rows of its schema.
THEOREM Typing == Spec => []TypeOK
<1>1. Inv => TypeOK
    BY DEF Inv, DbInv, TypeOK
<1> QED
    BY <1>1, Invariance, PTL

\* No two users or chats ever share a nickname, and the registry of
\* nicknames is exactly the reserved words and the names in use.
THEOREM NicknamesUnique == Spec => []NicknameRegistryExact
<1>1. Inv => NicknameRegistryExact
    BY DEF Inv, DbInv, NicknameRegistryExact
<1> QED
    BY <1>1, Invariance, PTL

\* The messages of a chat are always numbered 0 .. lastMsgId, each once.
THEOREM MessageNumbering == Spec => []MessageIdsContiguous
<1>1. Inv => MessageIdsContiguous
    BY DEF Inv, DbInv, MessageIdsContiguous
<1> QED
    BY <1>1, Invariance, PTL

\* Membership stamps are never from the future and never shared.
THEOREM MembershipStamps == Spec => []MembershipStampsSound
<1>1. Inv => MembershipStampsSound
    BY DEF Inv, DbInv, MembershipStampsSound
<1> QED
    BY <1>1, Invariance, PTL

\* Rows refer to rows that exist, and authors have membership rows.
THEOREM References == Spec => []ForeignKeysHold
<1>1. Inv => ForeignKeysHold
    BY DEF Inv, DbInv, ForeignKeysHold
<1> QED
    BY <1>1, Invariance, PTL

\* what a role change and a message mean for the roles of a chat
LEMMA RolesAfterAlter ==
    ASSUME NEW d \in Database, NEW c \in Chats, NEW u \in Users,
           NEW role \in Roles, NEW k \in Chats, NEW v \in Users
    PROVE  get_role_of_user_in_chat(alter_user_chat_role(d, c, u, role), v, k)
             = IF k = c /\ v = u THEN role ELSE get_role_of_user_in_chat(d, v, k)
BY AlterFacts DEF get_role_of_user_in_chat

\* A change of role told by a system message is a change of role.
LEMMA RolesAfterAlterThenSvo ==
    ASSUME NEW d \in Database, NEW c \in Chats, NEW u \in Users,
           NEW role \in Roles, NEW subject, NEW verb, NEW object,
           NEW k \in Chats, NEW v \in Users
    PROVE  get_role_of_user_in_chat(
                insert_system_message_svo(
                    alter_user_chat_role(d, c, u, role), c, subject, verb, object),
                v, k)
             = IF k = c /\ v = u THEN role ELSE get_role_of_user_in_chat(d, v, k)
<1> DEFINE e == alter_user_chat_role(d, c, u, role)
           text == [subject |-> subject, verb |-> verb, object |-> object]
<1>1. get_role_of_user_in_chat(e, v, k)
        = IF k = c /\ v = u THEN role ELSE get_role_of_user_in_chat(d, v, k)
    BY RolesAfterAlter
<1> HIDE DEF e, text
<1>2. get_role_of_user_in_chat(insert_new_message(e, NoUser, c, text, TRUE), v, k)
        = get_role_of_user_in_chat(e, v, k)
    BY DEF get_role_of_user_in_chat, insert_new_message
<1> QED
    BY <1>1, <1>2 DEF insert_system_message_svo, e, text

\* One request never makes an admin of a chat that exists, and lets members
\* in only where there is an admin.
LEMMA AdminStepInv ==
    ASSUME DbInv(db), Next, NEW k \in CreatedChats(db)
    PROVE  AdminStep(k)
<1> DEFINE role(v) == get_role_of_user_in_chat(db, v, k)
           role2(v) == get_role_of_user_in_chat(db', v, k)
<1>0. db \in Database /\ k \in Chats
    BY DEF DbInv, CreatedChats
<1>1. SUFFICES
        /\ \A v \in Users : role2(v) = "admin" => role(v) = "admin"
        /\ \A v \in Users : role(v) = "deleted" /\ role2(v) # "deleted"
                => \E a \in Users : role(a) = "admin"
    <2>1. \A u, v \in Admins(db, k) : u = v
        BY <1>0 DEF DbInv, OneAdmin, Admins, get_role_of_user_in_chat
    <2> QED
        BY <2>1 DEF AdminStep, Admins, Members
<1> DEFINE Goal ==
        /\ \A v \in Users : role2(v) = "admin" => role(v) = "admin"
        /\ \A v \in Users : role(v) = "deleted" /\ role2(v) # "deleted"
                => \E a \in Users : role(a) = "admin"
<1>2. ASSUME db'.membership[k] = db.membership[k] PROVE Goal
    BY <1>2 DEF get_role_of_user_in_chat
<1>3. ASSUME NEW u \in Users, NEW n \in Nicknames, AddUser(u, n)
      PROVE  Goal
  <2>1. db'.membership = db.membership
    BY <1>3 DEF AddUser, Commit, add_user, reserve_nickname
  <2> QED
    BY <2>1, <1>2
<1>4. ASSUME NEW uid \in Users, NEW c \in Chats, NEW n \in Nicknames,
             CreateChat(uid, c, n)
      PROVE  Goal
  <2> DEFINE e == insert_chat(db, c, n)
  <2>1. /\ c \notin CreatedChats(db) /\ ~is_nickname_taken(db, n)
        /\ db' = alter_user_chat_role(e, c, uid, "admin")
    BY <1>4 DEF CreateChat, CanCreateChat, Commit, internalapi_createChat
  <2>2. e \in Database /\ e.membership = db.membership /\ k # c
    BY <2>1, InsertChatInv DEF DbInv
  <2>3. "admin" \in Roles
    BY DEF Roles
  <2> HIDE DEF e
  <2>4. \A v \in Users : role2(v) = get_role_of_user_in_chat(e, v, k)
    BY <2>1, <2>2, <2>3, <1>0, RolesAfterAlter
  <2> QED
    BY <2>2, <2>4 DEF get_role_of_user_in_chat
<1>5. ASSUME NEW uid \in Users, NEW c \in Chats, NEW alien \in Users,
             NEW makeReadOnly \in BOOLEAN,
             AddMemberToChat(uid, c, alien, makeReadOnly)
      PROVE  Goal
  <2> DEFINE r == IF makeReadOnly THEN "read_only" ELSE "regular"
  <2>1. /\ get_role_of_user_in_chat(db, uid, c) = "admin"
        /\ db' = insert_system_message_svo(
                    alter_user_chat_role(db, c, alien, r),
                    c, uid, "summoned", alien)
    BY <1>5 DEF AddMemberToChat, CanAddMember, Commit, internalapi_addMemberToChat
  <2>2. r \in Roles /\ r # "admin"
    BY DEF Roles
  <2> HIDE DEF r
  <2>3. \A v \in Users : role2(v) = IF k = c /\ v = alien THEN r ELSE role(v)
    BY <2>1, <2>2, <1>0, RolesAfterAlterThenSvo
  <2> QED
    BY <2>1, <2>2, <2>3
<1>6. ASSUME NEW uid \in Users, NEW c \in Chats, NEW victim \in Users,
             NEW verb, NEW object,
             db' = insert_system_message_svo(
                    alter_user_chat_role(db, c, victim, "deleted"),
                    c, uid, verb, object)
      PROVE  Goal
  <2>1. "deleted" \in Roles
    BY DEF Roles
  <2>2. \A v \in Users :
            role2(v) = IF k = c /\ v = victim THEN "deleted" ELSE role(v)
    BY <1>6, <2>1, <1>0, RolesAfterAlterThenSvo
  <2> QED
    BY <2>2
<1>7. ASSUME NEW uid \in Users, NEW c \in Chats, NEW badAlien \in Users,
             RemoveMemberFromChat(uid, c, badAlien)
      PROVE  Goal
    BY <1>7, <1>6 DEF RemoveMemberFromChat, Commit, kick_from_chat,
                      internalapi_removeMemberFromChat
<1>8. ASSUME NEW uid \in Users, NEW c \in Chats, LeaveChat(uid, c)
      PROVE  Goal
    BY <1>8, <1>6 DEF LeaveChat, Commit, kick_from_chat, internalapi_leaveChat
<1>9. ASSUME NEW uid \in Users, NEW c \in Chats, NEW text \in Texts,
             SendMessage(uid, c, text)
      PROVE  Goal
  <2>1. db'.membership = db.membership
    BY <1>9 DEF SendMessage, Commit, internalapi_sendMessage, insert_new_message
  <2> QED
    BY <2>1, <1>2
<1>10. ASSUME NEW uid \in Users, NEW c \in Chats, NEW msgId \in 0 .. MaxHistory,
              DeleteMessage(uid, c, msgId)
       PROVE  Goal
  <2>1. db'.membership = db.membership
    BY <1>10 DEF DeleteMessage, Commit, internalapi_deleteMessage, erase_message
  <2> QED
    BY <2>1, <1>2
<1>11. ASSUME ReadOnlyOrRejectedRequest PROVE Goal
    BY <1>11, <1>2 DEF ReadOnlyOrRejectedRequest
<1> HIDE DEF Goal
<1>12. Goal
    BY <1>3, <1>4, <1>5, <1>7, <1>8, <1>9, <1>10, <1>11 DEF Next
<1> QED
    BY <1>12 DEF Goal

\* The admin of a chat is never replaced, whatever requests arrive.
THEOREM AdminForever == Spec => AdminIsNeverReplaced
<1>1. Inv /\ [Next]_db => [\A c \in CreatedChats(db) : AdminStep(c)]_db
    BY AdminStepInv DEF Inv
<1> QED
    BY <1>1, Invariance, PTL DEF Spec, AdminIsNeverReplaced

-----------------------------------------------------------------------------
(* What one request can do to the histories *)

SameMessage(m, n) ==
    /\ m.chatId = n.chatId /\ m.id = n.id
    /\ m.isSystem = n.isSystem /\ m.senderUserId = n.senderUserId

\* Nothing a history is about changes.
Quiet(d, e) ==
    /\ \A v \in Users :
        e.user[v].chatList_HistoryId = d.user[v].chatList_HistoryId
    /\ \A k \in Chats :
        /\ e.chat[k].it_HistoryId = d.chat[k].it_HistoryId
        /\ e.chat[k].lastMsgId = d.chat[k].lastMsgId
    /\ e.membership = d.membership
    /\ e.message = d.message

\* The counters of one user's list and of one chat move, up; the one row that
\* may change takes new stamps of both; and a message is an old one, a new
\* one of that chat, or an old one erased, the last two with a new stamp.
OneRequest(d, e, u, c) ==
    LET new == d.chat[c].it_HistoryId + 1 .. e.chat[c].it_HistoryId IN
    /\ \A v \in Users :
        /\ e.user[v].chatList_HistoryId >= d.user[v].chatList_HistoryId
        /\ v # u => e.user[v].chatList_HistoryId = d.user[v].chatList_HistoryId
    /\ \A k \in Chats :
        /\ e.chat[k].it_HistoryId >= d.chat[k].it_HistoryId
        /\ e.chat[k].lastMsgId >= d.chat[k].lastMsgId
        /\ k # c => /\ e.chat[k].it_HistoryId = d.chat[k].it_HistoryId
                    /\ e.chat[k].lastMsgId = d.chat[k].lastMsgId
    /\ \A k \in Chats, v \in Users :
        \/ e.membership[k][v] = d.membership[k][v]
        \/ /\ k = c /\ v = u
           /\ e.membership[k][v].chat_IncHistoryId \in new
           /\ e.membership[k][v].user_chatList_IncHistoryId
                > d.user[u].chatList_HistoryId
    /\ \A m \in e.message :
        \/ m \in d.message
        \/ /\ m.chatId = c /\ m.id > d.chat[c].lastMsgId
           /\ m.chat_IncHistoryId \in new
        \/ /\ \E n \in d.message : SameMessage(m, n)
           /\ ~m.exists /\ m.text = NoText
           /\ m.chat_IncHistoryId \in new

\* The counters and stamps of a database are numbers.
LEMMA Numbers ==
    ASSUME NEW d \in Database
    PROVE  /\ \A v \in Users : d.user[v].chatList_HistoryId \in Nat
           /\ \A k \in Chats : /\ d.chat[k].it_HistoryId \in Nat
                               /\ d.chat[k].lastMsgId \in Int
                               /\ d.chat[k].lastMsgId >= -1
           /\ \A k \in Chats, v \in Users :
                /\ d.membership[k][v].role \in Roles
                /\ d.membership[k][v].chat_IncHistoryId \in Nat
                /\ d.membership[k][v].user_chatList_IncHistoryId \in Nat
           /\ \A m \in d.message :
                /\ m.chatId \in Chats /\ m.id \in Nat
                /\ m.chat_IncHistoryId \in Nat
                /\ m.exists \in BOOLEAN /\ m.isSystem \in BOOLEAN
                /\ m.senderUserId \in Users \cup {NoUser}
<1>1. /\ d.user \in [Users -> UserRow] /\ d.chat \in [Chats -> ChatRow]
      /\ d.membership \in [Chats -> [Users -> MembershipRow]]
      /\ d.message \subseteq MessageRow
    BY DEF Database
<1>2. \A v \in Users : d.user[v].chatList_HistoryId \in Nat
    BY <1>1 DEF UserRow
<1>3. \A k \in Chats : /\ d.chat[k].it_HistoryId \in Nat
                       /\ d.chat[k].lastMsgId \in Int
                       /\ d.chat[k].lastMsgId >= -1
    BY <1>1 DEF ChatRow
<1>4. \A k \in Chats, v \in Users :
        /\ d.membership[k][v].role \in Roles
        /\ d.membership[k][v].chat_IncHistoryId \in Nat
        /\ d.membership[k][v].user_chatList_IncHistoryId \in Nat
    BY <1>1 DEF MembershipRow
<1>5. \A m \in d.message :
        /\ m.chatId \in Chats /\ m.id \in Nat
        /\ m.chat_IncHistoryId \in Nat
        /\ m.exists \in BOOLEAN /\ m.isSystem \in BOOLEAN
        /\ m.senderUserId \in Users \cup {NoUser}
    BY <1>1 DEF MessageRow
<1> QED
    BY <1>2, <1>3, <1>4, <1>5

\* What moves no counter and no row is one request at most.
LEMMA QuietRequest ==
    ASSUME NEW d \in Database, NEW e, Quiet(d, e),
           NEW u \in Users, NEW c \in Chats
    PROVE  OneRequest(d, e, u, c)
BY Numbers DEF Quiet, OneRequest

\* A change of role stamps the one row.
LEMMA AlterRequest ==
    ASSUME NEW d \in Database, NEW c \in Chats, NEW u \in Users,
           NEW role \in Roles
    PROVE  OneRequest(d, alter_user_chat_role(d, c, u, role), u, c)
<1> DEFINE e == alter_user_chat_role(d, c, u, role)
<1>1. /\ e \in Database
      /\ e.message = d.message
      /\ \A k \in Chats : e.chat[k].lastMsgId = d.chat[k].lastMsgId
      /\ e.chat[c].it_HistoryId = d.chat[c].it_HistoryId + 1
      /\ \A k \in Chats \ {c} : e.chat[k] = d.chat[k]
      /\ e.user[u].chatList_HistoryId = d.user[u].chatList_HistoryId + 1
      /\ \A v \in Users \ {u} : e.user[v] = d.user[v]
      /\ e.membership[c][u].chat_IncHistoryId = d.chat[c].it_HistoryId + 1
      /\ e.membership[c][u].user_chatList_IncHistoryId
           = d.user[u].chatList_HistoryId + 1
      /\ \A k \in Chats, v \in Users :
           k # c \/ v # u => e.membership[k][v] = d.membership[k][v]
    BY AlterFacts
<1> HIDE DEF e
<1>2. OneRequest(d, e, u, c)
  <2>1. /\ \A v \in Users :
            /\ e.user[v].chatList_HistoryId >= d.user[v].chatList_HistoryId
            /\ v # u => e.user[v].chatList_HistoryId = d.user[v].chatList_HistoryId
        /\ \A k \in Chats :
            /\ e.chat[k].it_HistoryId >= d.chat[k].it_HistoryId
            /\ e.chat[k].lastMsgId >= d.chat[k].lastMsgId
            /\ k # c => /\ e.chat[k].it_HistoryId = d.chat[k].it_HistoryId
                        /\ e.chat[k].lastMsgId = d.chat[k].lastMsgId
    BY <1>1, Numbers
  <2>2. /\ e.membership[c][u].chat_IncHistoryId
             \in d.chat[c].it_HistoryId + 1 .. e.chat[c].it_HistoryId
        /\ e.membership[c][u].user_chatList_IncHistoryId
             > d.user[u].chatList_HistoryId
    BY <1>1, Numbers
  <2> QED
    BY <1>1, <2>1, <2>2 DEF OneRequest
<1> QED
    BY <1>2 DEF e

\* A new message takes a new stamp and the next id.
LEMMA InsertRequest ==
    ASSUME NEW d \in Database, NEW c \in Chats, NEW uid \in Users \cup {NoUser},
           NEW text \in Texts \cup SvoText, NEW isSystem \in BOOLEAN, NEW u \in Users
    PROVE  OneRequest(d, insert_new_message(d, uid, c, text, isSystem), u, c)
<1> DEFINE e == insert_new_message(d, uid, c, text, isSystem)
           row == [chatId |-> c, id |-> d.chat[c].lastMsgId + 1,
                   senderUserId |-> IF isSystem THEN NoUser ELSE uid,
                   exists |-> TRUE, isSystem |-> isSystem, text |-> text,
                   chat_IncHistoryId |-> d.chat[c].it_HistoryId + 1]
<1>1. e.user = d.user /\ e.membership = d.membership
      /\ e.message = d.message \cup {row}
    BY DEF insert_new_message
<1>2. /\ row.chatId = c /\ row.id = d.chat[c].lastMsgId + 1
      /\ row.chat_IncHistoryId = d.chat[c].it_HistoryId + 1
    OBVIOUS
<1>3. /\ e.chat[c].lastMsgId = d.chat[c].lastMsgId + 1
      /\ e.chat[c].it_HistoryId = d.chat[c].it_HistoryId + 1
      /\ \A k \in Chats \ {c} : e.chat[k] = d.chat[k]
    BY SMTT(30), InsertFacts
<1> HIDE DEF e, row
<1>4. \A m \in e.message :
        \/ m \in d.message
        \/ /\ m.chatId = c /\ m.id > d.chat[c].lastMsgId
           /\ m.chat_IncHistoryId
                \in d.chat[c].it_HistoryId + 1 .. e.chat[c].it_HistoryId
    BY <1>1, <1>2, <1>3, Numbers
<1> QED
    BY <1>1, <1>3, <1>4, Numbers DEF OneRequest, e

\* An erased message takes a new stamp.
LEMMA EraseRequest ==
    ASSUME NEW d \in Database, NEW c \in Chats, NEW msgId, NEW u \in Users
    PROVE  OneRequest(d, erase_message(d, c, msgId), u, c)
<1> DEFINE e == erase_message(d, c, msgId)
           stamp == d.chat[c].it_HistoryId + 1
           er(m) == [m EXCEPT !.exists = FALSE, !.text = NoText,
                              !.chat_IncHistoryId = stamp]
           new(m) == IF m.id = msgId THEN er(m) ELSE m
<1>1. e.user = d.user /\ e.membership = d.membership
      /\ e.message = {new(m) : m \in d.message}
    BY DEF erase_message
<1>2. /\ \A k \in Chats : e.chat[k].lastMsgId = d.chat[k].lastMsgId
      /\ e.chat[c].it_HistoryId = stamp
      /\ \A k \in Chats \ {c} : e.chat[k] = d.chat[k]
    BY EraseFacts
<1>3. stamp \in d.chat[c].it_HistoryId + 1 .. e.chat[c].it_HistoryId
    BY <1>2, Numbers
<1>4. ASSUME NEW m \in d.message
      PROVE  new(m) \in d.message
             \/ /\ SameMessage(new(m), m)
                /\ ~new(m).exists /\ new(m).text = NoText
                /\ new(m).chat_IncHistoryId = stamp
  <2>1. m \in MessageRow
    BY DEF Database
  <2>2. /\ SameMessage(er(m), m) /\ ~er(m).exists /\ er(m).text = NoText
        /\ er(m).chat_IncHistoryId = stamp
    BY <2>1 DEF MessageRow, SameMessage
  <2> QED
    BY <2>2
<1> HIDE DEF e, stamp, new
<1>5. \A m \in e.message :
        \/ m \in d.message
        \/ /\ \E n \in d.message : SameMessage(m, n)
           /\ ~m.exists /\ m.text = NoText
           /\ m.chat_IncHistoryId
                \in d.chat[c].it_HistoryId + 1 .. e.chat[c].it_HistoryId
    BY <1>1, <1>3, <1>4
<1>6. \A k \in Chats :
        /\ e.chat[k].it_HistoryId >= d.chat[k].it_HistoryId
        /\ k # c => e.chat[k].it_HistoryId = d.chat[k].it_HistoryId
    BY <1>2, <1>3, Numbers
<1> QED
    BY <1>1, <1>2, <1>5, <1>6, Numbers DEF OneRequest, e

\* A role change and the message about it are one request.
LEMMA TwoSteps ==
    ASSUME NEW d \in Database, NEW e \in Database, NEW f \in Database,
           NEW u \in Users, NEW c \in Chats,
           OneRequest(d, e, u, c), e.message = d.message,
           \A k \in Chats : e.chat[k].lastMsgId = d.chat[k].lastMsgId,
           OneRequest(e, f, u, c), f.membership = e.membership
    PROVE  OneRequest(d, f, u, c)
<1>1. /\ e.chat[c].it_HistoryId >= d.chat[c].it_HistoryId
      /\ f.chat[c].it_HistoryId >= e.chat[c].it_HistoryId
    BY DEF OneRequest
<1>2. \A i \in Nat :
        \/ i \in e.chat[c].it_HistoryId + 1 .. f.chat[c].it_HistoryId
        \/ i \in d.chat[c].it_HistoryId + 1 .. e.chat[c].it_HistoryId
        => i \in d.chat[c].it_HistoryId + 1 .. f.chat[c].it_HistoryId
    BY <1>1, Numbers
<1>3. \A v \in Users :
        /\ f.user[v].chatList_HistoryId >= d.user[v].chatList_HistoryId
        /\ v # u => f.user[v].chatList_HistoryId = d.user[v].chatList_HistoryId
    BY Numbers DEF OneRequest
<1>4. \A k \in Chats :
        /\ f.chat[k].it_HistoryId >= d.chat[k].it_HistoryId
        /\ f.chat[k].lastMsgId >= d.chat[k].lastMsgId
        /\ k # c => /\ f.chat[k].it_HistoryId = d.chat[k].it_HistoryId
                    /\ f.chat[k].lastMsgId = d.chat[k].lastMsgId
    BY Numbers DEF OneRequest
<1>5. \A k \in Chats, v \in Users :
        \/ f.membership[k][v] = d.membership[k][v]
        \/ /\ k = c /\ v = u
           /\ f.membership[k][v].chat_IncHistoryId
                \in d.chat[c].it_HistoryId + 1 .. f.chat[c].it_HistoryId
           /\ f.membership[k][v].user_chatList_IncHistoryId
                > d.user[u].chatList_HistoryId
  <2>1. \A k \in Chats, v \in Users :
        \/ e.membership[k][v] = d.membership[k][v]
        \/ /\ k = c /\ v = u
           /\ e.membership[k][v].chat_IncHistoryId
                \in d.chat[c].it_HistoryId + 1 .. e.chat[c].it_HistoryId
           /\ e.membership[k][v].user_chatList_IncHistoryId
                > d.user[u].chatList_HistoryId
    BY DEF OneRequest
  <2>2. \A k \in Chats, v \in Users : e.membership[k][v].chat_IncHistoryId \in Nat
    BY Numbers
  <2> QED
    BY <1>2, <2>1, <2>2
<1>6. \A m \in f.message :
        \/ m \in d.message
        \/ /\ m.chatId = c /\ m.id > d.chat[c].lastMsgId
           /\ m.chat_IncHistoryId
                \in d.chat[c].it_HistoryId + 1 .. f.chat[c].it_HistoryId
        \/ /\ \E n \in d.message : SameMessage(m, n)
           /\ ~m.exists /\ m.text = NoText
           /\ m.chat_IncHistoryId
                \in d.chat[c].it_HistoryId + 1 .. f.chat[c].it_HistoryId
  <2>1. \A m \in f.message :
        \/ m \in d.message
        \/ /\ m.chatId = c /\ m.id > d.chat[c].lastMsgId
           /\ m.chat_IncHistoryId
                \in e.chat[c].it_HistoryId + 1 .. f.chat[c].it_HistoryId
        \/ /\ \E n \in d.message : SameMessage(m, n)
           /\ ~m.exists /\ m.text = NoText
           /\ m.chat_IncHistoryId
                \in e.chat[c].it_HistoryId + 1 .. f.chat[c].it_HistoryId
    BY DEF OneRequest
  <2>2. \A m \in f.message : m.chat_IncHistoryId \in Nat
    BY Numbers
  <2> QED
    BY <1>2, <2>1, <2>2
<1> QED
    BY <1>3, <1>4, <1>5, <1>6 DEF OneRequest

\* A change of role and the system message about it stamp as one request.
LEMMA AlterThenSvoRequest ==
    ASSUME NEW d \in Database, NEW c \in Chats, NEW u \in Users,
           NEW role \in Roles, NEW subject \in Users, NEW verb \in Verbs,
           NEW object \in Users \cup {NoUser}
    PROVE  OneRequest(d, insert_system_message_svo(
                    alter_user_chat_role(d, c, u, role), c, subject, verb, object),
                    u, c)
<1> DEFINE e == alter_user_chat_role(d, c, u, role)
           text == [subject |-> subject, verb |-> verb, object |-> object]
           f == insert_new_message(e, NoUser, c, text, TRUE)
<1>1. /\ e \in Database /\ OneRequest(d, e, u, c) /\ e.message = d.message
      /\ \A k \in Chats : e.chat[k].lastMsgId = d.chat[k].lastMsgId
    BY AlterFacts, AlterRequest
<1>2. text \in SvoText
    BY DEF SvoText
<1> HIDE DEF e, text
<1>6. NoUser \in Users \cup {NoUser} /\ text \in Texts \cup SvoText
      /\ TRUE \in BOOLEAN /\ e \in Database
    BY <1>1, <1>2
<1>7. f \in Database
    BY <1>6, InsertFacts
<1>3. f \in Database /\ f.membership = e.membership
    BY <1>7 DEF insert_new_message
<1>5. OneRequest(e, f, u, c)
    BY <1>1, <1>2, InsertRequest
<1>4. f = insert_system_message_svo(e, c, subject, verb, object)
    BY DEF insert_system_message_svo, text
<1> HIDE DEF f
<1> QED
    BY <1>1, <1>3, <1>4, <1>5, TwoSteps DEF e

\* Every request leaves the histories alone or moves those of one user's list
\* and of one chat.
LEMMA NextIsOneRequest ==
    ASSUME DbInv(db), [Next]_db
    PROVE  Quiet(db, db') \/ \E u \in Users, c \in Chats : OneRequest(db, db', u, c)
<1>0. db \in Database
    BY DEF DbInv
<1>1. ASSUME NEW u \in Users, NEW n \in Nicknames, AddUser(u, n)
      PROVE  Quiet(db, db')
  <2>1. /\ db'.user = [db.user EXCEPT ![u] = [nickname |-> n, chatList_HistoryId |-> 0]]
        /\ db'.chat = db.chat /\ db'.membership = db.membership
        /\ db'.message = db.message
        /\ db.user[u].nickname = NoNickname
    BY <1>1 DEF AddUser, CanAddUser, RegisteredUsers, Commit, add_user, reserve_nickname
  <2>2. db.user \in [Users -> UserRow] /\ db.user[u].chatList_HistoryId = 0
    BY <1>0, <2>1 DEF Database, DbInv, Unborn
  <2> QED
    BY <2>1, <2>2 DEF Quiet
<1>2. ASSUME NEW uid \in Users, NEW c \in Chats, NEW n \in Nicknames,
             CreateChat(uid, c, n)
      PROVE  OneRequest(db, db', uid, c)
  <2> DEFINE e == insert_chat(db, c, n)
             row == [nickname |-> n, it_HistoryId |-> 0, lastMsgId |-> -1]
  <2>1. /\ c \notin CreatedChats(db) /\ ~is_nickname_taken(db, n)
        /\ db' = alter_user_chat_role(e, c, uid, "admin")
    BY <1>2 DEF CreateChat, CanCreateChat, Commit, internalapi_createChat
  <2>2. e \in Database
    BY <2>1, InsertChatInv DEF DbInv
  <2>3. Quiet(db, e)
    <3>1. /\ e.user = db.user /\ e.chat = [db.chat EXCEPT ![c] = row]
          /\ e.membership = db.membership /\ e.message = db.message
      BY DEF insert_chat, reserve_nickname
    <3>2. db.chat \in [Chats -> ChatRow] /\ db.chat[c].it_HistoryId = 0
          /\ db.chat[c].lastMsgId = -1
      BY <1>0, <2>1 DEF Database, DbInv, Unborn, CreatedChats
    <3>3. row.it_HistoryId = 0 /\ row.lastMsgId = -1
      OBVIOUS
    <3> HIDE DEF e, row
    <3> QED
      BY <3>1, <3>2, <3>3 DEF Quiet
  <2>4. "admin" \in Roles
    BY DEF Roles
  <2> HIDE DEF e
  <2>5. OneRequest(e, db', uid, c)
    BY <2>1, <2>2, <2>4, AlterRequest
  <2> QED
    BY <2>3, <2>5 DEF Quiet, OneRequest
<1>3. ASSUME NEW uid \in Users, NEW c \in Chats, NEW alien \in Users,
             NEW makeReadOnly \in BOOLEAN,
             AddMemberToChat(uid, c, alien, makeReadOnly)
      PROVE  OneRequest(db, db', alien, c)
  <2> DEFINE role == IF makeReadOnly THEN "read_only" ELSE "regular"
  <2>1. db' = insert_system_message_svo(
                    alter_user_chat_role(db, c, alien, role),
                    c, uid, "summoned", alien)
    BY <1>3 DEF AddMemberToChat, Commit, internalapi_addMemberToChat
  <2>2. role \in Roles /\ "summoned" \in Verbs
    BY DEF Roles, Verbs
  <2> HIDE DEF role
  <2> QED
    BY <1>0, <2>1, <2>2, AlterThenSvoRequest
<1>4. ASSUME NEW uid \in Users, NEW c \in Chats, NEW badAlien \in Users,
             RemoveMemberFromChat(uid, c, badAlien)
      PROVE  OneRequest(db, db', badAlien, c)
  <2>1. db' = insert_system_message_svo(
                    alter_user_chat_role(db, c, badAlien, "deleted"),
                    c, uid, "kicked", badAlien)
    BY <1>4 DEF RemoveMemberFromChat, Commit, kick_from_chat,
                internalapi_removeMemberFromChat
  <2>2. "deleted" \in Roles /\ "kicked" \in Verbs
    BY DEF Roles, Verbs
  <2> QED
    BY <1>0, <2>1, <2>2, AlterThenSvoRequest
<1>5. ASSUME NEW uid \in Users, NEW c \in Chats, LeaveChat(uid, c)
      PROVE  OneRequest(db, db', uid, c)
  <2>1. db' = insert_system_message_svo(
                    alter_user_chat_role(db, c, uid, "deleted"),
                    c, uid, "left", NoUser)
    BY <1>5 DEF LeaveChat, Commit, kick_from_chat, internalapi_leaveChat
  <2>2. "deleted" \in Roles /\ "left" \in Verbs
    BY DEF Roles, Verbs
  <2> QED
    BY <1>0, <2>1, <2>2, AlterThenSvoRequest
<1>6. ASSUME NEW uid \in Users, NEW c \in Chats, NEW text \in Texts,
             SendMessage(uid, c, text)
      PROVE  OneRequest(db, db', uid, c)
    BY <1>0, <1>6, InsertRequest DEF SendMessage, Commit, internalapi_sendMessage
<1>7. ASSUME NEW uid \in Users, NEW c \in Chats, NEW msgId \in 0 .. MaxHistory,
             DeleteMessage(uid, c, msgId)
      PROVE  OneRequest(db, db', uid, c)
    BY <1>0, <1>7, EraseRequest DEF DeleteMessage, Commit, internalapi_deleteMessage
<1>8. ASSUME UNCHANGED db PROVE Quiet(db, db')
    BY <1>8 DEF Quiet
<1> QED
    BY <1>1, <1>2, <1>3, <1>4, <1>5, <1>6, <1>7, <1>8
       DEF Next, ReadOnlyOrRejectedRequest

-----------------------------------------------------------------------------
(* The histories are stamped stores *)

\* A step moves one user's list at most, and stamps what it changes there.
LEMMA ListStep ==
    ASSUME DbInv(db), DbInv(db'), [Next]_db
    PROVE  [ChatLists!Next]_(ChatLists!vars)
<1> DEFINE hist(d, v) == d.user[v].chatList_HistoryId
           row(d, v, k) == d.membership[k][v].user_chatList_IncHistoryId
           Shown(role) == IF role = "deleted" THEN Absent ELSE role
<1>0. db \in Database /\ db' \in Database
    BY DEF DbInv
<1>1. \A v \in Users, k \in Chats :
        db'.membership[k][v] = db.membership[k][v] =>
            /\ row(db', v, k) = row(db, v, k)
            /\ RoleValue(v, k)' = RoleValue(v, k)
    BY DEF RoleValue, get_role_of_user_in_chat
<1>2. CASE Quiet(db, db')
  <2>1. \A v \in Users : hist(db', v) = hist(db, v)
    BY <1>2 DEF Quiet
  <2>2. \A v \in Users, k \in Chats :
            /\ row(db', v, k) = row(db, v, k)
            /\ RoleValue(v, k)' = RoleValue(v, k)
    BY <1>1, <1>2 DEF Quiet
  <2> QED
    BY <2>1, <2>2 DEF ChatLists!vars
<1>3. CASE \E u \in Users, c \in Chats : OneRequest(db, db', u, c)
  <2> PICK u \in Users, c \in Chats : OneRequest(db, db', u, c)
    BY <1>3
  <2>1. /\ hist(db', u) >= hist(db, u)
        /\ \A v \in Users \ {u} : hist(db', v) = hist(db, v)
    BY DEF OneRequest
  <2>2. \A v \in Users, k \in Chats :
            \/ db'.membership[k][v] = db.membership[k][v]
            \/ v = u /\ row(db', v, k) > hist(db, u)
    BY DEF OneRequest
  <2>3. \A k \in Chats : row(db', u, k) <= hist(db', u)
    BY DEF DbInv, StampsSound
  <2>4. /\ hist(db, u) \in Nat /\ hist(db', u) \in Nat
        /\ \A k \in Chats : row(db', u, k) \in Nat
    BY <1>0, Numbers
  <2> HIDE DEF hist, row
  <2>5. \A v \in Users \ {u}, k \in Chats :
            /\ row(db', v, k) = row(db, v, k)
            /\ RoleValue(v, k)' = RoleValue(v, k)
    BY <1>1, <2>2
  <2>6. \A k \in Chats :
            \/ /\ row(db', u, k) = row(db, u, k)
               /\ RoleValue(u, k)' = RoleValue(u, k)
            \/ row(db', u, k) \in hist(db, u) + 1 .. hist(db', u)
    BY <1>1, <2>2, <2>3, <2>4
  <2>7. CASE hist(db', u) > hist(db, u)
    <3>1. ChatLists!Commit(u)
      BY <2>6, <2>7 DEF ChatLists!Commit, ChatLists!Kept, hist, row
    <3>2. \A t \in Users \ {u} : ChatLists!Untouched(t)
      BY <2>1, <2>5 DEF ChatLists!Untouched, ChatLists!Kept, hist, row
    <3> QED
      BY <3>1, <3>2 DEF ChatLists!Next
  <2>8. CASE hist(db', u) = hist(db, u)
    <3>1. \A v \in Users : hist(db', v) = hist(db, v)
      BY <2>1, <2>8
    <3>2. \A v \in Users, k \in Chats :
            /\ row(db', v, k) = row(db, v, k)
            /\ RoleValue(v, k)' = RoleValue(v, k)
      BY <2>4, <2>5, <2>6, <2>8
    <3> QED
      BY <3>1, <3>2 DEF ChatLists!vars, hist, row
  <2> QED
    BY <2>1, <2>4, <2>7, <2>8
<1> QED
    BY <1>2, <1>3, NextIsOneRequest

\* Every user's list of chats is a stamped store: a poll with any id the
\* server once answered returns all that changed in the list since.
THEOREM ListsAreStamped == Spec => ChatListsAreStamped
<1>1. Init => ChatLists!Init
    BY DEF Init, InitialDb, ChatLists!Init, RoleValue, get_role_of_user_in_chat,
           NoMembership
<1>2. Inv /\ Inv' /\ [Next]_db => [ChatLists!Next]_(ChatLists!vars)
    BY ListStep DEF Inv
<1> QED
    BY <1>1, <1>2, Invariance, PTL
       DEF Spec, ChatListsAreStamped, ChatLists!Spec

\* the message of an id is the one that has it
LEMMA TheMessage ==
    ASSUME NEW d, IdsContiguous(d), NEW c \in Chats, NEW m \in MessagesOf(d, c)
    PROVE  (CHOOSE n \in MessagesOf(d, c) : n.id = m.id) = m
BY DEF IdsContiguous

\* Every message of before is still there, as it was or erased with a new stamp.
LEMMA MessageKept ==
    ASSUME NEW d, NEW e, DbInv(d), DbInv(e), NEW u \in Users, NEW k \in Chats,
           OneRequest(d, e, u, k), NEW c \in Chats, NEW i,
           \E m \in MessagesOf(d, c) : m.id = i
    PROVE  \E n \in MessagesOf(e, c) : n.id = i
<1>1. i \in 0 .. d.chat[c].lastMsgId
    BY DEF DbInv, IdsContiguous
<1>2. i \in 0 .. e.chat[c].lastMsgId
    BY <1>1, Numbers DEF OneRequest, DbInv
<1> QED
    BY <1>2 DEF DbInv, IdsContiguous

\* A site with one chat, where deleteMessage cannot reach into another's.
OneChat == \A c, e \in Chats : c = e

\* Every step of the server appends to the chats' logs, or leaves them.
LEMMA LogStep ==
    ASSUME OneChat, DbInv(db), DbInv(db'), [Next]_db
    PROVE  [ChatLogs!Next]_(ChatLogs!vars)
<1> DEFINE hist(d, c) == d.chat[c].it_HistoryId
           row(d, c, v) == d.membership[c][v].chat_IncHistoryId
           post(c, i) == IF HasMessage(c, i)
                         THEN MessageAt(c, i).chat_IncHistoryId ELSE 0
           stamp(c, k) == IF k \in Users THEN row(db, c, k) ELSE post(c, k)
           stamp2(c, k) == IF k \in Users THEN row(db', c, k) ELSE post(c, k)'
           value(c, k) == IF k \in Users THEN RoleValue(k, c) ELSE MessageValue(c, k)
<1>0. db \in Database /\ db' \in Database
    BY DEF DbInv
<1>1. CASE Quiet(db, db')
  <2>1. \A c \in Chats : hist(db', c) = hist(db, c)
    BY <1>1 DEF Quiet
  <2>2. \A c \in Chats : \A k : stamp2(c, k) = stamp(c, k) /\ value(c, k)' = value(c, k)
    BY <1>1 DEF Quiet, RoleValue, get_role_of_user_in_chat, HasMessage, MessageAt,
                MessageValue, MessagesOf
  <2> QED
    BY <2>1, <2>2 DEF ChatLogs!vars
<1>2. CASE \E u \in Users, c \in Chats : OneRequest(db, db', u, c)
  <2> PICK u \in Users, c \in Chats : OneRequest(db, db', u, c)
    BY <1>2
  <2> DEFINE new == hist(db, c) + 1 .. hist(db', c)
  <2>1. Chats = {c}
    BY DEF OneChat
  <2>2. hist(db', c) >= hist(db, c) /\ hist(db, c) \in Nat /\ hist(db', c) \in Nat
    BY <1>0, Numbers DEF OneRequest
  <2>3. ASSUME NEW k \in Users
        PROVE  \/ stamp2(c, k) = stamp(c, k) /\ value(c, k)' = value(c, k)
               \/ stamp2(c, k) \in new
    <3>1. \/ db'.membership[c][k] = db.membership[c][k]
          \/ row(db', c, k) \in new
      BY DEF OneRequest
    <3>2. db'.membership[c][k] = db.membership[c][k]
            => RoleValue(k, c)' = RoleValue(k, c)
      BY DEF RoleValue, get_role_of_user_in_chat
    <3> QED
      BY <3>1, <3>2
  <2>4. ASSUME NEW i, i \notin Users
        PROVE  \/ stamp2(c, i) = stamp(c, i) /\ value(c, i)' = value(c, i)
               \/ stamp2(c, i) \in new
    <3>1. CASE ~HasMessage(c, i)'
      <4>1. ~HasMessage(c, i)
        BY <3>1, MessageKept DEF HasMessage
      <4> QED
        BY <3>1, <4>1, <2>4 DEF MessageValue
    <3>2. CASE HasMessage(c, i)'
      <4>1. PICK m \in MessagesOf(db', c) : m.id = i
        BY <3>2 DEF HasMessage
      <4>2. MessageAt(c, i)' = m
        BY <4>1, TheMessage DEF MessageAt, DbInv
      <4>3. CASE m \in db.message
        <5>1. m \in MessagesOf(db, c)
          BY <4>3 DEF MessagesOf
        <5>2. HasMessage(c, i) /\ MessageAt(c, i) = m
          BY <4>1, <5>1, TheMessage DEF HasMessage, MessageAt, DbInv
        <5> QED
          BY <3>2, <4>2, <5>2, <2>4 DEF MessageValue
      <4>4. CASE m.chat_IncHistoryId \in new
        BY <3>2, <4>2, <4>4, <2>4
      <4> QED
        BY <4>3, <4>4 DEF OneRequest, MessagesOf
    <3> QED
      BY <3>1, <3>2
  <2> HIDE DEF hist, row, post, stamp, stamp2, value
  <2>5. \A k \in Users \cup MessageIds :
            \/ stamp2(c, k) = stamp(c, k) /\ value(c, k)' = value(c, k)
            \/ stamp2(c, k) \in new
    BY <2>3, <2>4
  <2>6. CASE hist(db', c) > hist(db, c)
    <3>1. ChatLogs!Commit(c)
      BY <2>5, <2>6 DEF ChatLogs!Commit, ChatLogs!Kept, hist, stamp, stamp2, value,
                        row, post
    <3> QED
      BY <3>1, <2>1 DEF ChatLogs!Next
  <2>7. CASE hist(db', c) = hist(db, c)
    <3>1. new = {}
      BY <2>2, <2>7
    <3>2. \A k \in Users \cup MessageIds :
            stamp2(c, k) = stamp(c, k) /\ value(c, k)' = value(c, k)
      BY <2>5, <3>1
    <3> QED
      BY <2>1, <2>7, <3>2 DEF ChatLogs!vars, hist, stamp, stamp2, value, row, post
  <2> QED
    BY <2>2, <2>6, <2>7
<1> QED
    BY <1>1, <1>2, NextIsOneRequest

\* In a site with one chat, the chat's members and messages together are a
\* stamped store: a poll of the chat misses nothing that changed.
THEOREM LogsAreStamped ==
    ASSUME OneChat PROVE Spec => ChatLogsAreStamped
<1>1. Init => ChatLogs!Init
  <2>1. Init => \A c \in Chats : \A i : ~HasMessage(c, i)
    BY DEF Init, InitialDb, HasMessage, MessagesOf
  <2> QED
    BY <2>1 DEF Init, InitialDb, ChatLogs!Init, RoleValue, MessageValue,
                get_role_of_user_in_chat, NoMembership
<1>2. Inv /\ Inv' /\ [Next]_db => [ChatLogs!Next]_(ChatLogs!vars)
    BY LogStep DEF Inv
<1> QED
    BY <1>1, <1>2, Invariance, PTL
       DEF Spec, ChatLogsAreStamped, ChatLogs!Spec

-----------------------------------------------------------------------------
(* The audit trail of a chat *)

NewestVerb(about) ==
    IF about = {} THEN "none"
    ELSE (CHOOSE m \in about : \A n \in about : n.id <= m.id).text.verb

\* what the trail S tells of user u at message id i
Verb(S, u, i) == NewestVerb({m \in S : Concerns(m) = u /\ m.id < i})

\* LastVerb only looks at the messages below the id.
LEMMA VerbBelow ==
    ASSUME NEW S, NEW R, NEW u, NEW i, NEW j,
           {m \in S : m.id < i} = {m \in R : m.id < j}
    PROVE  Verb(S, u, i) = Verb(R, u, j)
<1> DEFINE Below(T, k) == {m \in T : m.id < k}
<1>2. \A T, k : {m \in T : Concerns(m) = u /\ m.id < k}
                   = {m \in Below(T, k) : Concerns(m) = u}
    OBVIOUS
<1>3. Below(S, i) = Below(R, j)
    OBVIOUS
<1> HIDE DEF Below
<1>1. {m \in S : Concerns(m) = u /\ m.id < i}
        = {m \in R : Concerns(m) = u /\ m.id < j}
    BY <1>2, <1>3
<1> QED
    BY <1>1 DEF Verb

\* A new message decides the verb of whom it concerns, and of nobody else.
LEMMA VerbAfter ==
    ASSUME NEW S, NEW row, NEW last \in Int, NEW u, row.id = last + 1,
           \A m \in S : m.id \in Nat /\ m.id <= last
    PROVE  Verb(S \cup {row}, u, last + 2)
             = IF Concerns(row) = u THEN row.text.verb ELSE Verb(S, u, last + 1)
<1>1. {m \in S : m.id < last + 2} = S /\ {m \in S : m.id < last + 1} = S
    OBVIOUS
<1>2. CASE Concerns(row) = u
  <2> DEFINE about == {m \in S \cup {row} : Concerns(m) = u /\ m.id < last + 2}
  <2>1. row \in about /\ \A n \in about : n = row \/ n.id <= last
    BY <1>2
  <2>2. \A m \in about : (\A n \in about : n.id <= m.id) => m = row
    BY <2>1
  <2>3. \A n \in about : n.id <= row.id
    BY <2>1
  <2> HIDE DEF about
  <2>4. (CHOOSE m \in about : \A n \in about : n.id <= m.id) = row
    BY <2>1, <2>2, <2>3
  <2> QED
    BY <1>2, <2>1, <2>4 DEF Verb, NewestVerb, about
<1>3. CASE Concerns(row) # u
  <2>1. {m \in S \cup {row} : Concerns(m) = u /\ m.id < last + 2}
          = {m \in S : Concerns(m) = u /\ m.id < last + 1}
    BY <1>1, <1>3
  <2> QED
    BY <1>3, <2>1 DEF Verb
<1> QED
    BY <1>2, <1>3

\* m is by somebody whom the trail S does not name before it
Nameless(S, m) == Verb(S, Actor(m), m.id) = "none"

TrailOK(d, c) ==
    LET S == {m \in MessagesOf(d, c) : m.isSystem}
        role(u) == get_role_of_user_in_chat(d, u, c)
        verb(u) == Verb(S, u, d.chat[c].lastMsgId + 1)
    IN  /\ \A u \in Users :
            /\ verb(u) = "none" => role(u) \in {"admin", "deleted"}
            /\ verb(u) = "summoned" => role(u) \in {"regular", "read_only"}
            /\ verb(u) \notin {"none", "summoned"} => role(u) = "deleted"
        /\ \A m \in MessagesOf(d, c) :
            /\ Verb(S, Actor(m), m.id) \in {"none", "summoned"}
            /\ m.isSystem /\ m.text.verb # "left" => Nameless(S, m)
        /\ \A m, n \in MessagesOf(d, c) :
            Nameless(S, m) /\ Nameless(S, n) => Actor(m) = Actor(n)
        /\ \A m \in MessagesOf(d, c), u \in Users :
            role(u) = "admin" /\ Nameless(S, m) => Actor(m) = u

\* What the trail says of a membership and of who wrote a message.
LEMMA TrailMeans ==
    (\A c \in CreatedChats(db) : TrailOK(db, c))
        => TrailMatchesMembership /\ TrailJustifiesMessages
<1> SUFFICES ASSUME \A c \in CreatedChats(db) : TrailOK(db, c)
             PROVE  TrailMatchesMembership /\ TrailJustifiesMessages
    OBVIOUS
<1>1. \A c, u, i : LastVerb(c, u, i) = Verb(SystemMessages(c), u, i)
    BY DEF LastVerb, Verb, NewestVerb
<1>2. \A c : SystemMessages(c) = {m \in MessagesOf(db, c) : m.isSystem}
    BY DEF SystemMessages
<1>3. TrailMatchesMembership
  <2> SUFFICES ASSUME NEW c \in CreatedChats(db), NEW u \in Users
               PROVE  LET role == get_role_of_user_in_chat(db, u, c)
                          verb == LastVerb(c, u, db.chat[c].lastMsgId + 1)
                      IN  CASE verb = "none"     -> role \in {"admin", "deleted"}
                            [] verb = "summoned" -> role \in {"regular", "read_only"}
                            [] OTHER             -> role = "deleted"
      BY DEF TrailMatchesMembership
  <2> DEFINE role == get_role_of_user_in_chat(db, u, c)
             verb == LastVerb(c, u, db.chat[c].lastMsgId + 1)
  <2>1. /\ verb = "none" => role \in {"admin", "deleted"}
        /\ verb = "summoned" => role \in {"regular", "read_only"}
        /\ verb \notin {"none", "summoned"} => role = "deleted"
      BY <1>1, <1>2 DEF TrailOK
  <2> HIDE DEF role, verb
  <2>2. (CASE verb = "none"     -> role \in {"admin", "deleted"}
           [] verb = "summoned" -> role \in {"regular", "read_only"}
           [] OTHER             -> role = "deleted")
      BY <2>1
  <2> QED
      BY <2>2 DEF role, verb
<1>4. TrailJustifiesMessages
  <2>1. ASSUME NEW c \in CreatedChats(db), NEW m \in MessagesOf(db, c)
        PROVE  LastVerb(c, Actor(m), m.id)
                 \in IF m.isSystem /\ m.text.verb # "left"
                     THEN {"none"} ELSE {"none", "summoned"}
      BY <1>1, <1>2 DEF TrailOK, Nameless
  <2>2. ASSUME NEW c \in CreatedChats(db), NEW m \in Unannounced(c)
        PROVE  /\ m \in MessagesOf(db, c)
               /\ Nameless({n \in MessagesOf(db, c) : n.isSystem}, m)
      BY <1>1, <1>2 DEF Unannounced, Nameless
  <2>3. ASSUME NEW c \in CreatedChats(db), NEW m \in Unannounced(c)
        PROVE  /\ \A n \in Unannounced(c) : Actor(m) = Actor(n)
               /\ \A u \in Admins(db, c) : Actor(m) = u
      BY <2>2 DEF TrailOK, Admins
  <2> QED
      BY <2>1, <2>3 DEF TrailJustifiesMessages
<1> QED
    BY <1>3, <1>4

\* A request that reports nothing about membership and changes none.
LEMMA TrailKept ==
    ASSUME NEW d, NEW e, DbInv(d), DbInv(e), NEW c \in Chats, TrailOK(d, c),
           \A v \in Users : get_role_of_user_in_chat(e, v, c)
                                = get_role_of_user_in_chat(d, v, c),
           e.chat[c].lastMsgId >= d.chat[c].lastMsgId,
           {m \in MessagesOf(e, c) : m.isSystem}
                = {m \in MessagesOf(d, c) : m.isSystem},
           \A m \in MessagesOf(e, c) : ~m.isSystem =>
                \/ \E n \in MessagesOf(d, c) : SameMessage(m, n)
                \/ /\ m.id = d.chat[c].lastMsgId + 1
                   /\ m.senderUserId \in Users
                   /\ get_role_of_user_in_chat(d, m.senderUserId, c)
                        \notin {"deleted", "read_only"}
    PROVE  TrailOK(e, c)
<1> DEFINE S == {m \in MessagesOf(d, c) : m.isSystem}
           last == d.chat[c].lastMsgId
<1>1. /\ last \in Int /\ e.chat[c].lastMsgId \in Int
      /\ \A m \in S : m.id \in Nat /\ m.id <= last
  <2>1. \A m \in S : m.id \in 0 .. last
    BY DEF DbInv, IdsContiguous
  <2> QED
    BY <2>1, Numbers DEF DbInv
<1>2. {m \in S : m.id < e.chat[c].lastMsgId + 1} = {m \in S : m.id < last + 1}
    BY <1>1
<1>3. \A u : Verb(S, u, e.chat[c].lastMsgId + 1) = Verb(S, u, last + 1)
    BY <1>2, VerbBelow
<1>4. S = {m \in MessagesOf(e, c) : m.isSystem}
    OBVIOUS
<1>5. /\ \A u \in Users :
            LET verb == Verb(S, u, last + 1)
                role == get_role_of_user_in_chat(d, u, c)
            IN  /\ verb = "none" => role \in {"admin", "deleted"}
                /\ verb = "summoned" => role \in {"regular", "read_only"}
                /\ verb \notin {"none", "summoned"} => role = "deleted"
      /\ \A m \in MessagesOf(d, c) :
            /\ Verb(S, Actor(m), m.id) \in {"none", "summoned"}
            /\ m.isSystem /\ m.text.verb # "left" => Nameless(S, m)
      /\ \A m, n \in MessagesOf(d, c) :
            Nameless(S, m) /\ Nameless(S, n) => Actor(m) = Actor(n)
      /\ \A m \in MessagesOf(d, c), u \in Users :
            get_role_of_user_in_chat(d, u, c) = "admin" /\ Nameless(S, m)
                => Actor(m) = u
    BY DEF TrailOK
<1>6. \A u, v \in Users : get_role_of_user_in_chat(d, u, c) = "admin"
            /\ get_role_of_user_in_chat(d, v, c) = "admin" => u = v
    BY DEF DbInv, OneAdmin, get_role_of_user_in_chat
<1>7. ASSUME NEW m \in MessagesOf(e, c)
      PROVE  /\ Verb(S, Actor(m), m.id) \in {"none", "summoned"}
             /\ m.isSystem /\ m.text.verb # "left" => Nameless(S, m)
             /\ Nameless(S, m) =>
                  \/ \E n \in MessagesOf(d, c) : Nameless(S, n) /\ Actor(n) = Actor(m)
                  \/ /\ Actor(m) \in Users
                     /\ get_role_of_user_in_chat(d, Actor(m), c) = "admin"
  <2>1. CASE m.isSystem
    <3>1. m \in MessagesOf(d, c)
      BY <2>1
    <3> QED
      BY <1>5, <3>1
  <2>2. CASE ~m.isSystem /\ \E n \in MessagesOf(d, c) : SameMessage(m, n)
    <3>1. PICK n \in MessagesOf(d, c) : SameMessage(m, n)
      BY <2>2
    <3>2. Actor(m) = Actor(n) /\ m.id = n.id
      BY <2>2, <3>1 DEF SameMessage, Actor
    <3> QED
      BY <1>5, <2>2, <3>2 DEF Nameless
  <2>3. CASE /\ ~m.isSystem
             /\ m.id = last + 1
             /\ m.senderUserId \in Users
             /\ get_role_of_user_in_chat(d, m.senderUserId, c)
                  \notin {"deleted", "read_only"}
    <3>1. Actor(m) = m.senderUserId
      BY <2>3 DEF Actor
    <3> QED
      BY <1>5, <2>3, <3>1 DEF Nameless
  <2> QED
    BY <2>1, <2>2, <2>3
<1> HIDE DEF S, last
<1>8. \A m, n \in MessagesOf(e, c) :
            Nameless(S, m) /\ Nameless(S, n) => Actor(m) = Actor(n)
    BY <1>5, <1>6, <1>7
<1>9. \A m \in MessagesOf(e, c), u \in Users :
            get_role_of_user_in_chat(d, u, c) = "admin" /\ Nameless(S, m)
                => Actor(m) = u
    BY <1>5, <1>6, <1>7
<1> QED
    BY SMTT(30), <1>3, <1>4, <1>5, <1>7, <1>8, <1>9 DEF TrailOK

\* A request that changes the role of u and reports it.
LEMMA TrailTold ==
    ASSUME NEW d, NEW e, DbInv(d), NEW c \in Chats, TrailOK(d, c),
           NEW uid \in Users, NEW u \in Users, NEW role, NEW row,
           \A v \in Users : get_role_of_user_in_chat(e, v, c)
                = IF v = u THEN role ELSE get_role_of_user_in_chat(d, v, c),
           e.chat[c].lastMsgId = d.chat[c].lastMsgId + 1,
           MessagesOf(e, c) = MessagesOf(d, c) \cup {row},
           row.isSystem, row.id = d.chat[c].lastMsgId + 1, Concerns(row) = u,
           row.text.subject = uid,
           row.text.verb \notin {"none", "summoned"} => role = "deleted",
           row.text.verb = "summoned" => role \in {"regular", "read_only"},
           row.text.verb # "none",
           get_role_of_user_in_chat(d, uid, c) # "deleted",
           row.text.verb # "left" => get_role_of_user_in_chat(d, uid, c) = "admin",
           row.text.verb = "left" => uid = u /\ row.text.verb # "summoned"
    PROVE  TrailOK(e, c)
<1> DEFINE S == {m \in MessagesOf(d, c) : m.isSystem}
           R == {m \in MessagesOf(e, c) : m.isSystem}
           last == d.chat[c].lastMsgId
           was(v) == get_role_of_user_in_chat(d, v, c)
           is(v) == get_role_of_user_in_chat(e, v, c)
<1>1. /\ last \in Int /\ \A m \in MessagesOf(d, c) : m.id \in Nat /\ m.id <= last
  <2>1. \A m \in MessagesOf(d, c) : m.id \in 0 .. last
    BY DEF DbInv, IdsContiguous
  <2> QED
    BY <2>1, Numbers DEF DbInv
<1>2. R = S \cup {row}
    OBVIOUS
<1>3. ASSUME NEW v
      PROVE  Verb(R, v, last + 2)
                = IF v = u THEN row.text.verb ELSE Verb(S, v, last + 1)
  <2>1. \A m \in S : m.id \in Nat /\ m.id <= last
    BY <1>1
  <2>2. last \in Int /\ row.id = last + 1
    BY <1>1
  <2> HIDE DEF S, R, last
  <2>3. Verb(S \cup {row}, v, last + 2)
          = IF Concerns(row) = v THEN row.text.verb ELSE Verb(S, v, last + 1)
    BY <2>1, <2>2, VerbAfter
  <2> QED
    BY <1>2, <2>3
<1>4. ASSUME NEW i \in Int, i <= last + 1, NEW v PROVE Verb(R, v, i) = Verb(S, v, i)
  <2>1. {m \in R : m.id < i} = {m \in S : m.id < i}
    BY <1>1, <1>2, <1>4
  <2> QED
    BY <2>1, VerbBelow
<1>5. /\ \A v \in Users :
            /\ Verb(S, v, last + 1) = "none" => was(v) \in {"admin", "deleted"}
            /\ Verb(S, v, last + 1) = "summoned" => was(v) \in {"regular", "read_only"}
            /\ Verb(S, v, last + 1) \notin {"none", "summoned"} => was(v) = "deleted"
      /\ \A m \in MessagesOf(d, c) :
            /\ Verb(S, Actor(m), m.id) \in {"none", "summoned"}
            /\ m.isSystem /\ m.text.verb # "left" => Nameless(S, m)
      /\ \A m, n \in MessagesOf(d, c) :
            Nameless(S, m) /\ Nameless(S, n) => Actor(m) = Actor(n)
      /\ \A m \in MessagesOf(d, c), v \in Users :
            was(v) = "admin" /\ Nameless(S, m) => Actor(m) = v
    BY DEF TrailOK
<1>6. \A v \in Users : is(v) = IF v = u THEN role ELSE was(v)
    OBVIOUS
<1>7. \A v, w \in Users : was(v) = "admin" /\ was(w) = "admin" => v = w
    BY DEF DbInv, OneAdmin, get_role_of_user_in_chat
<1> HIDE DEF S, R, was, is
<1>8. ASSUME NEW v \in Users
      PROVE  /\ Verb(R, v, last + 2) = "none" => is(v) \in {"admin", "deleted"}
             /\ Verb(R, v, last + 2) = "summoned" => is(v) \in {"regular", "read_only"}
             /\ Verb(R, v, last + 2) \notin {"none", "summoned"} => is(v) = "deleted"
    BY <1>3, <1>5, <1>6
<1>9. ASSUME NEW m \in MessagesOf(e, c)
      PROVE  /\ Verb(R, Actor(m), m.id) \in {"none", "summoned"}
             /\ m.isSystem /\ m.text.verb # "left" => Nameless(R, m)
             /\ Nameless(R, m) =>
                  \/ m \in MessagesOf(d, c) /\ Nameless(S, m)
                  \/ Actor(m) = uid /\ was(uid) = "admin"
  <2>1. CASE m \in MessagesOf(d, c)
    <3>1. m.id \in Int /\ m.id <= last + 1
      BY <1>1, <2>1
    <3>2. Verb(R, Actor(m), m.id) = Verb(S, Actor(m), m.id)
      BY <1>4, <3>1
    <3> QED
      BY <1>5, <2>1, <3>2 DEF Nameless
  <2>2. CASE m = row
    <3>1. Verb(R, uid, m.id) = Verb(S, uid, last + 1)
      BY <1>1, <1>4, <2>2
    <3>2. was(uid) # "deleted" /\ (m.text.verb # "left" => was(uid) = "admin")
      BY <2>2 DEF was
    <3>3. Actor(m) = uid
      BY <2>2 DEF Actor
    <3> QED
      BY <1>5, <2>2, <3>1, <3>2, <3>3 DEF Nameless
  <2> QED
    BY <2>1, <2>2
<1>10. ASSUME NEW v \in Users, is(v) = "admin" PROVE was(v) = "admin"
    BY <1>6, <1>10
<1>11. \A m, n \in MessagesOf(e, c) :
            Nameless(R, m) /\ Nameless(R, n) => Actor(m) = Actor(n)
    BY <1>5, <1>7, <1>9
<1>12. \A m \in MessagesOf(e, c), v \in Users :
            is(v) = "admin" /\ Nameless(R, m) => Actor(m) = v
    BY <1>5, <1>7, <1>9, <1>10
<1>13. e.chat[c].lastMsgId + 1 = last + 2
    BY <1>1
<1> QED
    BY <1>8, <1>9, <1>11, <1>12, <1>13 DEF TrailOK, R, is

TrailsOK(d) == \A c \in CreatedChats(d) : TrailOK(d, c)

\* The message that is put in is the last one.
LEMMA InsertedLast ==
    ASSUME NEW d \in Database, NEW c \in Chats, NEW e,
           e.chat = [d.chat EXCEPT
                        ![c].lastMsgId = d.chat[c].lastMsgId + 1,
                        ![c].it_HistoryId = d.chat[c].it_HistoryId + 1]
    PROVE  e.chat[c].lastMsgId = d.chat[c].lastMsgId + 1
<1>1. d.chat \in [Chats -> ChatRow]
    BY DEF Database
<1> QED
    BY <1>1 DEF ChatRow

\* A role change of u, reported by uid.
LEMMA TrailSvo ==
    ASSUME NEW d, DbInv(d), TrailsOK(d), NEW c \in Chats, OneChat,
           NEW uid \in Users, NEW u \in Users, NEW role \in Roles,
           NEW verb \in Verbs, NEW object \in Users \cup {NoUser},
           u = (IF verb = "left" THEN uid ELSE object),
           verb = "summoned" => role \in {"regular", "read_only"},
           verb # "summoned" => role = "deleted",
           get_role_of_user_in_chat(d, uid, c) # "deleted",
           verb # "left" => get_role_of_user_in_chat(d, uid, c) = "admin"
    PROVE  TrailsOK(insert_system_message_svo(
                        alter_user_chat_role(d, c, u, role), c, uid, verb, object))
<1> DEFINE b == alter_user_chat_role(d, c, u, role)
           text == [subject |-> uid, verb |-> verb, object |-> object]
           e == insert_system_message_svo(b, c, uid, verb, object)
           row == [chatId |-> c, id |-> b.chat[c].lastMsgId + 1,
                   senderUserId |-> NoUser, exists |-> TRUE, isSystem |-> TRUE,
                   text |-> text, chat_IncHistoryId |-> b.chat[c].it_HistoryId + 1]
<1>0. d \in Database
    BY DEF DbInv
<1>1. /\ b \in Database /\ b.message = d.message
      /\ b.chat[c].lastMsgId = d.chat[c].lastMsgId
    BY <1>0, AlterFacts
<1>2. /\ text \in SvoText /\ text.subject = uid /\ text.verb = verb
      /\ text.object = object
    BY DEF SvoText
<1>3. /\ row.isSystem /\ row.id = b.chat[c].lastMsgId + 1 /\ row.text = text
      /\ row.chatId = c
    OBVIOUS
<1> HIDE DEF b, text
<1>4. e = insert_new_message(b, NoUser, c, text, TRUE)
    BY DEF insert_system_message_svo, text
<1>5. e.message = b.message \cup {row}
    BY <1>4 DEF insert_new_message
<1>6. e.chat[c].lastMsgId = d.chat[c].lastMsgId + 1
  <2>1. e.chat = [b.chat EXCEPT
                    ![c].lastMsgId = b.chat[c].lastMsgId + 1,
                    ![c].it_HistoryId = b.chat[c].it_HistoryId + 1]
    BY <1>4 DEF insert_new_message
  <2> HIDE DEF e
  <2> QED
    BY <1>1, <2>1, InsertedLast
<1> HIDE DEF row
<1>7. MessagesOf(e, c) = MessagesOf(d, c) \cup {row}
    BY <1>1, <1>3, <1>5 DEF MessagesOf
<1>8. \A v \in Users : get_role_of_user_in_chat(e, v, c)
            = IF v = u THEN role ELSE get_role_of_user_in_chat(d, v, c)
    BY <1>0, RolesAfterAlterThenSvo DEF b
<1>9. c \in CreatedChats(d)
    BY MemberExists
<1>10. TrailOK(d, c)
    BY <1>9 DEF TrailsOK
<1>11. Concerns(row) = u
    BY <1>2, <1>3 DEF Concerns
<1>12. /\ row.text.verb = verb /\ row.text.subject = uid
       /\ row.id = d.chat[c].lastMsgId + 1 /\ row.isSystem
    BY <1>1, <1>2, <1>3
<1>13. verb # "none" /\ (verb = "left" => uid = u /\ verb # "summoned")
    BY DEF Verbs
<1> HIDE DEF e
<1>14. TrailOK(e, c)
    BY SMTT(30), <1>6, <1>7, <1>8, <1>10, <1>11, <1>12, <1>13, TrailTold
<1>15. \A k \in CreatedChats(e) : k = c
    BY DEF OneChat, CreatedChats
<1> QED
    BY <1>14, <1>15 DEF TrailsOK, e, b

\* Every request of the server keeps the trails in order.
LEMMA TrailNext ==
    ASSUME OneChat, DbInv(db), DbInv(db'), TrailsOK(db), [Next]_db
    PROVE  TrailsOK(db')
<1>0. db \in Database
    BY DEF DbInv
<1>1. ASSUME NEW u \in Users, NEW n \in Nicknames, AddUser(u, n)
      PROVE  TrailsOK(db')
  <2>1. /\ db'.chat = db.chat /\ db'.membership = db.membership
        /\ db'.message = db.message
    BY <1>1 DEF AddUser, Commit, add_user, reserve_nickname
  <2> SUFFICES ASSUME NEW c \in CreatedChats(db') PROVE TrailOK(db', c)
    BY DEF TrailsOK
  <2>2. c \in CreatedChats(db) /\ c \in Chats
    BY <2>1 DEF CreatedChats
  <2>3. /\ MessagesOf(db', c) = MessagesOf(db, c)
        /\ db'.chat[c].lastMsgId >= db.chat[c].lastMsgId
        /\ \A m \in MessagesOf(db, c) : SameMessage(m, m)
    BY <1>0, <2>1, <2>2, Numbers DEF MessagesOf, SameMessage
  <2>4. \A v \in Users : get_role_of_user_in_chat(db', v, c)
                            = get_role_of_user_in_chat(db, v, c)
    BY <2>1 DEF get_role_of_user_in_chat
  <2> QED
    BY <2>2, <2>3, <2>4, TrailKept DEF TrailsOK
<1>2. ASSUME NEW uid \in Users, NEW c \in Chats, NEW n \in Nicknames,
             CreateChat(uid, c, n)
      PROVE  TrailsOK(db')
  <2> DEFINE e == insert_chat(db, c, n)
  <2>1. /\ c \notin CreatedChats(db) /\ ~is_nickname_taken(db, n)
        /\ db' = alter_user_chat_role(e, c, uid, "admin")
    BY <1>2 DEF CreateChat, CanCreateChat, Commit, internalapi_createChat
  <2>2. /\ e \in Database /\ e.message = db.message
        /\ \A v \in Users : e.membership[c][v] = NoMembership
    BY <2>1, InsertChatInv DEF DbInv, insert_chat, reserve_nickname
  <2>3. "admin" \in Roles
    BY DEF Roles
  <2> HIDE DEF e
  <2>4. db'.message = {}
    <3>1. db.message = {}
      BY <2>1, <1>0, Numbers DEF DbInv, ReferencesHold, OneChat, CreatedChats
    <3> QED
      BY <2>1, <2>2, <2>3, <3>1, AlterFacts
  <2>5. \A v \in Users : get_role_of_user_in_chat(db', v, c) \in {"admin", "deleted"}
    BY <2>1, <2>2, <2>3, RolesAfterAlter DEF get_role_of_user_in_chat, NoMembership
  <2>6. MessagesOf(db', c) = {}
    BY <2>4 DEF MessagesOf
  <2>7. \A u, i : Verb({}, u, i) = "none"
    BY DEF Verb, NewestVerb
  <2>8. TrailOK(db', c)
    BY <2>5, <2>6, <2>7 DEF TrailOK
  <2> QED
    BY <2>8 DEF TrailsOK, OneChat, CreatedChats
<1>3. ASSUME NEW uid \in Users, NEW c \in Chats, NEW alien \in Users,
             NEW makeReadOnly \in BOOLEAN,
             AddMemberToChat(uid, c, alien, makeReadOnly)
      PROVE  TrailsOK(db')
  <2> DEFINE role == IF makeReadOnly THEN "read_only" ELSE "regular"
  <2>1. /\ get_role_of_user_in_chat(db, uid, c) = "admin"
        /\ db' = insert_system_message_svo(
                    alter_user_chat_role(db, c, alien, role),
                    c, uid, "summoned", alien)
    BY <1>3 DEF AddMemberToChat, CanAddMember, Commit, internalapi_addMemberToChat
  <2>2. role \in Roles /\ role \in {"read_only", "regular"} /\ "summoned" \in Verbs
    BY DEF Roles, Verbs
  <2> HIDE DEF role
  <2> QED
    BY <2>1, <2>2, TrailSvo
<1>4. ASSUME NEW uid \in Users, NEW c \in Chats, NEW badAlien \in Users,
             RemoveMemberFromChat(uid, c, badAlien)
      PROVE  TrailsOK(db')
  <2>1. /\ get_role_of_user_in_chat(db, uid, c) = "admin"
        /\ db' = insert_system_message_svo(
                    alter_user_chat_role(db, c, badAlien, "deleted"),
                    c, uid, "kicked", badAlien)
    BY <1>4 DEF RemoveMemberFromChat, CanRemoveMember, Commit, kick_from_chat,
                internalapi_removeMemberFromChat
  <2>2. "deleted" \in Roles /\ "kicked" \in Verbs
    BY DEF Roles, Verbs
  <2> QED
    BY <2>1, <2>2, TrailSvo
<1>5. ASSUME NEW uid \in Users, NEW c \in Chats, LeaveChat(uid, c)
      PROVE  TrailsOK(db')
  <2>1. /\ get_role_of_user_in_chat(db, uid, c) # "deleted"
        /\ db' = insert_system_message_svo(
                    alter_user_chat_role(db, c, uid, "deleted"),
                    c, uid, "left", NoUser)
    BY <1>5 DEF LeaveChat, CanLeave, Commit, kick_from_chat, internalapi_leaveChat
  <2>2. "deleted" \in Roles /\ "left" \in Verbs
    BY DEF Roles, Verbs
  <2> QED
    BY <2>1, <2>2, TrailSvo
<1>6. ASSUME NEW c \in Chats, TrailOK(db, c) \/ MessagesOf(db, c) = {},
             c \in CreatedChats(db),
             db'.membership = db.membership,
             db'.chat[c].lastMsgId >= db.chat[c].lastMsgId,
             {m \in MessagesOf(db', c) : m.isSystem}
                = {m \in MessagesOf(db, c) : m.isSystem},
             \A m \in MessagesOf(db', c) : ~m.isSystem =>
                \/ \E n \in MessagesOf(db, c) : SameMessage(m, n)
                \/ /\ m.id = db.chat[c].lastMsgId + 1
                   /\ m.senderUserId \in Users
                   /\ get_role_of_user_in_chat(db, m.senderUserId, c)
                        \notin {"deleted", "read_only"}
      PROVE  TrailsOK(db')
  <2>1. \A v \in Users : get_role_of_user_in_chat(db', v, c)
                            = get_role_of_user_in_chat(db, v, c)
    BY <1>6 DEF get_role_of_user_in_chat
  <2>2. TrailOK(db, c)
    BY <1>6 DEF TrailsOK
  <2>3. TrailOK(db', c)
    BY <1>6, <2>1, <2>2, TrailKept
  <2> QED
    BY <2>3 DEF TrailsOK, OneChat, CreatedChats
<1>7. ASSUME NEW uid \in Users, NEW c \in Chats, NEW text \in Texts,
             SendMessage(uid, c, text)
      PROVE  TrailsOK(db')
  <2> DEFINE row == [chatId |-> c, id |-> db.chat[c].lastMsgId + 1,
                     senderUserId |-> uid, exists |-> TRUE, isSystem |-> FALSE,
                     text |-> text,
                     chat_IncHistoryId |-> db.chat[c].it_HistoryId + 1]
  <2>1. /\ get_role_of_user_in_chat(db, uid, c) \notin {"deleted", "read_only"}
        /\ db' = insert_new_message(db, uid, c, text, FALSE)
    BY <1>7 DEF SendMessage, CanSendMessage, Commit, internalapi_sendMessage
  <2>2. /\ db'.message = db.message \cup {row} /\ db'.membership = db.membership
    BY <2>1 DEF insert_new_message
  <2>3. /\ row.chatId = c /\ row.id = db.chat[c].lastMsgId + 1
        /\ ~row.isSystem /\ row.senderUserId = uid
    OBVIOUS
  <2>4. db'.chat[c].lastMsgId = db.chat[c].lastMsgId + 1
    <3>1. db'.chat = [db.chat EXCEPT
                        ![c].lastMsgId = db.chat[c].lastMsgId + 1,
                        ![c].it_HistoryId = db.chat[c].it_HistoryId + 1]
      BY <2>1 DEF insert_new_message
    <3> QED
      BY <1>0, <3>1, InsertedLast
  <2>5. c \in CreatedChats(db)
    BY <2>1, MemberExists
  <2> HIDE DEF row
  <2>6. MessagesOf(db', c) = MessagesOf(db, c) \cup {row}
    BY <2>2, <2>3 DEF MessagesOf
  <2>7. db'.chat[c].lastMsgId >= db.chat[c].lastMsgId
    BY <1>0, <2>4, Numbers
  <2>8. \A m \in MessagesOf(db, c) : SameMessage(m, m)
    BY DEF SameMessage
  <2> QED
    BY <1>6, <2>1, <2>2, <2>3, <2>5, <2>6, <2>7, <2>8 DEF TrailsOK
<1>8. ASSUME NEW uid \in Users, NEW c \in Chats, NEW msgId \in 0 .. MaxHistory,
             DeleteMessage(uid, c, msgId)
      PROVE  TrailsOK(db')
  <2> DEFINE er(m) == [m EXCEPT !.exists = FALSE, !.text = NoText,
                         !.chat_IncHistoryId = db.chat[c].it_HistoryId + 1]
             new(m) == IF m.id = msgId THEN er(m) ELSE m
  <2>1. /\ get_role_of_user_in_chat(db, uid, c) # "deleted"
        /\ \E m \in MessagesOf(db, c) : m.id = msgId /\ ~m.isSystem
        /\ db' = erase_message(db, c, msgId)
    BY <1>8 DEF DeleteMessage, CanDeleteMessage, Commit, internalapi_deleteMessage
  <2>2. /\ db'.message = {new(m) : m \in db.message}
        /\ db'.membership = db.membership
    BY <2>1 DEF erase_message
  <2>3. db'.chat[c].lastMsgId >= db.chat[c].lastMsgId
    BY <1>0, <2>1, EraseFacts, Numbers
  <2>4. c \in CreatedChats(db)
    BY <2>1, MemberExists
  <2>5. \A m \in db.message : m.chatId = c
    BY <1>0, Numbers DEF OneChat
  <2>6. \A m \in db.message : m.id = msgId => ~m.isSystem
    BY <2>1, <2>5 DEF DbInv, IdsContiguous, MessagesOf
  <2>7. ASSUME NEW m \in db.message
        PROVE  /\ SameMessage(new(m), m) /\ new(m).chatId = c
               /\ m.isSystem => new(m) = m
    <3>1. m \in MessageRow
      BY <1>0 DEF Database
    <3>2. SameMessage(er(m), m)
      BY <3>1 DEF MessageRow, SameMessage
    <3> QED
      BY <2>5, <2>6, <3>2 DEF SameMessage
  <2> HIDE DEF new
  <2>8. MessagesOf(db, c) = db.message /\ MessagesOf(db', c) = db'.message
    BY <2>2, <2>5, <2>7 DEF MessagesOf
  <2>9. {m \in MessagesOf(db', c) : m.isSystem}
            = {m \in MessagesOf(db, c) : m.isSystem}
    BY <2>2, <2>7, <2>8 DEF SameMessage
  <2>10. \A m \in MessagesOf(db', c) : \E n \in MessagesOf(db, c) : SameMessage(m, n)
    BY <2>2, <2>7, <2>8
  <2> QED
    BY <1>6, <2>2, <2>3, <2>4, <2>9, <2>10 DEF TrailsOK
<1>9. ASSUME UNCHANGED db PROVE TrailsOK(db')
    BY <1>9
<1> QED
    BY <1>1, <1>2, <1>3, <1>4, <1>5, <1>7, <1>8, <1>9
       DEF Next, ReadOnlyOrRejectedRequest

\* The invariant, with the trails.
LEMMA TrailInvariance ==
    ASSUME OneChat PROVE Spec => [](Inv /\ TrailsOK(db))
<1>1. Init => Inv
    BY InitialInv DEF Init, Inv
<1>2. Init => TrailsOK(db)
    BY DEF Init, InitialDb, TrailsOK, CreatedChats
<1>3. Inv /\ Inv' /\ TrailsOK(db) /\ [Next]_db => TrailsOK(db)'
    BY TrailNext DEF Inv
<1> QED
    BY <1>1, <1>2, <1>3, Invariance, PTL DEF Spec

\* In a site with one chat, the chat's system messages always tell who is in,
\* and who of those who are in is not the admin.
THEOREM TrailTellsWhoIsIn ==
    ASSUME OneChat PROVE Spec => []TrailMatchesMembership
<1>1. TrailsOK(db) => TrailMatchesMembership
    BY TrailMeans DEF TrailsOK
<1> QED
    BY <1>1, TrailInvariance, PTL

\* And whoever wrote, left, kicked or summoned was in by that account: last
\* summoned, or the one user who did anything without having been named, who
\* alone kicks and summons and who is the admin if there is one.
THEOREM TrailTellsWhoMayWrite ==
    ASSUME OneChat PROVE Spec => []TrailJustifiesMessages
<1>1. TrailsOK(db) => TrailJustifiesMessages
    BY TrailMeans DEF TrailsOK
<1> QED
    BY <1>1, TrailInvariance, PTL

-----------------------------------------------------------------------------
(* The calls of a page in flight, for the modules that put a page around   *)
(* the server: s is the sequence of its calls, here the page's history id  *)
(* and last the server's.                                                  *)

\* a call the server has answered, and not with an error
Heard(call, pending, refused) == call.answer \notin {pending, refused}

CallsTyped(s, pending, refused) ==
    \A i \in 1 .. Len(s) :
        /\ s[i].LocalHistoryId \in Nat
        /\ Heard(s[i], pending, refused) => s[i].answer.HistoryId \in Nat

\* As long as calls do not overtake each other: no call asks from beyond the
\* page, those answered are the oldest, and their answers bring the page
\* forward, in the order they will arrive.
CallsInTurn(s, here, last, pending, refused) ==
    /\ here <= last
    /\ \A i \in 1 .. Len(s) :
        /\ s[i].LocalHistoryId <= here
        /\ Heard(s[i], pending, refused) =>
            here <= s[i].answer.HistoryId /\ s[i].answer.HistoryId <= last
    /\ \A i, j \in 1 .. Len(s) : i < j =>
        /\ s[j].answer # pending => s[i].answer # pending
        /\ Heard(s[i], pending, refused) /\ Heard(s[j], pending, refused)
            => s[i].answer.HistoryId <= s[j].answer.HistoryId

\* what is left when one element of a sequence goes
LEMMA RemoveAtFacts ==
    ASSUME NEW S, NEW s \in Seq(S), NEW i \in 1 .. Len(s)
    PROVE  /\ RemoveAt(s, i) \in Seq(S)
           /\ Len(RemoveAt(s, i)) = Len(s) - 1
           /\ \A j \in 1 .. Len(s) - 1 :
                RemoveAt(s, i)[j] = IF j < i THEN s[j] ELSE s[j + 1]
<1> DEFINE a == SubSeq(s, 1, i - 1)
           b == SubSeq(s, i + 1, Len(s))
<1>1. /\ a \in Seq(S) /\ Len(a) = i - 1
      /\ \A j \in 1 .. i - 1 : a[j] = s[j]
    OBVIOUS
<1>2. /\ b \in Seq(S) /\ Len(b) = Len(s) - i
      /\ \A j \in 1 .. Len(s) - i : b[j] = s[i + j]
    OBVIOUS
<1>3. RemoveAt(s, i) = a \o b
    BY DEF RemoveAt
<1> HIDE DEF a, b
<1>6. Len(s) \in Nat /\ i \in Nat
    OBVIOUS
<1>4. a \o b \in Seq(S) /\ Len(a \o b) = Len(s) - 1
  <2>1. a \o b \in Seq(S) /\ Len(a \o b) = Len(a) + Len(b)
    BY <1>1, <1>2, ConcatProperties
  <2> QED
    BY <1>1, <1>2, <1>6, <2>1
<1>5. ASSUME NEW j \in 1 .. Len(s) - 1
      PROVE  (a \o b)[j] = IF j < i THEN s[j] ELSE s[j + 1]
  <2>3. \A k \in 1 .. Len(a) + Len(b) :
            (a \o b)[k] = IF k <= Len(a) THEN a[k] ELSE b[k - Len(a)]
    BY <1>1, <1>2, ConcatProperties
  <2>1. CASE j < i
    BY <1>1, <1>2, <1>6, <2>1, <2>3
  <2>2. CASE j >= i
    <3>1. (a \o b)[j] = b[j - (i - 1)]
      BY <1>1, <1>2, <1>6, <2>2, <2>3
    <3>2. j - (i - 1) \in 1 .. Len(s) - i /\ i + (j - (i - 1)) = j + 1
      BY <2>2
    <3> QED
      BY <1>2, <2>2, <3>1, <3>2
  <2>4. j < i \/ j >= i
    BY <1>6
  <2> QED
    BY <1>6, <2>1, <2>2, <2>4
<1> QED
    BY <1>3, <1>4, <1>5

\* A lost call leaves the others in their order.
LEMMA InTurnRemove ==
    ASSUME NEW S, NEW s \in Seq(S), NEW i \in 1 .. Len(s),
           NEW here \in Nat, NEW last \in Nat, NEW pending, NEW refused,
           CallsTyped(s, pending, refused),
           CallsInTurn(s, here, last, pending, refused)
    PROVE  /\ CallsTyped(RemoveAt(s, i), pending, refused)
           /\ CallsInTurn(RemoveAt(s, i), here, last, pending, refused)
<1> DEFINE r == RemoveAt(s, i)
           from(j) == IF j < i THEN j ELSE j + 1
<1>1. Len(r) = Len(s) - 1 /\ Len(s) \in Nat
    BY RemoveAtFacts
<1>2. \A j \in 1 .. Len(r) : from(j) \in 1 .. Len(s) /\ r[j] = s[from(j)]
    BY <1>1, RemoveAtFacts
<1>3. \A j, k \in 1 .. Len(r) : j < k => from(j) < from(k)
    BY <1>1
<1> HIDE DEF r, from
<1>4. CallsTyped(r, pending, refused)
    BY <1>2 DEF CallsTyped
<1>5. CallsInTurn(r, here, last, pending, refused)
    BY <1>2, <1>3 DEF CallsInTurn
<1> QED
    BY <1>4, <1>5 DEF r

\* What remains of a sequence was in it.
LEMMA Remain ==
    ASSUME NEW S, NEW s \in Seq(S), NEW i \in 1 .. Len(s)
    PROVE  \A j \in 1 .. Len(RemoveAt(s, i)) :
                \E k \in 1 .. Len(s) : RemoveAt(s, i)[j] = s[k]
<1> DEFINE r == RemoveAt(s, i)
<1>1. /\ Len(r) = Len(s) - 1 /\ Len(s) \in Nat
      /\ \A j \in 1 .. Len(s) - 1 : r[j] = IF j < i THEN s[j] ELSE s[j + 1]
    BY RemoveAtFacts
<1> HIDE DEF r
<1>2. \A j \in 1 .. Len(r) : j \in 1 .. Len(s) /\ j + 1 \in 1 .. Len(s)
    BY <1>1
<1> QED
    BY <1>1, <1>2 DEF r

\* The first answer arrives: the page moves to its history id.
LEMMA InTurnDeliver ==
    ASSUME NEW S, NEW s \in Seq(S), 1 \in 1 .. Len(s),
           NEW here \in Nat, NEW last \in Nat, NEW pending, NEW refused,
           CallsTyped(s, pending, refused), Heard(s[1], pending, refused),
           CallsInTurn(s, here, last, pending, refused)
    PROVE  /\ CallsTyped(RemoveAt(s, 1), pending, refused)
           /\ CallsInTurn(RemoveAt(s, 1), s[1].answer.HistoryId, last,
                          pending, refused)
<1> DEFINE r == RemoveAt(s, 1)
           now == s[1].answer.HistoryId
<1>1. Len(r) = Len(s) - 1 /\ Len(s) \in Nat
    BY RemoveAtFacts
<1>2. \A j \in 1 .. Len(r) : j + 1 \in 1 .. Len(s) /\ r[j] = s[j + 1]
    BY <1>1, RemoveAtFacts
<1>3. /\ CallsTyped(r, pending, refused)
      /\ CallsInTurn(r, here, last, pending, refused)
    BY InTurnRemove
<1>4. now \in Nat /\ here <= now /\ now <= last
    BY DEF CallsTyped, CallsInTurn
<1>5. \A j \in 1 .. Len(r) :
        Heard(r[j], pending, refused) => now <= r[j].answer.HistoryId
    BY <1>1, <1>2 DEF CallsInTurn
<1> HIDE DEF r, now
<1>6. \A j \in 1 .. Len(r) : r[j].LocalHistoryId <= now
    BY <1>3, <1>4 DEF CallsInTurn, CallsTyped
<1>7. CallsInTurn(r, now, last, pending, refused)
    BY <1>3, <1>4, <1>5, <1>6 DEF CallsInTurn
<1> QED
    BY <1>3, <1>7 DEF r, now

\* The page makes a call.
LEMMA InTurnAppend ==
    ASSUME NEW S, NEW s \in Seq(S), NEW call \in S,
           NEW here \in Nat, NEW last \in Nat, NEW pending, NEW refused,
           CallsTyped(s, pending, refused),
           CallsInTurn(s, here, last, pending, refused),
           call.LocalHistoryId = here, call.answer = pending
    PROVE  /\ CallsTyped(Append(s, call), pending, refused)
           /\ CallsInTurn(Append(s, call), here, last, pending, refused)
<1> DEFINE r == Append(s, call)
<1>1. /\ Len(r) = Len(s) + 1 /\ Len(s) \in Nat
      /\ \A j \in 1 .. Len(s) : r[j] = s[j]
      /\ r[Len(s) + 1] = call
    OBVIOUS
<1> HIDE DEF r
<1>2. \A j \in 1 .. Len(r) : j \in 1 .. Len(s) \/ j = Len(s) + 1
    BY <1>1
<1>3. CallsTyped(r, pending, refused)
    BY <1>1, <1>2 DEF CallsTyped, Heard
<1>4. CallsInTurn(r, here, last, pending, refused)
    BY SMTT(30), <1>1, <1>2 DEF CallsInTurn, Heard
<1> QED
    BY <1>3, <1>4 DEF r

\* The server answers the oldest call that waits.
LEMMA InTurnAnswer ==
    ASSUME NEW S, NEW s \in Seq(S), NEW i \in 1 .. Len(s), NEW r,
           NEW here \in Nat, NEW last \in Nat, NEW now \in Nat,
           NEW pending, NEW refused, NEW answer,
           CallsTyped(s, pending, refused),
           CallsInTurn(s, here, last, pending, refused),
           s[i].answer = pending,
           \A j \in 1 .. i - 1 : s[j].answer # pending,
           Len(r) = Len(s), \A j \in 1 .. Len(s) : j # i => r[j] = s[j],
           r[i].LocalHistoryId = s[i].LocalHistoryId,
           r[i].answer = answer,
           now >= last, answer = refused \/ answer.HistoryId = now
    PROVE  /\ CallsTyped(r, pending, refused)
           /\ CallsInTurn(r, here, now, pending, refused)
<1>1. Len(s) \in Nat
    OBVIOUS
<1>2. CallsTyped(r, pending, refused)
    BY DEF CallsTyped, Heard
<1>3. \A j \in 1 .. Len(s) : i < j => s[j].answer = pending
    BY DEF CallsInTurn
<1>4. \A j \in 1 .. Len(s) : j < i => j \in 1 .. i - 1
    BY <1>1
<1>5. \A j \in 1 .. Len(s) : Heard(s[j], pending, refused) =>
            s[j].answer.HistoryId \in Nat /\ s[j].answer.HistoryId <= now
                /\ s[j].answer.HistoryId >= here
    BY DEF CallsInTurn, CallsTyped
<1>6. \A j \in 1 .. Len(r) :
        /\ r[j].LocalHistoryId <= here
        /\ Heard(r[j], pending, refused) =>
            here <= r[j].answer.HistoryId /\ r[j].answer.HistoryId <= now
    BY <1>5 DEF CallsInTurn, Heard
<1>7. ASSUME NEW j \in 1 .. Len(r), NEW k \in 1 .. Len(r), j < k
      PROVE  /\ r[k].answer # pending => r[j].answer # pending
             /\ Heard(r[j], pending, refused) /\ Heard(r[k], pending, refused)
                    => r[j].answer.HistoryId <= r[k].answer.HistoryId
  <2>1. CASE k = i
    BY <1>4, <1>5, <1>7, <2>1 DEF Heard
  <2>2. CASE j = i
    BY <1>3, <1>7, <2>2 DEF Heard
  <2>3. CASE j # i /\ k # i
    BY <1>7, <2>3 DEF CallsInTurn
  <2> QED
    BY <2>1, <2>2, <2>3
<1>8. here <= now
    BY DEF CallsInTurn
<1> QED
    BY <1>2, <1>6, <1>7, <1>8 DEF CallsInTurn

\* The history moves on.
LEMMA InTurnGrow ==
    ASSUME NEW s, NEW here \in Nat, NEW last \in Nat, NEW now \in Nat,
           NEW pending, NEW refused, now >= last,
           CallsTyped(s, pending, refused),
           CallsInTurn(s, here, last, pending, refused)
    PROVE  CallsInTurn(s, here, now, pending, refused)
BY DEF CallsInTurn, CallsTyped

\* What a page around the server sees of any step of the server: histories
\* never go back, and a membership row that changed has new stamps.
LEMMA HistoriesMove ==
    ASSUME DbInv(db), [Next]_db
    PROVE  /\ \A v \in Users :
                db'.user[v].chatList_HistoryId >= db.user[v].chatList_HistoryId
           /\ \A k \in Chats :
                /\ db'.chat[k].it_HistoryId >= db.chat[k].it_HistoryId
                /\ db'.chat[k].lastMsgId >= db.chat[k].lastMsgId
           /\ \A k \in Chats, v \in Users :
                \/ db'.membership[k][v] = db.membership[k][v]
                \/ /\ db'.membership[k][v].chat_IncHistoryId
                        > db.chat[k].it_HistoryId
                   /\ db'.membership[k][v].user_chatList_IncHistoryId
                        > db.user[v].chatList_HistoryId
<1>1. CASE Quiet(db, db')
    BY <1>1, Numbers DEF Quiet, DbInv
<1>2. CASE \E u \in Users, c \in Chats : OneRequest(db, db', u, c)
  <2> PICK u \in Users, c \in Chats : OneRequest(db, db', u, c)
    BY <1>2
  <2>1. db \in Database /\ db' \in Database
    BY NextInv DEF Inv, DbInv
  <2>2. \A k \in Chats, v \in Users :
            \/ db'.membership[k][v] = db.membership[k][v]
            \/ /\ k = c /\ v = u
               /\ db'.membership[k][v].chat_IncHistoryId
                    \in db.chat[c].it_HistoryId + 1 .. db'.chat[c].it_HistoryId
               /\ db'.membership[k][v].user_chatList_IncHistoryId
                    > db.user[u].chatList_HistoryId
    BY DEF OneRequest
  <2>3. \A k \in Chats : db.chat[k].it_HistoryId \in Nat
    BY <2>1, Numbers
  <2>4. \A k \in Chats, v \in Users :
            \/ db'.membership[k][v] = db.membership[k][v]
            \/ /\ db'.membership[k][v].chat_IncHistoryId > db.chat[k].it_HistoryId
               /\ db'.membership[k][v].user_chatList_IncHistoryId
                    > db.user[v].chatList_HistoryId
    BY <2>2, <2>3
  <2> QED
    BY <2>4 DEF OneRequest
<1> QED
    BY <1>1, <1>2, NextIsOneRequest

=============================================================================
