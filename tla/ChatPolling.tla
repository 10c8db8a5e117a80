---------------------------- MODULE ChatPolling ----------------------------
(***************************************************************************)
(* What the back end tells a chat page (polling.cpp): the members and the  *)
(* messages whose stamp is above the page's LocalHistoryId, the messages   *)
(* of one range of ids, the last message id and the chat's HistoryId; and  *)
(* what it tells the page with the user's list of chats.  Operators on a   *)
(* database value; nothing here writes.                                    *)
(***************************************************************************)
EXTENDS ChatDb

\* A message as a client sees it: no sender if it is the system's, no text
\* if it was erased, never a stamp.
make_messageSt_obj(m) ==
    [id |-> m.id, isSystem |-> m.isSystem, exists |-> m.exists,
     senderUserId |-> IF m.isSystem THEN NoUser ELSE m.senderUserId,
     text |-> IF m.exists THEN m.text ELSE NoText]

\* Broken: an off-by-one in the stamp comparison.
MessagesTwoStampsLater(d, c, LocalHistoryId, QSEG_A, QSEG_B) ==
    {make_messageSt_obj(m) : m \in {n \in MessagesOf(d, c) :
        \/ n.chat_IncHistoryId > LocalHistoryId + 1
        \/ n.id \in QSEG_A .. QSEG_B}}

poll_update_chat_resp_messages(d, c, LocalHistoryId, QSEG_A, QSEG_B) ==
    {make_messageSt_obj(m) : m \in {n \in MessagesOf(d, c) :
        \/ n.chat_IncHistoryId > LocalHistoryId
        \/ n.id \in QSEG_A .. QSEG_B}}

\* userId -> roleHere
poll_update_chat_resp_members(d, c, LocalHistoryId) ==
    [u \in {v \in Users :
                d.membership[c][v].chat_IncHistoryId > LocalHistoryId}
        |-> get_role_of_user_in_chat(d, u, c)]

\* what a page is rendered with: everybody, and the message of its URL
poll_update_chat_ONE_MSG_resp(d, c, selectedMsg) ==
    [members |-> poll_update_chat_resp_members(d, c, 0),
     messages |-> {make_messageSt_obj(m) :
                    m \in {n \in MessagesOf(d, c) : n.id = selectedMsg}},
     lastMsgId |-> d.chat[c].lastMsgId,
     HistoryId |-> d.chat[c].it_HistoryId]

\* Broken: the stamps are those of the chat, the history id the list's.
poll_update_chat_list_resp_mixed(d, uid, LocalHistoryId) ==
    [myChats |-> [c \in {e \in Chats :
            d.membership[e][uid].chat_IncHistoryId > LocalHistoryId}
        |-> get_role_of_user_in_chat(d, uid, c)],
     HistoryId |-> d.user[uid].chatList_HistoryId]

\* chatId -> myRoleHere, for what changed in the user's list of chats
poll_update_chat_list_resp(d, uid, LocalHistoryId) ==
    [myChats |-> [c \in {e \in Chats :
            d.membership[e][uid].user_chatList_IncHistoryId > LocalHistoryId}
        |-> get_role_of_user_in_chat(d, uid, c)],
     HistoryId |-> d.user[uid].chatList_HistoryId]

poll_update_chat_important_segment_resp(d, c, LocalHistoryId, QSEG) ==
    [members |-> poll_update_chat_resp_members(d, c, LocalHistoryId),
     messages |-> poll_update_chat_resp_messages(d, c, LocalHistoryId,
                                                 QSEG[1], QSEG[2]),
     lastMsgId |-> d.chat[c].lastMsgId,
     HistoryId |-> d.chat[c].it_HistoryId]

\* poll_update_chat: the empty range
NoSegment == <<-1, -2>>

\* Broken: the range of the newest messages ends one too early.
NeighbourSegment_short(d, c, K, direction, amount) ==
    LET last == d.chat[c].lastMsgId
    IN  IF K < 0 THEN <<last - amount + 1, last - 1>>
        ELSE IF direction = "forward" THEN <<K + 1, K + amount>>
        ELSE <<K - amount, K - 1>>

\* the range of ids getMessageNeighbours looks up whatever their stamps
NeighbourSegment(d, c, K, direction, amount) ==
    LET last == d.chat[c].lastMsgId
    IN  IF last < 0 THEN NoSegment
        ELSE IF K < 0
        THEN <<IF last - amount + 1 > 0 THEN last - amount + 1 ELSE 0, last>>
        ELSE IF direction = "forward" THEN <<K + 1, K + amount>>
        ELSE <<K - amount, K - 1>>

\* "Can't go from the top of chat", "Incorrect amount"
CanGetNeighbours(d, uid, c, K, direction, amount) ==
    /\ get_role_of_user_in_chat(d, uid, c) # "deleted"
    /\ amount \in 1 .. 15
    /\ ~(d.chat[c].lastMsgId >= 0 /\ K < 0 /\ direction = "forward")

CanPoll(d, uid, c) == get_role_of_user_in_chat(d, uid, c) # "deleted"
=============================================================================
