----------------------------- MODULE RoomsSync -----------------------------
(***************************************************************************)
(* The page with my list of chats (list-rooms.js) against the back end: it *)
(* polls, founds chats and leaves them, several calls at a time, while     *)
(* everybody else summons me, kicks me and founds chats of their own.      *)
(***************************************************************************)
EXTENDS ChatPolling, ChatServer, SequencesExt

CONSTANTS
    Me,                 \* userinfo.uid
    Stranger,           \* myChats.has(chatId) is false
    MaxCalls,           \* bound: calls in flight
    Pending, Refused    \* no answer yet; an exception or an error status

ASSUME RoomsAssumption ==
    /\ Me \in Users
    /\ Stranger \notin Roles

VARIABLES
    isOpen,     \* the page exists
    page,
    popup,      \* "none", "chat-creation-win", or the chat it asks about
    calls,      \* calls in flight, in the order they were made
    overtaken   \* history, as in ChatSync

vars == <<db, isOpen, page, popup, calls, overtaken>>

\* myChats holds my role in each chat that has a box; the box shows it.
BlankPage == [LocalHistoryId |-> 0, myChats |-> [c \in Chats |-> Stranger]]

PageInit ==
    /\ Init
    /\ isOpen = FALSE
    /\ page = BlankPage
    /\ popup = "none"
    /\ calls = <<>>
    /\ overtaken = FALSE

-----------------------------------------------------------------------------
(* What an answer does to the page *)

\* A chat that is new to the page gets a box, unless I am out again already.
updateLocalStateFromChatListUpdResp(p, resp) ==
    LET seen(c) == p.myChats[c] # Stranger
        drawn == {c \in DOMAIN resp.myChats :
                    seen(c) \/ resp.myChats[c] # "deleted"}
    IN  [LocalHistoryId |-> resp.HistoryId,
         myChats |-> [c \in Chats |->
            IF c \in drawn THEN resp.myChats[c] ELSE p.myChats[c]]]

-----------------------------------------------------------------------------
(* The page *)

\* when_page_list_rooms and window.onload
OpenPage ==
    /\ ~isOpen
    /\ Me \in RegisteredUsers(db)
    /\ isOpen' = TRUE
    /\ page' = updateLocalStateFromChatListUpdResp(page,
                    poll_update_chat_list_resp(db, Me, 0))
    /\ UNCHANGED <<db, popup, calls, overtaken>>

\* apiRequest, with the LocalHistoryId the page has at this moment
Request(api, subject) ==
    /\ isOpen
    /\ Len(calls) < MaxCalls
    /\ calls' = Append(calls,
            [api |-> api, LocalHistoryId |-> page.LocalHistoryId,
             subject |-> subject, answer |-> Pending])
    /\ UNCHANGED <<db, isOpen, page, overtaken>>

\* __guestMainloopPollerAction, every three seconds, answered or not
Poll == Request("chatListPollEvents", NoNickname) /\ UNCHANGED popup

\* a window opens unless one is open
Popup(win) ==
    /\ isOpen /\ popup = "none"
    /\ popup' = win
    /\ UNCHANGED <<db, isOpen, page, calls, overtaken>>

\* CL-bacbe
ClickCreate == Popup("chat-creation-win")

\* the leave button of a box; chatRenunciationWinStoredId
ClickLeave(c) == page.myChats[c] \notin {"deleted", Stranger} /\ Popup(c)

\* chat-creation-win-yes
CreateYes(nickname) ==
    /\ popup = "chat-creation-win"
    /\ popup' = "none"
    /\ Request("createChat", nickname)

\* chat-renunciation-win-yes, whatever has happened since the click
LeaveYes ==
    /\ popup \in Chats
    /\ popup' = "none"
    /\ Request("leaveChat", popup)

ClickNo ==
    /\ popup # "none"
    /\ popup' = "none"
    /\ UNCHANGED <<db, isOpen, page, calls, overtaken>>

-----------------------------------------------------------------------------
(* The server *)

\* The databases a call may leave; none, if it is refused.  A new chat gets
\* an id that is free.
Outcomes(d, call) ==
    CASE call.api = "chatListPollEvents" -> {d}
      [] call.api = "createChat" ->
            {internalapi_createChat(d, Me, c, call.subject) :
                c \in {e \in Chats : CanCreateChat(d, Me, e, call.subject)}}
      [] call.api = "leaveChat" ->
            IF CanLeave(d, Me, call.subject)
            THEN {internalapi_leaveChat(d, Me, call.subject)} ELSE {}

\* One request.  BOUND: what would exceed MaxHistory is refused.
Answer(i) ==
    LET call == calls[i]
        possible == {d \in Outcomes(db, call) : WithinBound(d)}
    IN  /\ call.answer = Pending
        /\ \/ \E after \in possible :
                /\ db' = after
                /\ calls' = [calls EXCEPT ![i].answer =
                    poll_update_chat_list_resp(after, Me, call.LocalHistoryId)]
           \/ /\ possible = {}
              /\ calls' = [calls EXCEPT ![i].answer = Refused]
              /\ UNCHANGED db
        /\ overtaken' = (overtaken \/ \E j \in 1 .. i - 1 : calls[j].answer = Pending)
        /\ UNCHANGED <<isOpen, page, popup>>

\* The answer arrives; an error changes nothing.
Deliver(i) ==
    /\ calls[i].answer # Pending
    /\ page' = IF calls[i].answer = Refused THEN page
               ELSE updateLocalStateFromChatListUpdResp(page, calls[i].answer)
    /\ calls' = RemoveAt(calls, i)
    /\ overtaken' = (overtaken \/ i # 1)
    /\ UNCHANGED <<db, isOpen, popup>>

\* The connection breaks, before or after the server has done its part.
Lose(i) ==
    /\ calls' = RemoveAt(calls, i)
    /\ UNCHANGED <<db, isOpen, page, popup, overtaken>>

\* Any request of anybody, Me in another tab included.
OthersAct ==
    /\ Next
    /\ UNCHANGED <<isOpen, page, popup, calls, overtaken>>

PageNext ==
    \/ OpenPage
    \/ Poll
    \/ ClickCreate
    \/ \E c \in Chats : ClickLeave(c)
    \/ \E nickname \in Nicknames : CreateYes(nickname)
    \/ LeaveYes
    \/ ClickNo
    \/ \E i \in 1 .. Len(calls) : Answer(i) \/ Deliver(i) \/ Lose(i)
    \/ OthersAct

PageSpec == PageInit /\ [][PageNext]_vars

-----------------------------------------------------------------------------
(* Properties *)

TrueBox(c) ==
    LET role == get_role_of_user_in_chat(db, Me, c)
    IN  page.myChats[c] = role \/ (role = "deleted" /\ page.myChats[c] = Stranger)

\* The list is true to its LocalHistoryId: a membership of mine that has not
\* changed since that id is on the page as it is in the database, whichever
\* of the many chats with counters of their own it belongs to; unless calls
\* have overtaken each other.
ListIsTrue ==
    isOpen /\ ~overtaken => \A c \in Chats :
        db.membership[c][Me].user_chatList_IncHistoryId
            \in 1 .. page.LocalHistoryId => TrueBox(c)
=============================================================================
