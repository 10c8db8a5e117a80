------------------------------ MODULE ChatSync ------------------------------
(***************************************************************************)
(* A chat page in a browser against the back end.  The page polls, sends,  *)
(* erases and loads old messages, several calls at a time; each call is an *)
(* HTTP request of its own connection.  The server answers a call in one   *)
(* step, as ChatServer does, and everybody else acts on the chat meanwhile.*)
(* Calls may overtake each other on their way to the server or back, since *)
(* nothing in the code prevents it; overtaken remembers that they did.     *)
(***************************************************************************)
EXTENDS ChatPolling, ChatServer, ChatPage

CONSTANTS
    Me,                 \* userinfo.uid
    OpenedChat,         \* openedchat.id
    Amount,             \* Sent.amount of genSentBaseGMN
    MaxCalls,           \* bound: calls in flight
    MaxLost,            \* bound: calls that fail on their way
    Pending, Refused    \* no answer yet; an exception or an error status

ASSUME SyncAssumption ==
    /\ Me \in Users /\ OpenedChat \in Chats
    /\ Amount \in 1 .. 15
    /\ Stranger \notin Roles
    /\ MaxLost \in Nat

VARIABLES
    isOpen,     \* the page exists
    page,
    calls,      \* the page's calls in flight, in the order they were made
    firstNew,   \* history: the id of the first message sent after the page
                \* was rendered
    overtaken,  \* history: some call was answered, or its answer delivered,
                \* before one that was made earlier
    lost        \* how many calls were lost

vars == <<db, isOpen, page, calls, firstNew, overtaken, lost>>

PageInit ==
    /\ Init
    /\ isOpen = FALSE
    /\ page = BlankPage(Users)
    /\ calls = <<>>
    /\ firstNew = 0
    /\ overtaken = FALSE
    /\ lost = 0

-----------------------------------------------------------------------------
(* The page *)

\* when_page_chat renders the page, window.onload applies what it was given.
OpenPage(selected) ==
    /\ ~isOpen
    /\ OpenedChat \in CreatedChats(db)
    /\ get_role_of_user_in_chat(db, Me, OpenedChat) # "deleted"
    /\ selected \in {-1} \cup {m.id : m \in MessagesOf(db, OpenedChat)}
    /\ isOpen' = TRUE
    /\ page' = updateLocalStateFromChatUpdRespBlind(page,
                    poll_update_chat_ONE_MSG_resp(db, OpenedChat, selected))
    /\ firstNew' = db.chat[OpenedChat].lastMsgId + 1
    /\ UNCHANGED <<db, calls, overtaken, lost>>

\* apiRequest, with the LocalHistoryId the page has at this moment
Request(api, msgId, direction, text) ==
    /\ isOpen
    /\ Len(calls) < MaxCalls
    /\ calls' = Append(calls,
            [api |-> api, LocalHistoryId |-> page.LocalHistoryId,
             msgId |-> msgId, direction |-> direction, text |-> text,
             answer |-> Pending])
    /\ UNCHANGED <<db, isOpen, page, firstNew, overtaken, lost>>

\* The main loop polls once a second, answered or not; its timer is off while
\* the first messages are being loaded.
UPDATE ==
    /\ ~isMissingPrimaryMsgHeap(page)
    /\ Request("chatPollEvents", -1, "none", NoText)

requestPrimaryHeap ==
    /\ isMissingPrimaryMsgHeap(page)
    /\ Request("getMessageNeighbours", -1, "backward", NoText)

requestTopHeap ==
    /\ MayMissTopMsgHeap(page)
    /\ Request("getMessageNeighbours", page.visibleMsgSegStart, "backward", NoText)

requestBottomHeap ==
    /\ MayMissBottomMsgHeap(page)
    /\ Request("getMessageNeighbours", page.visibleMsgSegEnd, "forward", NoText)

sendMessage(text) == Request("sendMessage", -1, "none", text)

\* The popup keeps the id it was opened for, whatever happens meanwhile.
deleteMessage(id) ==
    /\ id \in page.visibleMessages
    /\ ~page.loadedMessages[id].isSystem
    /\ Request("deleteMessage", id, "none", NoText)

-----------------------------------------------------------------------------
(* The server *)

Accepts(d, call) ==
    CASE call.api = "chatPollEvents" -> CanPoll(d, Me, OpenedChat)
      [] call.api = "getMessageNeighbours" ->
            CanGetNeighbours(d, Me, OpenedChat, call.msgId, call.direction, Amount)
      [] call.api = "sendMessage" -> CanSendMessage(d, Me, OpenedChat)
      [] call.api = "deleteMessage" ->
            CanDeleteMessage(d, Me, OpenedChat, call.msgId)

Effect(d, call) ==
    CASE call.api = "sendMessage" ->
            internalapi_sendMessage(d, Me, OpenedChat, call.text)
      [] call.api = "deleteMessage" ->
            internalapi_deleteMessage(d, Me, OpenedChat, call.msgId)
      [] OTHER -> d

Segment(d, call) ==
    IF call.api = "getMessageNeighbours"
    THEN NeighbourSegment(d, OpenedChat, call.msgId, call.direction, Amount)
    ELSE NoSegment

\* One request.  BOUND: what would exceed MaxHistory is refused.
Answer(i) ==
    /\ calls[i].answer = Pending
    /\ LET call == calls[i]
           after == Effect(db, call)
       IN  IF Accepts(db, call) /\ WithinBound(after)
           THEN /\ db' = after
                /\ calls' = [calls EXCEPT ![i].answer =
                        poll_update_chat_important_segment_resp(after, OpenedChat,
                            call.LocalHistoryId, Segment(after, call))]
           ELSE /\ calls' = [calls EXCEPT ![i].answer = Refused]
                /\ UNCHANGED db
    /\ overtaken' = (overtaken \/ \E j \in 1 .. i - 1 : calls[j].answer = Pending)
    /\ UNCHANGED <<isOpen, page, firstNew, lost>>

\* The answer arrives, updateLocalStateFromRecvBlind; an error changes nothing.
Deliver(i) ==
    /\ calls[i].answer # Pending
    /\ page' = IF calls[i].answer = Refused THEN page
               ELSE updateLocalStateFromChatUpdRespBlind(page, calls[i].answer)
    /\ calls' = RemoveAt(calls, i)
    /\ overtaken' = (overtaken \/ i # 1)
    /\ UNCHANGED <<db, isOpen, firstNew, lost>>

\* The connection breaks, before or after the server has done its part.
Lose(i) ==
    /\ lost < MaxLost
    /\ lost' = lost + 1
    /\ calls' = RemoveAt(calls, i)
    /\ UNCHANGED <<db, isOpen, page, firstNew, overtaken>>

\* Any request of anybody, Me in another tab included.
OthersAct ==
    /\ Next
    /\ UNCHANGED <<isOpen, page, calls, firstNew, overtaken, lost>>

PageNext ==
    \/ \E selected \in -1 .. MaxHistory : OpenPage(selected)
    \/ UPDATE
    \/ requestPrimaryHeap
    \/ requestTopHeap
    \/ requestBottomHeap
    \/ \E text \in Texts : sendMessage(text)
    \/ \E id \in 0 .. MaxHistory : deleteMessage(id)
    \/ \E i \in 1 .. Len(calls) : Answer(i) \/ Deliver(i) \/ Lose(i)
    \/ OthersAct

PageSpec == PageInit /\ [][PageNext]_vars

(* FAIRNESS.  Requests are answered (WorkerPool) and answers arrive.  The   *)
(* loop of the page goes round again and again whatever is in flight, to    *)
(* poll or, until it has them, to load the first messages: strong fairness, *)
(* because the bound MaxCalls, which the page does not have, stops it now   *)
(* and then.                                                                *)
FairSpec ==
    /\ PageSpec
    /\ []<>(calls = <<>>) \/ []<><<\E i \in 1 .. Len(calls) : Answer(i) \/ Deliver(i)>>_vars
    /\ SF_vars(UPDATE \/ requestPrimaryHeap)

-----------------------------------------------------------------------------
(* Properties *)

\* updateLocalStateFromChatUpdRespBlind never throws "First - update members":
\* whatever overtakes what, the sender of a message that is shown is known.
SendersAreKnown == ~page.threw

\* What is shown is one run of consecutive messages, and as long as it can
\* be: no loaded message next to it is left hidden, in whatever pieces and
\* order the answers come.
ShownRunIsMaximal ==
    LET first == page.visibleMsgSegStart
        last == page.visibleMsgSegEnd
    IN  IF DOMAIN page.loadedMessages = {} THEN page.visibleMessages = {}
        ELSE /\ page.visibleMessages = first .. last
             /\ first >= 0 /\ first <= last
             /\ \A i \in first .. last : IsLoaded(page, i)
             /\ ~IsLoaded(page, first - 1) /\ ~IsLoaded(page, last + 1)

\* LocalHistoryId keeps its promise: a member or loaded message that has not
\* changed since that id is on the page as it is in the database, and every
\* message sent after the page was rendered and not after that id is loaded;
\* unless calls have overtaken each other.
PageIsCurrentToItsHistoryId ==
    isOpen /\ ~overtaken =>
        /\ \A u \in Users :
            LET row == db.membership[OpenedChat][u]
            IN  row.chat_IncHistoryId \in 1 .. page.LocalHistoryId
                    => page.members[u] = row.role
        /\ \A m \in MessagesOf(db, OpenedChat) :
            m.chat_IncHistoryId <= page.LocalHistoryId =>
                /\ IsLoaded(page, m.id) =>
                    page.loadedMessages[m.id] = make_messageSt_obj(m)
                /\ m.id >= firstNew => IsLoaded(page, m.id)

\* The page never goes back: neither its history id nor the end of its chat
\* moves down, and an erased message never gets its text back, unless
\* calls overtake each other.
PageNeverGoesBack ==
    [][isOpen /\ ~overtaken' =>
        /\ page'.LocalHistoryId >= page.LocalHistoryId
        /\ page'.lastMsgId >= page.lastMsgId
        /\ \A i \in DOMAIN page.loadedMessages :
            page'.loadedMessages[i].exists => page.loadedMessages[i].exists]_vars

IsMember == get_role_of_user_in_chat(db, Me, OpenedChat) # "deleted"

CaughtUp ==
    /\ page.LocalHistoryId = db.chat[OpenedChat].it_HistoryId
    /\ page.lastMsgId = db.chat[OpenedChat].lastMsgId
    /\ ~isMissingPrimaryMsgHeap(page)

\* Once the chat is quiet (MaxHistory makes it so), a page of a member
\* catches up with it and shows something, if there is anything to show,
\* whatever calls were lost meanwhile, unless calls overtook each other.
PageCatchesUp == <>[](isOpen /\ IsMember => CaughtUp \/ overtaken)
=============================================================================
