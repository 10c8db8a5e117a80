---------------------------- MODULE MembersSync ----------------------------
(***************************************************************************)
(* The members page (chat-members.js) against the back end: who is in the  *)
(* chat, with which role, and whom I may kick.  As in ChatSync, each call  *)
(* of the page is a request of its own connection.                         *)
(***************************************************************************)
EXTENDS ChatPolling, ChatServer, SequencesExt

CONSTANTS
    Me,                 \* userinfo.uid
    OpenedChat,         \* openedchat.id
    Stranger,           \* members.has(id) is false; myRoleHere is null
    MaxCalls,           \* bound: calls in flight
    Pending, Refused    \* no answer yet; an exception or an error status

ASSUME MembersAssumption ==
    /\ Me \in Users /\ OpenedChat \in Chats
    /\ Stranger \notin Roles

VARIABLES
    isOpen,     \* the page exists
    page,
    popup,      \* "none", "user-summoning-win", or who is asked about
    calls,      \* calls in flight, in the order they were made
    redrawn,    \* history: my role has changed on the open page
    overtaken   \* history, as in ChatSync

vars == <<db, isOpen, page, popup, calls, redrawn, overtaken>>

BlankPage ==
    [LocalHistoryId |-> 0,
     members |-> [u \in Users |-> Stranger],    \* Map `members`
     box |-> [u \in Users |-> Stranger],        \* role in a box's text
     kickButton |-> [u \in Users |-> FALSE],
     myRoleHere |-> Stranger]

PageInit ==
    /\ Init
    /\ isOpen = FALSE
    /\ page = BlankPage
    /\ popup = "none"
    /\ calls = <<>>
    /\ redrawn = FALSE
    /\ overtaken = FALSE

-----------------------------------------------------------------------------
(* What an answer does to the page *)

\* Broken: who has gone can be kicked again.
shouldShowDeleteButton_gone(u, roleHere, myRoleHere) ==
    u # Me /\ myRoleHere = "admin"

shouldShowDeleteButton(u, roleHere, myRoleHere) ==
    u # Me /\ myRoleHere = "admin" /\ roleHere # "deleted"

\* updateBoxWithSt, or convertMemberStToBox, for the users of `roles`
Draw(p, roles) ==
    [p EXCEPT
        !.box = [u \in Users |-> IF u \in DOMAIN roles THEN roles[u] ELSE @[u]],
        !.kickButton = [u \in Users |->
            IF u \in DOMAIN roles
            THEN shouldShowDeleteButton(u, roles[u], p.myRoleHere) ELSE @[u]]]

Known(p) == {u \in Users : p.members[u] # Stranger}

MyRoleChanges(p, resp) ==
    Me \in DOMAIN resp.members /\ resp.members[Me] # p.myRoleHere

\* A new role of mine changes all buttons: every box is drawn again, from
\* `members`, which holds what a user was when the page first saw it.
RedrawForMyRole(p, resp) ==
    IF MyRoleChanges(p, resp)
    THEN Draw([p EXCEPT !.myRoleHere = resp.members[Me]],
              [u \in Known(p) |-> p.members[u]])
    ELSE p

\* Broken: a user who is not in `members` gets no box.
DrawMembers_known(p, resp) ==
    Draw(p, [u \in DOMAIN resp.members \cap Known(p) |-> resp.members[u]])

\* Broken: a known user's box is not drawn again.
DrawMembers_new(p, resp) ==
    LET new == {u \in DOMAIN resp.members \ Known(p) :
                    resp.members[u] # "deleted"}
    IN  Draw([p EXCEPT !.members = [u \in Users |->
                    IF u \in new THEN resp.members[u] ELSE @[u]]],
             [u \in new |-> resp.members[u]])

\* Known users' boxes are drawn; a user met for the first time gets one,
\* and an entry in `members`, unless it is gone already.
DrawMembers(p, resp) ==
    LET new == {u \in DOMAIN resp.members \ Known(p) :
                    resp.members[u] # "deleted"}
    IN  Draw([p EXCEPT !.members = [u \in Users |->
                    IF u \in new THEN resp.members[u] ELSE @[u]]],
             [u \in new \cup (DOMAIN resp.members \cap Known(p))
                    |-> resp.members[u]])

updateLocalStateFromChatUpdResp(p, resp) ==
    DrawMembers(
        RedrawForMyRole([p EXCEPT !.LocalHistoryId = resp.HistoryId], resp),
        resp)

\* chatUpdResp without the messages: "We ignore messages and everything
\* related to them"
ChatUpdResp(d, LocalHistoryId) ==
    [members |-> poll_update_chat_resp_members(d, OpenedChat, LocalHistoryId),
     HistoryId |-> d.chat[OpenedChat].it_HistoryId]

-----------------------------------------------------------------------------
(* The page *)

\* when_page_chat, for /chat-members/, and window.onload
OpenPage ==
    /\ ~isOpen
    /\ OpenedChat \in CreatedChats(db)
    /\ get_role_of_user_in_chat(db, Me, OpenedChat) # "deleted"
    /\ isOpen' = TRUE
    /\ page' = updateLocalStateFromChatUpdResp(page, ChatUpdResp(db, 0))
    /\ UNCHANGED <<db, popup, calls, redrawn, overtaken>>

\* apiRequest, with the LocalHistoryId the page has at this moment
Request(api, alien, makeReadOnly) ==
    /\ isOpen
    /\ Len(calls) < MaxCalls
    /\ calls' = Append(calls,
            [api |-> api, LocalHistoryId |-> page.LocalHistoryId,
             alien |-> alien, makeReadOnly |-> makeReadOnly,
             answer |-> Pending])
    /\ UNCHANGED <<db, isOpen, page, redrawn, overtaken>>

\* __guestMainloopPollerAction, every few seconds, answered or not
Poll == Request("chatPollEvents", NoUser, FALSE) /\ UNCHANGED popup

\* a window opens unless one is open
Popup(win) ==
    /\ isOpen /\ popup = "none"
    /\ popup' = win
    /\ UNCHANGED <<db, isOpen, page, calls, redrawn, overtaken>>

\* CM-btn-add is there for the admin
ClickSummon == page.myRoleHere = "admin" /\ Popup("user-summoning-win")

\* userDeletionWinStoredUId
ClickKick(u) == page.kickButton[u] /\ Popup(u)

\* user-summoning-yes: any nickname may have been typed
SummonYes(alien, makeReadOnly) ==
    /\ popup = "user-summoning-win"
    /\ popup' = "none"
    /\ Request("addMemberToChat", alien, makeReadOnly)

\* user-deletion-yes: whatever has happened since the button was clicked
KickYes ==
    /\ popup \in Users
    /\ popup' = "none"
    /\ Request("removeMemberFromChat", popup, FALSE)

ClickNo ==
    /\ popup # "none"
    /\ popup' = "none"
    /\ UNCHANGED <<db, isOpen, page, calls, redrawn, overtaken>>

-----------------------------------------------------------------------------
(* The server *)

Accepts(d, call) ==
    CASE call.api = "chatPollEvents" -> CanPoll(d, Me, OpenedChat)
      [] call.api = "addMemberToChat" ->
            CanAddMember(d, Me, OpenedChat, call.alien)
      [] call.api = "removeMemberFromChat" ->
            CanRemoveMember(d, Me, OpenedChat, call.alien)

Effect(d, call) ==
    CASE call.api = "addMemberToChat" ->
            internalapi_addMemberToChat(d, Me, OpenedChat, call.alien,
                                        call.makeReadOnly)
      [] call.api = "removeMemberFromChat" ->
            internalapi_removeMemberFromChat(d, Me, OpenedChat, call.alien)
      [] OTHER -> d

\* One request.  BOUND: what would exceed MaxHistory is refused.
Answer(i) ==
    /\ calls[i].answer = Pending
    /\ LET call == calls[i]
           after == Effect(db, call)
       IN  IF Accepts(db, call) /\ WithinBound(after)
           THEN /\ db' = after
                /\ calls' = [calls EXCEPT ![i].answer =
                                ChatUpdResp(after, call.LocalHistoryId)]
           ELSE /\ calls' = [calls EXCEPT ![i].answer = Refused]
                /\ UNCHANGED db
    /\ overtaken' = (overtaken \/ \E j \in 1 .. i - 1 : calls[j].answer = Pending)
    /\ UNCHANGED <<isOpen, page, popup, redrawn>>

\* The answer arrives; an error changes nothing.
Deliver(i) ==
    /\ calls[i].answer # Pending
    /\ IF calls[i].answer = Refused THEN UNCHANGED <<page, redrawn>>
       ELSE /\ page' = updateLocalStateFromChatUpdResp(page, calls[i].answer)
            /\ redrawn' = (redrawn \/ MyRoleChanges(page, calls[i].answer))
    /\ calls' = RemoveAt(calls, i)
    /\ overtaken' = (overtaken \/ i # 1)
    /\ UNCHANGED <<db, isOpen, popup>>

\* The connection breaks, before or after the server has done its part.
Lose(i) ==
    /\ calls' = RemoveAt(calls, i)
    /\ UNCHANGED <<db, isOpen, page, popup, redrawn, overtaken>>

\* Any request of anybody, Me in another tab included.
OthersAct ==
    /\ Next
    /\ UNCHANGED <<isOpen, page, popup, calls, redrawn, overtaken>>

PageNext ==
    \/ OpenPage
    \/ Poll
    \/ ClickSummon
    \/ \E u \in Users : ClickKick(u)
    \/ \E alien \in Users, makeReadOnly \in BOOLEAN :
            SummonYes(alien, makeReadOnly)
    \/ KickYes
    \/ ClickNo
    \/ \E i \in 1 .. Len(calls) : Answer(i) \/ Deliver(i) \/ Lose(i)
    \/ OthersAct

PageSpec == PageInit /\ [][PageNext]_vars

-----------------------------------------------------------------------------
(* Properties *)

\* A box offers to kick exactly when I am the admin and the user it shows is
\* another and a member, whatever overtakes what: "kick button can appear and
\* disappear".
KickButtonsAgree ==
    \A u \in Users :
        page.kickButton[u] <=>
            /\ u # Me /\ page.myRoleHere = "admin"
            /\ page.box[u] \in Roles \ {"deleted"}

\* what the page was told: the row has not changed since LocalHistoryId
Told(u) ==
    db.membership[OpenedChat][u].chat_IncHistoryId \in 1 .. page.LocalHistoryId

\* Nobody is missing, and the page knows what I am: a member who has not
\* changed since LocalHistoryId has a box, and my role is the one I have;
\* unless calls have overtaken each other.
NobodyIsMissing ==
    isOpen /\ ~overtaken =>
        /\ \A u \in Members(db, OpenedChat) : Told(u) => page.box[u] # Stranger
        /\ Told(Me) =>
            page.myRoleHere = get_role_of_user_in_chat(db, Me, OpenedChat)

TrueBox(u) ==
    LET role == get_role_of_user_in_chat(db, u, OpenedChat)
    IN  page.box[u] = role \/ (role = "deleted" /\ page.box[u] = Stranger)

\* As long as my own role stays, every box tells the truth about a user who
\* has not changed since LocalHistoryId, unless calls have overtaken each other.
\* (Later it need not: RedrawForMyRole brings back roles that users once had.)
BoxesAreTrueAtFirst ==
    isOpen /\ ~redrawn /\ ~overtaken => \A u \in Users : Told(u) => TrueBox(u)
=============================================================================
