------------------------------ MODULE ChatPage ------------------------------
(***************************************************************************)
(* The state a chat page keeps (chat.js) and what an answer of the server  *)
(* does to it, as operators on a page value `p`.  The page may hold any    *)
(* part of the chat; what it shows is one run of consecutive messages.     *)
(*                                                                         *)
(* Geometry (offsets, heights, the scroll position) is left out: where a   *)
(* decision depends on it the caller chooses.  anchoredMsg is not kept: it *)
(* is set together with the shown segment and moves inside it, and the     *)
(* code asks of it only whether there is one.                              *)
(***************************************************************************)
EXTENDS Integers, FiniteSets, SequencesExt

CONSTANT Stranger       \* members.has(id) is false

\* an empty page: nothing loaded, nothing shown
BlankPage(Users) ==
    [LocalHistoryId |-> 0,
     members |-> [u \in Users |-> Stranger],
     loadedMessages |-> [i \in {} |-> i],
     visibleMessages |-> {},
     visibleMsgSegStart |-> -1,
     visibleMsgSegEnd |-> -2,
     lastMsgId |-> -1,
     threw |-> FALSE]

HasAnchor(p) == p.visibleMsgSegStart >= 0

isMissingPrimaryMsgHeap(p) == p.lastMsgId >= 0 /\ ~HasAnchor(p)

\* the part of the two conditions that is not geometry
MayMissTopMsgHeap(p) == HasAnchor(p) /\ p.visibleMsgSegStart > 0

MayMissBottomMsgHeap(p) == HasAnchor(p) /\ p.visibleMsgSegEnd < p.lastMsgId

IsLoaded(p, i) == i \in DOMAIN p.loadedMessages

\* loadedMessages.set(messageSt.id, messageSt)
Load(p, messageSt) ==
    [p EXCEPT !.loadedMessages =
        [i \in DOMAIN @ \cup {messageSt.id} |->
            IF i = messageSt.id THEN messageSt ELSE p.loadedMessages[i]]]

\* makeVisible; "First - update members" is thrown for an unknown sender
makeVisible(p, ids) ==
    [p EXCEPT !.visibleMessages = @ \cup ids,
              !.threw = @ \/ \E i \in ids :
                  LET m == p.loadedMessages[i]
                  IN  ~m.isSystem /\ p.members[m.senderUserId] = Stranger]

\* the last loaded message going up, or down, from i without a gap
TopOfRun(p, i) ==
    CHOOSE t \in DOMAIN p.loadedMessages :
        /\ t <= i /\ \A j \in t .. i : IsLoaded(p, j)
        /\ ~IsLoaded(p, t - 1)

BottomOfRun(p, i) ==
    CHOOSE b \in DOMAIN p.loadedMessages :
        /\ b >= i /\ \A j \in i .. b : IsLoaded(p, j)
        /\ ~IsLoaded(p, b + 1)

ShowUpTo(p, t) == makeVisible([p EXCEPT !.visibleMsgSegStart = t],
                              t .. p.visibleMsgSegStart - 1)

ShowDownTo(p, b) == makeVisible([p EXCEPT !.visibleMsgSegEnd = b],
                                p.visibleMsgSegEnd + 1 .. b)

\* Broken: only the new message is shown, not what it connects to.
OpaWithoutTheRun(p, messageSt) ==
    LET id == messageSt.id
        q == Load(p, messageSt)
    IN  IF IsLoaded(p, id) THEN q
        ELSE IF ~HasAnchor(p)
        THEN makeVisible([q EXCEPT !.visibleMsgSegStart = id,
                                   !.visibleMsgSegEnd = id], {id})
        ELSE IF id + 1 = p.visibleMsgSegStart THEN ShowUpTo(q, id)
        ELSE IF id - 1 = p.visibleMsgSegEnd THEN ShowDownTo(q, id)
        ELSE q

opaNewMessageSt(p, messageSt) ==
    LET id == messageSt.id
        q == Load(p, messageSt)
    IN  IF IsLoaded(p, id) THEN q
        ELSE IF ~HasAnchor(p)
        THEN makeVisible([q EXCEPT !.visibleMsgSegStart = id,
                                   !.visibleMsgSegEnd = id], {id})
        ELSE IF id + 1 = p.visibleMsgSegStart THEN ShowUpTo(q, TopOfRun(q, id))
        ELSE IF id - 1 = p.visibleMsgSegEnd THEN ShowDownTo(q, BottomOfRun(q, id))
        ELSE q

\* One after the other, in the order of their index; `last` is the last id
\* of the chat, and after[n] the page when the ids below n are done.
opaNewMessages(p, messages, last) ==
    LET after[n \in 0 .. last + 1] ==
            IF n = 0 THEN p
            ELSE IF \E m \in messages : m.id = n - 1
            THEN opaNewMessageSt(after[n - 1], CHOOSE m \in messages : m.id = n - 1)
            ELSE after[n - 1]
    IN  after[last + 1]

\* Broken: the members of the answer replace those the page knows.
MembersReplaced(p, resp) ==
    LET informed == [p EXCEPT
            !.LocalHistoryId = resp.HistoryId,
            !.members = [u \in DOMAIN @ |->
                IF u \in DOMAIN resp.members THEN resp.members[u] ELSE Stranger],
            !.lastMsgId = resp.lastMsgId]
    IN  opaNewMessages(informed, resp.messages, resp.lastMsgId)

\* members first, then the messages
updateLocalStateFromChatUpdRespBlind(p, resp) ==
    LET informed == [p EXCEPT
            !.LocalHistoryId = resp.HistoryId,
            !.members = [u \in DOMAIN @ |->
                IF u \in DOMAIN resp.members THEN resp.members[u] ELSE @[u]],
            !.lastMsgId = resp.lastMsgId]
    IN  opaNewMessages(informed, resp.messages, resp.lastMsgId)
=============================================================================
