--------------------------- MODULE RoomsSyncProofs ---------------------------
(***************************************************************************)
(* The page with my list of chats is true to its history id, for any       *)
(* users, chats and nicknames and any number of calls in flight.           *)
(***************************************************************************)
EXTENDS RoomsSync, ChatServerProofs

Replies == [myChats : UNION {[D -> Roles] : D \in SUBSET Chats}, HistoryId : Nat]

\* A call carries what its api asks for.
Calls ==
    {call \in [api : {"chatListPollEvents", "createChat", "leaveChat"},
               LocalHistoryId : Nat,
               subject : Nicknames \cup {NoNickname} \cup Chats,
               answer : {Pending, Refused} \cup Replies] :
        /\ call.api = "createChat" => call.subject \in Nicknames
        /\ call.api = "leaveChat" => call.subject \in Chats}

\* Data keep their types, and there is no call without a page.
PageTyped ==
    /\ page.LocalHistoryId \in Nat
    /\ page.myChats \in [Chats -> Roles \cup {Stranger}]
    /\ calls \in Seq(Calls)
    /\ ~isOpen => page = BlankPage /\ calls = <<>>

Stamp(d, c) == d.membership[c][Me].user_chatList_IncHistoryId

Role(d, c) == get_role_of_user_in_chat(d, Me, c)

\* An answer holds every chat that changed between the id the page asked from
\* and its own, and what it says is true of all that has not changed since.
AnswerIsTrue(d, call) ==
    \A c \in Chats :
        /\ Stamp(d, c) \in call.LocalHistoryId + 1 .. call.answer.HistoryId
            => c \in DOMAIN call.answer.myChats
        /\ Stamp(d, c) <= call.answer.HistoryId /\ c \in DOMAIN call.answer.myChats
            => call.answer.myChats[c] = Role(d, c)

InTurn ==
    /\ CallsInTurn(calls, page.LocalHistoryId, db.user[Me].chatList_HistoryId,
                   Pending, Refused)
    /\ \A i \in 1 .. Len(calls) :
        Heard(calls[i], Pending, Refused) => AnswerIsTrue(db, calls[i])
    /\ \A c \in Chats : Stamp(db, c) \in 1 .. page.LocalHistoryId => TrueBox(c)

RoomsInv == Inv /\ PageTyped /\ (~overtaken => InTurn)

-----------------------------------------------------------------------------
(* The server's part of a step *)

\* The invariant holds when the page is opened.
LEMMA RoomsInit == ASSUME PageInit PROVE RoomsInv
<1>1. Inv
    BY InitialInv DEF PageInit, Init, Inv
<1>2. PageTyped
    BY DEF PageInit, PageTyped, BlankPage
<1>3. InTurn
  <2>1. db.user[Me].chatList_HistoryId \in Nat
    BY <1>1, Numbers, RoomsAssumption DEF Inv, DbInv
  <2> QED
    BY <2>1 DEF PageInit, BlankPage, InTurn, CallsInTurn
<1> QED
    BY <1>1, <1>2, <1>3 DEF RoomsInv

\* To the server a call of the page is a request like any other.
LEMMA AnswerIsRequest ==
    ASSUME PageTyped, NEW i \in 1 .. Len(calls), Answer(i)
    PROVE  [Next]_db
<1>1. calls[i] \in Calls
    BY DEF PageTyped
<1>2. CASE \E after \in {d \in Outcomes(db, calls[i]) : WithinBound(d)} : db' = after
  <2> PICK after \in Outcomes(db, calls[i]) : WithinBound(after) /\ db' = after
    BY <1>2
  <2>1. CASE calls[i].api = "chatListPollEvents"
    BY <2>1 DEF Outcomes
  <2>2. CASE calls[i].api = "createChat"
    <3>1. Outcomes(db, calls[i])
            = {internalapi_createChat(db, Me, c, calls[i].subject) :
                c \in {e \in Chats : CanCreateChat(db, Me, e, calls[i].subject)}}
      BY <2>2 DEF Outcomes
    <3>2. PICK c \in Chats : /\ CanCreateChat(db, Me, c, calls[i].subject)
                             /\ after = internalapi_createChat(db, Me, c, calls[i].subject)
      BY <3>1
    <3>3. CreateChat(Me, c, calls[i].subject)
      BY <3>2 DEF CreateChat, Commit
    <3>4. calls[i].subject \in Nicknames
      BY <1>1, <2>2 DEF Calls
    <3> QED
      BY <3>3, <3>4, RoomsAssumption DEF Next
  <2>3. CASE calls[i].api = "leaveChat"
    <3>1. Outcomes(db, calls[i])
            = IF CanLeave(db, Me, calls[i].subject)
              THEN {internalapi_leaveChat(db, Me, calls[i].subject)} ELSE {}
      BY <2>3 DEF Outcomes
    <3>2. LeaveChat(Me, calls[i].subject)
      BY <3>1 DEF LeaveChat, Commit
    <3>3. calls[i].subject \in Chats
      BY <1>1, <2>3 DEF Calls
    <3> QED
      BY <3>2, <3>3, RoomsAssumption DEF Next
  <2> QED
    BY <1>1, <2>1, <2>2, <2>3 DEF Calls
<1>3. CASE UNCHANGED db
    BY <1>3
<1> QED
    BY <1>2, <1>3 DEF Answer

\* To the server a step of the page is a request, or nothing.
LEMMA PageStepsServer ==
    ASSUME PageTyped, [PageNext]_vars
    PROVE  [Next]_db
BY AnswerIsRequest
   DEF PageNext, vars, OpenPage, Poll, ClickCreate, ClickLeave, CreateYes, LeaveYes,
       ClickNo, Popup, Request, Deliver, Lose, OthersAct

\* A membership of mine whose stamp is not newer than the list was before a
\* step is as it was.
LEMMA OldStampsStay ==
    ASSUME Inv, [Next]_db, NEW c \in Chats,
           Stamp(db', c) <= db.user[Me].chatList_HistoryId
    PROVE  Stamp(db', c) = Stamp(db, c) /\ Role(db', c) = Role(db, c)
<1>1. Inv'
    BY NextInv
<1>2. /\ db.user[Me].chatList_HistoryId \in Nat
      /\ db'.membership[c][Me].user_chatList_IncHistoryId \in Nat
    BY <1>1, Numbers, RoomsAssumption DEF Inv, DbInv
<1>3. \/ db'.membership[c][Me] = db.membership[c][Me]
      \/ db'.membership[c][Me].user_chatList_IncHistoryId
            > db.user[Me].chatList_HistoryId
    BY HistoriesMove, RoomsAssumption DEF Inv
<1> QED
    BY <1>2, <1>3 DEF Stamp, Role, get_role_of_user_in_chat

\* A step of the server leaves an answer true of what has not changed.
LEMMA AnswerStaysTrue ==
    ASSUME Inv, [Next]_db, NEW call, AnswerIsTrue(db, call),
           call.LocalHistoryId \in Nat, call.answer.HistoryId \in Nat,
           call.answer.HistoryId <= db.user[Me].chatList_HistoryId
    PROVE  AnswerIsTrue(db', call)
<1> SUFFICES ASSUME NEW c \in Chats, Stamp(db', c) <= call.answer.HistoryId
             PROVE  /\ Stamp(db', c) \in call.LocalHistoryId + 1 .. call.answer.HistoryId
                        => c \in DOMAIN call.answer.myChats
                    /\ c \in DOMAIN call.answer.myChats
                        => call.answer.myChats[c] = Role(db', c)
    BY DEF AnswerIsTrue
<1>1. Inv'
    BY NextInv
<1>2. db.user[Me].chatList_HistoryId \in Nat /\ Stamp(db', c) \in Nat
    BY <1>1, Numbers, RoomsAssumption DEF Inv, DbInv, Stamp
<1>3. Stamp(db', c) <= db.user[Me].chatList_HistoryId
    BY <1>2
<1>4. Stamp(db', c) = Stamp(db, c) /\ Role(db', c) = Role(db, c)
    BY <1>3, OldStampsStay
<1> QED
    BY <1>4 DEF AnswerIsTrue

\* the numbers the next lemmas compare
LEMMA RoomsNumbers ==
    ASSUME Inv, PageTyped
    PROVE  /\ db.user[Me].chatList_HistoryId \in Nat
           /\ page.LocalHistoryId \in Nat
           /\ \A c \in Chats : Stamp(db, c) \in Nat /\ Role(db, c) \in Roles
           /\ Len(calls) \in Nat
           /\ CallsTyped(calls, Pending, Refused)
<1>1. \A i \in 1 .. Len(calls) : calls[i] \in Calls
    BY DEF PageTyped
<1>2. CallsTyped(calls, Pending, Refused)
    BY <1>1 DEF CallsTyped, Heard, Calls, Replies
<1> QED
    BY <1>2, Numbers, RoomsAssumption
       DEF Inv, DbInv, PageTyped, Stamp, Role, get_role_of_user_in_chat

\* Steps of the server alone.
LEMMA ServerMoves ==
    ASSUME RoomsInv, [Next]_db, UNCHANGED <<isOpen, page, calls, overtaken>>
    PROVE  RoomsInv'
<1>1. Inv'
    BY NextInv DEF RoomsInv
<1>2. PageTyped'
    BY DEF RoomsInv, PageTyped
<1>3. ASSUME ~overtaken' PROVE InTurn'
  <2>1. InTurn
    BY <1>3 DEF RoomsInv
  <2>2. /\ db'.user[Me].chatList_HistoryId >= db.user[Me].chatList_HistoryId
        /\ db'.user[Me].chatList_HistoryId \in Nat
    BY <1>1, HistoriesMove, Numbers, RoomsAssumption DEF RoomsInv, Inv, DbInv
  <2>3. CallsInTurn(calls, page.LocalHistoryId, db'.user[Me].chatList_HistoryId,
                    Pending, Refused)
    BY <2>1, <2>2, RoomsNumbers, InTurnGrow DEF RoomsInv, InTurn
  <2>4. ASSUME NEW i \in 1 .. Len(calls), Heard(calls[i], Pending, Refused)
        PROVE  AnswerIsTrue(db', calls[i])
    <3>1. /\ AnswerIsTrue(db, calls[i])
          /\ calls[i].LocalHistoryId \in Nat /\ calls[i].answer.HistoryId \in Nat
          /\ calls[i].answer.HistoryId <= db.user[Me].chatList_HistoryId
      BY <2>1, <2>4, RoomsNumbers DEF RoomsInv, InTurn, CallsInTurn, CallsTyped
    <3> QED
      BY <3>1, AnswerStaysTrue DEF RoomsInv
  <2>5. ASSUME NEW c \in Chats, Stamp(db', c) \in 1 .. page.LocalHistoryId
        PROVE  TrueBox(c)'
    <3>1. Stamp(db', c) <= db.user[Me].chatList_HistoryId
      BY <2>1, <2>5, RoomsNumbers DEF RoomsInv, InTurn, CallsInTurn
    <3>2. Stamp(db', c) = Stamp(db, c) /\ Role(db', c) = Role(db, c)
      BY <3>1, OldStampsStay DEF RoomsInv
    <3> QED
      BY <2>1, <2>5, <3>2 DEF InTurn, TrueBox, Role
  <2> QED
    BY <2>3, <2>4, <2>5 DEF InTurn
<1> QED
    BY <1>1, <1>2, <1>3 DEF RoomsInv

-----------------------------------------------------------------------------
(* The page's part of a step *)

\* The page is opened: it is told of every chat that I was ever in.
LEMMA Opens ==
    ASSUME RoomsInv, OpenPage
    PROVE  RoomsInv'
<1> DEFINE reply == poll_update_chat_list_resp(db, Me, 0)
<1>1. /\ Inv /\ Inv' /\ db' = db /\ calls = <<>> /\ calls' = <<>>
      /\ page = BlankPage /\ isOpen' = TRUE /\ overtaken' = overtaken
      /\ page' = updateLocalStateFromChatListUpdResp(page, reply)
    BY DEF RoomsInv, PageTyped, OpenPage, Inv
<1>2. /\ reply.HistoryId = db.user[Me].chatList_HistoryId
      /\ DOMAIN reply.myChats = {c \in Chats : Stamp(db, c) > 0}
      /\ \A c \in DOMAIN reply.myChats : reply.myChats[c] = Role(db, c)
    BY DEF poll_update_chat_list_resp, Stamp, Role
<1> HIDE DEF reply
<1>3. /\ page'.LocalHistoryId = db.user[Me].chatList_HistoryId
      /\ page'.myChats \in [Chats -> Roles \cup {Stranger}]
      /\ \A c \in Chats : Stamp(db, c) > 0 => TrueBox(c)'
    BY <1>1, <1>2, RoomsNumbers
       DEF RoomsInv, updateLocalStateFromChatListUpdResp, BlankPage, TrueBox, Role
<1>4. PageTyped'
    BY <1>1, <1>3, RoomsNumbers DEF PageTyped, RoomsInv
<1>5. InTurn'
    BY <1>1, <1>3, RoomsNumbers DEF InTurn, CallsInTurn, RoomsInv, Stamp
<1> QED
    BY <1>1, <1>4, <1>5 DEF RoomsInv

\* The page makes a call.
LEMMA Calling ==
    ASSUME RoomsInv, NEW api, NEW subject, Request(api, subject),
           api \in {"chatListPollEvents", "createChat", "leaveChat"},
           subject \in Nicknames \cup {NoNickname} \cup Chats,
           api = "createChat" => subject \in Nicknames,
           api = "leaveChat" => subject \in Chats
    PROVE  RoomsInv'
<1> DEFINE call == [api |-> api, LocalHistoryId |-> page.LocalHistoryId,
                    subject |-> subject, answer |-> Pending]
<1>1. /\ Inv /\ PageTyped /\ db' = db /\ page' = page /\ isOpen /\ isOpen' = isOpen
      /\ overtaken' = overtaken /\ calls' = Append(calls, call)
    BY DEF RoomsInv, Request
<1>2. /\ call \in Calls /\ call.api = api /\ call.subject = subject
      /\ call.LocalHistoryId = page.LocalHistoryId /\ call.answer = Pending
    BY <1>1 DEF Calls, PageTyped
<1> HIDE DEF call
<1>3. /\ calls \in Seq(Calls) /\ Len(calls') = Len(calls) + 1
      /\ \A j \in 1 .. Len(calls) : calls'[j] = calls[j]
      /\ calls'[Len(calls) + 1] = call /\ calls' \in Seq(Calls)
      /\ Len(calls) \in Nat
    BY <1>1, <1>2 DEF PageTyped
<1>4. \A j \in 1 .. Len(calls') : j \in 1 .. Len(calls) \/ j = Len(calls) + 1
    BY <1>3
<1>5. PageTyped'
    BY <1>1, <1>2, <1>3, <1>4 DEF PageTyped
<1>6. ASSUME ~overtaken' PROVE InTurn'
  <2>1. InTurn
    BY <1>1, <1>6 DEF RoomsInv
  <2>2. CallsInTurn(calls', page.LocalHistoryId, db.user[Me].chatList_HistoryId,
                    Pending, Refused)
    BY <2>1, <1>1, <1>2, <1>3, RoomsNumbers, InTurnAppend DEF InTurn
  <2>3. \A j \in 1 .. Len(calls') : Heard(calls'[j], Pending, Refused)
            => j \in 1 .. Len(calls) /\ calls'[j] = calls[j]
    BY <1>2, <1>3, <1>4 DEF Heard
  <2>4. \A j \in 1 .. Len(calls) :
            Heard(calls[j], Pending, Refused) => AnswerIsTrue(db, calls[j])
    BY <2>1 DEF InTurn
  <2>5. \A x : AnswerIsTrue(db', x) <=> AnswerIsTrue(db, x)
    BY <1>1 DEF AnswerIsTrue, Stamp, Role
  <2>6. \A j \in 1 .. Len(calls') :
            Heard(calls'[j], Pending, Refused) => AnswerIsTrue(db', calls'[j])
    BY <2>3, <2>4, <2>5
  <2> QED
    BY <2>1, <2>2, <2>6, <1>1 DEF InTurn, TrueBox
<1> QED
    BY <1>1, <1>5, <1>6 DEF RoomsInv, Inv

\* The server answers a call.
LEMMA Answering ==
    ASSUME RoomsInv, NEW i \in 1 .. Len(calls), Answer(i)
    PROVE  RoomsInv'
<1> DEFINE reply == poll_update_chat_list_resp(db', Me, calls[i].LocalHistoryId)
<1>0. /\ Inv /\ PageTyped /\ page' = page /\ isOpen' = isOpen /\ [Next]_db
      /\ calls \in Seq(Calls) /\ calls[i] \in Calls /\ Len(calls) \in Nat
    BY AnswerIsRequest DEF RoomsInv, Answer, PageTyped
<1>1. Inv'
    BY <1>0, NextInv
<1>2. PICK answer : /\ calls' = [calls EXCEPT ![i].answer = answer]
                    /\ answer = Refused \/ answer = reply
  <2>1. CASE \E after \in {d \in Outcomes(db, calls[i]) : WithinBound(d)} :
                /\ db' = after
                /\ calls' = [calls EXCEPT ![i].answer =
                    poll_update_chat_list_resp(after, Me, calls[i].LocalHistoryId)]
    BY <2>1
  <2>2. CASE calls' = [calls EXCEPT ![i].answer = Refused]
    BY <2>2
  <2> QED
    BY <2>1, <2>2 DEF Answer
<1>3. /\ reply.HistoryId = db'.user[Me].chatList_HistoryId
      /\ DOMAIN reply.myChats
            = {c \in Chats : Stamp(db', c) > calls[i].LocalHistoryId}
      /\ \A c \in DOMAIN reply.myChats : reply.myChats[c] = Role(db', c)
    BY DEF poll_update_chat_list_resp, Stamp, Role
<1>4. reply \in Replies
  <2> DEFINE D == {c \in Chats : Stamp(db', c) > calls[i].LocalHistoryId}
             f == [c \in D |-> Role(db', c)]
  <2>1. db'.user[Me].chatList_HistoryId \in Nat /\ \A c \in Chats : Role(db', c) \in Roles
    BY <1>1, Numbers, RoomsAssumption
       DEF Inv, DbInv, Role, get_role_of_user_in_chat
  <2>2. f \in [D -> Roles] /\ D \in SUBSET Chats
    BY <2>1
  <2>3. reply = [myChats |-> f, HistoryId |-> db'.user[Me].chatList_HistoryId]
    BY DEF poll_update_chat_list_resp, Stamp, Role
  <2> HIDE DEF f, D
  <2> QED
    BY <2>1, <2>2, <2>3 DEF Replies
<1> HIDE DEF reply
<1>5. /\ calls' \in Seq(Calls) /\ Len(calls') = Len(calls)
      /\ \A j \in 1 .. Len(calls) : j # i => calls'[j] = calls[j]
      /\ calls'[i] = [calls[i] EXCEPT !.answer = answer]
  <2>1. [calls[i] EXCEPT !.answer = answer] \in Calls
    BY <1>0, <1>2, <1>4 DEF Calls
  <2> QED
    BY <1>0, <1>2, <2>1
<1>6. /\ calls'[i].api = calls[i].api /\ calls'[i].subject = calls[i].subject
      /\ calls'[i].LocalHistoryId = calls[i].LocalHistoryId
      /\ calls'[i].answer = answer
    BY <1>0, <1>5 DEF Calls
<1>7. PageTyped'
    BY <1>0, <1>5 DEF PageTyped
<1>8. ASSUME ~overtaken' PROVE InTurn'
  <2>1. /\ InTurn /\ calls[i].answer = Pending
        /\ \A j \in 1 .. i - 1 : calls[j].answer # Pending
    BY <1>8 DEF Answer, RoomsInv
  <2>2. /\ db'.user[Me].chatList_HistoryId >= db.user[Me].chatList_HistoryId
        /\ db'.user[Me].chatList_HistoryId \in Nat
    BY <1>0, <1>1, HistoriesMove, Numbers, RoomsAssumption DEF Inv, DbInv
  <2>3. answer = Refused \/ answer.HistoryId = db'.user[Me].chatList_HistoryId
    BY <1>2, <1>3
  <2>4. CallsInTurn(calls', page.LocalHistoryId, db'.user[Me].chatList_HistoryId,
                    Pending, Refused)
    <3>1. /\ CallsTyped(calls, Pending, Refused)
          /\ CallsInTurn(calls, page.LocalHistoryId, db.user[Me].chatList_HistoryId,
                         Pending, Refused)
          /\ db.user[Me].chatList_HistoryId \in Nat /\ page.LocalHistoryId \in Nat
      BY <1>0, <2>1, RoomsNumbers DEF InTurn
    <3> DEFINE last == db.user[Me].chatList_HistoryId
               now == db'.user[Me].chatList_HistoryId
               here == page.LocalHistoryId
               r == calls'
    <3>2. /\ last \in Nat /\ now \in Nat /\ now >= last /\ here \in Nat
          /\ CallsInTurn(calls, here, last, Pending, Refused)
          /\ answer = Refused \/ answer.HistoryId = now
          /\ Len(r) = Len(calls) /\ \A j \in 1 .. Len(calls) : j # i => r[j] = calls[j]
          /\ r[i].LocalHistoryId = calls[i].LocalHistoryId /\ r[i].answer = answer
      BY <1>5, <1>6, <2>2, <2>3, <3>1
    <3> HIDE DEF last, now, here, r
    <3>3. CallsInTurn(r, here, now, Pending, Refused)
      BY ZenonT(60), <1>0, <2>1, <3>1, <3>2, InTurnAnswer
    <3> QED
      BY <3>3 DEF last, now, here, r
  <2>5. ASSUME NEW j \in 1 .. Len(calls), j # i, Heard(calls[j], Pending, Refused)
        PROVE  AnswerIsTrue(db', calls'[j])
    <3>1. /\ AnswerIsTrue(db, calls[j])
          /\ calls[j].LocalHistoryId \in Nat /\ calls[j].answer.HistoryId \in Nat
          /\ calls[j].answer.HistoryId <= db.user[Me].chatList_HistoryId
      BY <1>0, <2>1, <2>5, RoomsNumbers DEF InTurn, CallsInTurn, CallsTyped
    <3> QED
      BY <1>0, <1>5, <2>5, <3>1, AnswerStaysTrue
  <2>6. ASSUME answer = reply PROVE AnswerIsTrue(db', calls'[i])
    <3>1. /\ calls'[i].answer.HistoryId = db'.user[Me].chatList_HistoryId
          /\ calls'[i].LocalHistoryId \in Nat
          /\ DOMAIN calls'[i].answer.myChats
                = {c \in Chats : Stamp(db', c) > calls'[i].LocalHistoryId}
          /\ \A c \in DOMAIN calls'[i].answer.myChats :
                calls'[i].answer.myChats[c] = Role(db', c)
      BY <1>0, <1>3, <1>6, <2>6 DEF Calls
    <3>2. \A c \in Chats : Stamp(db', c) \in Nat
      BY <1>1, Numbers, RoomsAssumption DEF Inv, DbInv, Stamp
    <3> QED
      BY <2>2, <3>1, <3>2 DEF AnswerIsTrue
  <2>7. ASSUME NEW c \in Chats, Stamp(db', c) \in 1 .. page.LocalHistoryId
        PROVE  TrueBox(c)'
    <3>1. Stamp(db', c) <= db.user[Me].chatList_HistoryId
      BY <1>0, <2>1, <2>7, RoomsNumbers DEF InTurn, CallsInTurn
    <3>2. Stamp(db', c) = Stamp(db, c) /\ Role(db', c) = Role(db, c)
      BY <1>0, <3>1, OldStampsStay
    <3> QED
      BY <1>0, <2>1, <2>7, <3>2 DEF InTurn, TrueBox, Role
  <2>8. \A j \in 1 .. Len(calls') :
            Heard(calls'[j], Pending, Refused) => AnswerIsTrue(db', calls'[j])
    BY <1>2, <1>5, <1>6, <2>5, <2>6 DEF Heard
  <2> QED
    BY <1>0, <2>4, <2>7, <2>8 DEF InTurn
<1> QED
    BY <1>1, <1>7, <1>8 DEF RoomsInv

\* A call goes, its answer heard or not: those that remain are as they were.
LEMMA Going ==
    ASSUME PageTyped, NEW i \in 1 .. Len(calls), calls' = RemoveAt(calls, i)
    PROVE  /\ isOpen /\ calls' \in Seq(Calls)
           /\ \A j \in 1 .. Len(calls') :
                \E k \in 1 .. Len(calls) : calls'[j] = calls[k]
<1>1. calls \in Seq(Calls) /\ (~isOpen => calls = <<>>)
    BY DEF PageTyped
<1>2. isOpen
    BY <1>1
<1>3. RemoveAt(calls, i) \in Seq(Calls)
    BY <1>1, RemoveAtFacts
<1>4. \A j \in 1 .. Len(RemoveAt(calls, i)) :
        \E k \in 1 .. Len(calls) : RemoveAt(calls, i)[j] = calls[k]
    BY <1>1, Remain
<1> QED
    BY <1>2, <1>3, <1>4

\* A call goes without an effect on the page: it was lost, or it failed.
LEMMA Ending ==
    ASSUME RoomsInv, NEW i \in 1 .. Len(calls), calls' = RemoveAt(calls, i),
           UNCHANGED <<db, isOpen, page>>, overtaken => overtaken'
    PROVE  RoomsInv'
<1>1. PageTyped /\ Inv
    BY DEF RoomsInv
<1>2. PageTyped' /\ Inv'
    BY <1>1, Going DEF PageTyped, Inv
<1>3. ASSUME ~overtaken' PROVE InTurn'
  <2>1. InTurn /\ calls \in Seq(Calls)
    BY <1>3 DEF RoomsInv, PageTyped
  <2>2. CallsInTurn(calls', page.LocalHistoryId, db.user[Me].chatList_HistoryId,
                    Pending, Refused)
    BY <1>1, <2>1, RoomsNumbers, InTurnRemove DEF InTurn
  <2>3. \A j \in 1 .. Len(calls') :
            Heard(calls'[j], Pending, Refused) => AnswerIsTrue(db, calls'[j])
    BY <1>1, <2>1, Going DEF InTurn
  <2> QED
    BY <1>1, <2>1, <2>2, <2>3 DEF InTurn, TrueBox
<1> QED
    BY <1>2, <1>3 DEF RoomsInv

\* An answer arrives that says something.
LEMMA Delivering ==
    ASSUME RoomsInv, NEW i \in 1 .. Len(calls), Deliver(i),
           calls[i].answer # Refused
    PROVE  RoomsInv'
<1> DEFINE reply == calls[i].answer
<1>1. /\ calls' = RemoveAt(calls, i) /\ db' = db /\ isOpen' = isOpen
      /\ overtaken' = (overtaken \/ i # 1)
      /\ page' = updateLocalStateFromChatListUpdResp(page, reply)
      /\ PageTyped /\ Inv /\ calls \in Seq(Calls)
      /\ Heard(calls[i], Pending, Refused)
    BY DEF Deliver, RoomsInv, PageTyped, Heard
<1>2. /\ reply \in Replies /\ reply.HistoryId \in Nat
      /\ \A c \in DOMAIN reply.myChats : reply.myChats[c] \in Roles
    BY <1>1 DEF Calls, Heard, Replies
<1>3. /\ page'.LocalHistoryId = reply.HistoryId
      /\ page'.myChats \in [Chats -> Roles \cup {Stranger}]
      /\ \A c \in Chats :
            page'.myChats[c] =
                IF /\ c \in DOMAIN reply.myChats
                   /\ page.myChats[c] # Stranger \/ reply.myChats[c] # "deleted"
                THEN reply.myChats[c] ELSE page.myChats[c]
    BY <1>1, <1>2 DEF updateLocalStateFromChatListUpdResp, PageTyped
<1>4. PageTyped' /\ Inv'
    BY <1>1, <1>2, <1>3, Going DEF PageTyped, Inv
<1> HIDE DEF reply
<1>5. ASSUME ~overtaken' PROVE InTurn'
  <2>1. InTurn /\ i = 1
    BY <1>1, <1>5 DEF RoomsInv
  <2>2. CallsInTurn(calls', page'.LocalHistoryId, db.user[Me].chatList_HistoryId,
                    Pending, Refused)
    BY <1>1, <1>3, <2>1, RoomsNumbers, InTurnDeliver DEF InTurn, reply
  <2>3. \A j \in 1 .. Len(calls') :
            Heard(calls'[j], Pending, Refused) => AnswerIsTrue(db, calls'[j])
    BY <1>1, <2>1, Going DEF InTurn
  <2>4. ASSUME NEW c \in Chats, Stamp(db, c) \in 1 .. page'.LocalHistoryId
        PROVE  TrueBox(c)'
    <3>1. AnswerIsTrue(db, calls[i])
      BY <1>1, <2>1 DEF InTurn
    <3>2. CASE c \in DOMAIN reply.myChats
      <4>1. reply.myChats[c] = Role(db, c)
        BY <1>2, <1>3, <2>4, <3>1, <3>2, RoomsNumbers, <1>1 DEF AnswerIsTrue, reply
      <4> QED
        BY <1>1, <1>3, <3>2, <4>1 DEF TrueBox, Role
    <3>3. CASE c \notin DOMAIN reply.myChats
      <4>1. Stamp(db, c) <= calls[i].LocalHistoryId
        BY <1>1, <1>2, <1>3, <2>4, <3>1, <3>3, RoomsNumbers
           DEF AnswerIsTrue, reply, CallsTyped
      <4>2. Stamp(db, c) \in 1 .. page.LocalHistoryId
        BY <1>1, <1>2, <2>1, <2>4, <4>1, RoomsNumbers
           DEF InTurn, CallsInTurn, CallsTyped
      <4> QED
        BY <1>1, <1>3, <2>1, <3>3, <4>2 DEF InTurn, TrueBox
    <3> QED
      BY <3>2, <3>3
  <2> QED
    BY <1>1, <2>2, <2>3, <2>4 DEF InTurn
<1> QED
    BY <1>4, <1>5 DEF RoomsInv

-----------------------------------------------------------------------------
(* Every step *)

\* Every step of page, network or server keeps the invariant.
LEMMA RoomsNext == ASSUME RoomsInv, [PageNext]_vars PROVE RoomsInv'
<1>1. [Next]_db
    BY PageStepsServer DEF RoomsInv
<1>2. CASE OpenPage
    BY <1>2, Opens
<1>3. CASE Poll
    BY <1>3, Calling DEF Poll
<1>4. CASE \E nickname \in Nicknames : CreateYes(nickname)
    BY <1>4, Calling DEF CreateYes
<1>5. CASE LeaveYes
    BY <1>5, Calling DEF LeaveYes
<1>6. ASSUME NEW i \in 1 .. Len(calls), Answer(i) \/ Deliver(i) \/ Lose(i)
      PROVE  RoomsInv'
  <2>1. CASE Lose(i)
    BY <2>1, Ending DEF Lose
  <2>2. CASE Deliver(i) /\ calls[i].answer = Refused
    BY <2>2, Ending DEF Deliver
  <2> QED
    BY <1>6, <2>1, <2>2, Answering, Delivering
<1>7. CASE UNCHANGED <<isOpen, page, calls, overtaken>>
    BY <1>1, <1>7, ServerMoves
<1>8. /\ ClickCreate => UNCHANGED <<isOpen, page, calls, overtaken>>
      /\ \A c \in Chats : ClickLeave(c) => UNCHANGED <<isOpen, page, calls, overtaken>>
      /\ ClickNo => UNCHANGED <<isOpen, page, calls, overtaken>>
      /\ OthersAct => UNCHANGED <<isOpen, page, calls, overtaken>>
      /\ UNCHANGED vars => UNCHANGED <<isOpen, page, calls, overtaken>>
    BY DEF ClickCreate, ClickLeave, Popup, ClickNo, OthersAct, vars
<1> QED
    BY <1>2, <1>3, <1>4, <1>5, <1>6, <1>7, <1>8 DEF PageNext

\* The page with my chats never shows me a role that I no longer have, nor
\* misses a chat I am in, as far as its LocalHistoryId says that it knows:
\* for any number of chats, each with a counter of its own, as long as the
\* calls do not overtake each other (list-rooms.js).
THEOREM RoomsAreTrue == PageSpec => []ListIsTrue
<1>1. PageInit => RoomsInv
    BY RoomsInit
<1>2. RoomsInv /\ [PageNext]_vars => RoomsInv'
    BY RoomsNext
<1>3. RoomsInv => ListIsTrue
    BY DEF RoomsInv, InTurn, ListIsTrue, Stamp
<1> QED
    BY <1>1, <1>2, <1>3, PTL DEF PageSpec

\* To the server the page is one more client: whatever holds of the server
\* among its own requests holds with the page in front of it.
THEOREM RoomsAreServed == PageSpec => Spec
<1>1. PageInit => Init
    BY DEF PageInit
<1>2. PageInit => RoomsInv
    BY RoomsInit
<1>3. RoomsInv /\ [PageNext]_vars => RoomsInv'
    BY RoomsNext
<1>4. RoomsInv /\ [PageNext]_vars => [Next]_db
    BY PageStepsServer DEF RoomsInv
<1> QED
    BY <1>1, <1>2, <1>3, <1>4, PTL DEF PageSpec, Spec
=============================================================================
