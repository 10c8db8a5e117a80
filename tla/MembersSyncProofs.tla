-------------------------- MODULE MembersSyncProofs --------------------------
(***************************************************************************)
(* The members page: its buttons agree with its boxes whatever happens,    *)
(* and it is true to its history id, for any users and any number of calls *)
(* in flight.                                                              *)
(***************************************************************************)
EXTENDS MembersSync, ChatServerProofs

Pages ==
    [LocalHistoryId : Nat,
     members : [Users -> Roles \cup {Stranger}],
     box : [Users -> Roles \cup {Stranger}],
     kickButton : [Users -> BOOLEAN],
     myRoleHere : Roles \cup {Stranger}]

Replies == [members : UNION {[D -> Roles] : D \in SUBSET Users}, HistoryId : Nat]

\* A call carries what its api asks for.
Calls ==
    {call \in [api : {"chatPollEvents", "addMemberToChat", "removeMemberFromChat"},
               LocalHistoryId : Nat,
               alien : Users \cup {NoUser},
               makeReadOnly : BOOLEAN,
               answer : {Pending, Refused} \cup Replies] :
        call.api # "chatPollEvents" => call.alien \in Users}

\* Data keep their types, and there is no call without a page.
PageTyped ==
    /\ page \in Pages
    /\ calls \in Seq(Calls)
    /\ ~isOpen => page = BlankPage /\ calls = <<>>

\* Who has a box is in `members`, which is how all boxes are found when my
\* role changes; a button is there for another member when I am the admin.
Agree(p) ==
    \A u \in Users :
        /\ p.members[u] = Stranger <=> p.box[u] = Stranger
        /\ p.kickButton[u] <=>
            u # Me /\ p.myRoleHere = "admin" /\ p.box[u] \in Roles \ {"deleted"}

Stamp(d, u) == d.membership[OpenedChat][u].chat_IncHistoryId

Role(d, u) == get_role_of_user_in_chat(d, u, OpenedChat)

\* An answer holds every member that changed between the id the page asked
\* from and its own, and what it says is true of all that has not changed
\* since.
AnswerIsTrue(d, call) ==
    \A u \in Users :
        /\ Stamp(d, u) \in call.LocalHistoryId + 1 .. call.answer.HistoryId
            => u \in DOMAIN call.answer.members
        /\ Stamp(d, u) <= call.answer.HistoryId /\ u \in DOMAIN call.answer.members
            => call.answer.members[u] = Role(d, u)

\* What the page shows is true to its history id.
ShowsTruth(d, p, quiet) ==
    /\ \A u \in Users : Stamp(d, u) \in 1 .. p.LocalHistoryId =>
        /\ Role(d, u) # "deleted" => p.box[u] # Stranger
        /\ quiet => p.box[u] = Role(d, u)
                        \/ (Role(d, u) = "deleted" /\ p.box[u] = Stranger)
    /\ Stamp(d, Me) \in 1 .. p.LocalHistoryId => p.myRoleHere = Role(d, Me)

InTurn ==
    /\ CallsInTurn(calls, page.LocalHistoryId, db.chat[OpenedChat].it_HistoryId,
                   Pending, Refused)
    /\ \A i \in 1 .. Len(calls) :
        Heard(calls[i], Pending, Refused) => AnswerIsTrue(db, calls[i])
    /\ ShowsTruth(db, page, ~redrawn)

MembersInv == Inv /\ PageTyped /\ Agree(page) /\ (~overtaken => InTurn)

-----------------------------------------------------------------------------
(* What an answer does to the page *)

\* the boxes that are drawn, and those that are not
LEMMA Drawing ==
    ASSUME NEW p \in Pages, NEW roles, DOMAIN roles \subseteq Users,
           \A u \in DOMAIN roles : roles[u] \in Roles
    PROVE  /\ Draw(p, roles) \in Pages
           /\ Draw(p, roles).LocalHistoryId = p.LocalHistoryId
           /\ Draw(p, roles).members = p.members
           /\ Draw(p, roles).myRoleHere = p.myRoleHere
           /\ \A u \in Users :
                /\ Draw(p, roles).box[u]
                    = IF u \in DOMAIN roles THEN roles[u] ELSE p.box[u]
                /\ Draw(p, roles).kickButton[u]
                    <=> IF u \in DOMAIN roles
                        THEN /\ u # Me /\ p.myRoleHere = "admin"
                             /\ roles[u] # "deleted"
                        ELSE p.kickButton[u]
<1> DEFINE box == [u \in Users |-> IF u \in DOMAIN roles THEN roles[u] ELSE p.box[u]]
           button == [u \in Users |->
                        IF u \in DOMAIN roles
                        THEN shouldShowDeleteButton(u, roles[u], p.myRoleHere)
                        ELSE p.kickButton[u]]
<1>1. Draw(p, roles) = [p EXCEPT !.box = box, !.kickButton = button]
    BY DEF Draw, Pages
<1>2. box \in [Users -> Roles \cup {Stranger}]
    BY DEF Pages
<1>3. button \in [Users -> BOOLEAN]
    BY DEF Pages, shouldShowDeleteButton
<1>4. \A u \in Users :
        /\ box[u] = IF u \in DOMAIN roles THEN roles[u] ELSE p.box[u]
        /\ button[u] <=> IF u \in DOMAIN roles
                         THEN u # Me /\ p.myRoleHere = "admin" /\ roles[u] # "deleted"
                         ELSE p.kickButton[u]
    BY DEF shouldShowDeleteButton
<1> HIDE DEF box, button
<1>5. /\ Draw(p, roles) \in Pages /\ Draw(p, roles).box = box
      /\ Draw(p, roles).kickButton = button
      /\ Draw(p, roles).LocalHistoryId = p.LocalHistoryId
      /\ Draw(p, roles).members = p.members
      /\ Draw(p, roles).myRoleHere = p.myRoleHere
    BY <1>1, <1>2, <1>3 DEF Pages
<1> QED
    BY <1>4, <1>5

\* A new role of mine draws every box again, as it was at first.
LEMMA Redrawing ==
    ASSUME NEW p \in Pages, Agree(p), NEW resp,
           \A u \in DOMAIN resp.members : resp.members[u] \in Roles
    PROVE  LET q == RedrawForMyRole(p, resp)
           IN  /\ q \in Pages /\ Agree(q)
               /\ q.LocalHistoryId = p.LocalHistoryId /\ q.members = p.members
               /\ q.myRoleHere = IF Me \in DOMAIN resp.members
                                 THEN resp.members[Me] ELSE p.myRoleHere
               /\ ~MyRoleChanges(p, resp) => q = p
<1>1. CASE ~MyRoleChanges(p, resp)
    BY <1>1 DEF RedrawForMyRole, MyRoleChanges
<1>2. CASE MyRoleChanges(p, resp)
  <2> DEFINE r == [p EXCEPT !.myRoleHere = resp.members[Me]]
             roles == [u \in Known(p) |-> p.members[u]]
  <2>1. r \in Pages /\ r.LocalHistoryId = p.LocalHistoryId /\ r.members = p.members
        /\ r.myRoleHere = resp.members[Me] /\ r.box = p.box /\ r.kickButton = p.kickButton
    BY <1>2 DEF MyRoleChanges, Pages
  <2>2. /\ DOMAIN roles = {u \in Users : p.members[u] # Stranger}
        /\ \A u \in DOMAIN roles : roles[u] = p.members[u] /\ roles[u] \in Roles
    BY DEF Known, Pages
  <2>3. RedrawForMyRole(p, resp) = Draw(r, roles)
    BY <1>2 DEF RedrawForMyRole
  <2> HIDE DEF r, roles
  <2>4. DOMAIN roles \subseteq Users
    BY <2>2
  <2>5. \A u \in Users \ DOMAIN roles : r.box[u] = Stranger /\ ~r.kickButton[u]
    BY <2>1, <2>2, MembersAssumption DEF Agree
  <2> DEFINE q == Draw(r, roles)
  <2>6. /\ q \in Pages /\ q.LocalHistoryId = p.LocalHistoryId
        /\ q.members = p.members /\ q.myRoleHere = resp.members[Me]
        /\ \A u \in Users :
            /\ q.box[u] = IF u \in DOMAIN roles THEN roles[u] ELSE r.box[u]
            /\ q.kickButton[u] <=>
                IF u \in DOMAIN roles
                THEN u # Me /\ r.myRoleHere = "admin" /\ roles[u] # "deleted"
                ELSE r.kickButton[u]
    BY <2>1, <2>2, <2>4, Drawing
  <2> HIDE DEF q
  <2>7. Agree(q)
    BY <2>1, <2>2, <2>5, <2>6, MembersAssumption DEF Agree
  <2>8. Me \in DOMAIN resp.members
    BY <1>2 DEF MyRoleChanges
  <2> QED
    BY <1>2, <2>3, <2>6, <2>7, <2>8 DEF q
<1> QED
    BY <1>1, <1>2

\* who gets a box with an answer, or has one already
Shown(p, resp) ==
    {u \in DOMAIN resp.members :
        p.members[u] # Stranger \/ resp.members[u] # "deleted"}

\* Drawing the members of an answer keeps boxes and table in agreement.
LEMMA DrawingMembers ==
    ASSUME NEW p \in Pages, Agree(p), NEW resp, DOMAIN resp.members \subseteq Users,
           \A u \in DOMAIN resp.members : resp.members[u] \in Roles
    PROVE  LET q == DrawMembers(p, resp)
           IN  /\ q \in Pages /\ Agree(q)
               /\ q.LocalHistoryId = p.LocalHistoryId
               /\ q.myRoleHere = p.myRoleHere
               /\ \A u \in Users :
                    q.box[u] = IF u \in Shown(p, resp)
                               THEN resp.members[u] ELSE p.box[u]
<1> DEFINE new == {u \in DOMAIN resp.members \ Known(p) : resp.members[u] # "deleted"}
           all == new \cup (DOMAIN resp.members \cap Known(p))
           members == [u \in Users |-> IF u \in new THEN resp.members[u] ELSE p.members[u]]
           r == [p EXCEPT !.members = members]
           roles == [u \in all |-> resp.members[u]]
           q == Draw(r, roles)
<1>1. DrawMembers(p, resp) = q
    BY DEF DrawMembers, Pages
<1>2. all = Shown(p, resp) /\ all \subseteq Users
    BY DEF Shown, Known
<1>3. /\ DOMAIN roles = all /\ \A u \in all : roles[u] = resp.members[u]
      /\ \A u \in DOMAIN roles : roles[u] \in Roles
    BY <1>2
<1>4. /\ members \in [Users -> Roles \cup {Stranger}]
      /\ \A u \in Users :
            members[u] = IF u \in new THEN resp.members[u] ELSE p.members[u]
    BY DEF Pages
<1>5. \A u \in Users : u \in new <=> u \in all /\ p.members[u] = Stranger
    BY <1>2 DEF Known
<1> HIDE DEF members, new, all, roles
<1>6. /\ r \in Pages /\ r.members = members /\ r.box = p.box
      /\ r.kickButton = p.kickButton /\ r.LocalHistoryId = p.LocalHistoryId
      /\ r.myRoleHere = p.myRoleHere
    BY <1>4 DEF Pages
<1> HIDE DEF r
<1>7. /\ q \in Pages /\ q.LocalHistoryId = p.LocalHistoryId
      /\ q.members = members /\ q.myRoleHere = p.myRoleHere
      /\ \A u \in Users :
            /\ q.box[u] = IF u \in all THEN roles[u] ELSE p.box[u]
            /\ q.kickButton[u] <=>
                IF u \in all
                THEN u # Me /\ p.myRoleHere = "admin" /\ roles[u] # "deleted"
                ELSE p.kickButton[u]
    BY <1>2, <1>3, <1>6, Drawing
<1> HIDE DEF q
<1>8. ASSUME NEW u \in Users
      PROVE  /\ q.members[u] = Stranger <=> q.box[u] = Stranger
             /\ q.kickButton[u] <=>
                    /\ u # Me /\ q.myRoleHere = "admin"
                    /\ q.box[u] \in Roles \ {"deleted"}
  <2>1. CASE u \in all
    BY <1>3, <1>4, <1>5, <1>7, <2>1, MembersAssumption
  <2>2. CASE u \notin all
    BY <1>4, <1>5, <1>7, <2>2 DEF Agree
  <2> QED
    BY <2>1, <2>2
<1> QED
    BY <1>1, <1>2, <1>3, <1>7, <1>8 DEF Agree

\* ... and so does applying the whole answer.
LEMMA Updating ==
    ASSUME NEW p \in Pages, Agree(p), NEW resp, resp.HistoryId \in Nat,
           DOMAIN resp.members \subseteq Users,
           \A u \in DOMAIN resp.members : resp.members[u] \in Roles
    PROVE  LET q == updateLocalStateFromChatUpdResp(p, resp)
           IN  /\ q \in Pages /\ Agree(q)
               /\ q.LocalHistoryId = resp.HistoryId
               /\ q.myRoleHere = IF Me \in DOMAIN resp.members
                                 THEN resp.members[Me] ELSE p.myRoleHere
               /\ \A u \in Users :
                    /\ u \in Shown(p, resp) => q.box[u] = resp.members[u]
                    /\ u \notin Shown(p, resp) =>
                        /\ q.box[u] = Stranger <=> p.box[u] = Stranger
                        /\ ~MyRoleChanges(p, resp) => q.box[u] = p.box[u]
<1> DEFINE r == [p EXCEPT !.LocalHistoryId = resp.HistoryId]
           s == RedrawForMyRole(r, resp)
           q == DrawMembers(s, resp)
<1>1. /\ r \in Pages /\ r.LocalHistoryId = resp.HistoryId /\ r.members = p.members
      /\ r.myRoleHere = p.myRoleHere /\ r.box = p.box /\ r.kickButton = p.kickButton
    BY DEF Pages
<1>2. /\ Agree(r)
      /\ MyRoleChanges(r, resp) <=> MyRoleChanges(p, resp)
      /\ \A u \in Users : p.members[u] = Stranger <=> p.box[u] = Stranger
    BY <1>1 DEF Agree, MyRoleChanges
<1>3. updateLocalStateFromChatUpdResp(p, resp) = q
    BY DEF updateLocalStateFromChatUpdResp
<1> HIDE DEF r
<1>4. /\ s \in Pages /\ Agree(s) /\ s.LocalHistoryId = resp.HistoryId
      /\ s.members = p.members
      /\ s.myRoleHere = IF Me \in DOMAIN resp.members
                        THEN resp.members[Me] ELSE p.myRoleHere
      /\ ~MyRoleChanges(r, resp) => s = r
    BY <1>1, <1>2, Redrawing
<1>5. \A u \in Users : s.members[u] = Stranger <=> s.box[u] = Stranger
    BY <1>4 DEF Agree
<1> HIDE DEF s
<1>6. /\ q \in Pages /\ Agree(q) /\ q.LocalHistoryId = s.LocalHistoryId
      /\ q.myRoleHere = s.myRoleHere
      /\ \A u \in Users :
            q.box[u] = IF u \in Shown(s, resp) THEN resp.members[u] ELSE s.box[u]
    BY <1>4, DrawingMembers
<1>7. Shown(s, resp) = Shown(p, resp)
    BY <1>4 DEF Shown
<1> HIDE DEF q
<1>8. ASSUME NEW u \in Users, u \notin Shown(p, resp)
      PROVE  /\ q.box[u] = Stranger <=> p.box[u] = Stranger
             /\ ~MyRoleChanges(p, resp) => q.box[u] = p.box[u]
  <2>1. q.box[u] = s.box[u]
    BY <1>6, <1>7, <1>8
  <2> QED
    BY <1>1, <1>2, <1>4, <1>5, <2>1
<1>9. \A u \in Users : u \in Shown(p, resp) => q.box[u] = resp.members[u]
    BY <1>6, <1>7
<1> QED
    BY <1>3, <1>4, <1>6, <1>8, <1>9

-----------------------------------------------------------------------------
(* The server's part of a step *)

\* The invariant holds when the page is opened.
LEMMA MembersInit == ASSUME PageInit PROVE MembersInv
<1>1. Inv
    BY InitialInv DEF PageInit, Init, Inv
<1>2. PageTyped
    BY DEF PageInit, PageTyped, BlankPage, Pages
<1>3. Agree(page)
    BY MembersAssumption DEF PageInit, BlankPage, Agree
<1>4. InTurn
  <2>1. db.chat[OpenedChat].it_HistoryId \in Nat
    BY <1>1, Numbers, MembersAssumption DEF Inv, DbInv
  <2> QED
    BY <2>1 DEF PageInit, BlankPage, InTurn, CallsInTurn, ShowsTruth
<1> QED
    BY <1>1, <1>2, <1>3, <1>4 DEF MembersInv

\* To the server a call of the page is a request like any other.
LEMMA AnswerIsRequest ==
    ASSUME PageTyped, NEW i \in 1 .. Len(calls), Answer(i)
    PROVE  [Next]_db
<1>1. calls[i] \in Calls
    BY DEF PageTyped
<1>2. CASE Accepts(db, calls[i]) /\ WithinBound(Effect(db, calls[i]))
           /\ db' = Effect(db, calls[i])
  <2>1. CASE calls[i].api = "chatPollEvents"
    <3>1. Effect(db, calls[i]) = db
      BY <2>1, Zenon DEF Effect
    <3> QED
      BY <1>2, <3>1
  <2>2. CASE calls[i].api = "addMemberToChat"
    <3>1. /\ calls[i].alien \in Users /\ calls[i].makeReadOnly \in BOOLEAN
          /\ calls[i].api # "chatPollEvents"
      BY <1>1, <2>2 DEF Calls
    <3>2. /\ CanAddMember(db, Me, OpenedChat, calls[i].alien)
          /\ Effect(db, calls[i])
                = internalapi_addMemberToChat(db, Me, OpenedChat, calls[i].alien,
                                              calls[i].makeReadOnly)
      BY <1>2, <2>2 DEF Accepts, Effect
    <3>3. AddMemberToChat(Me, OpenedChat, calls[i].alien, calls[i].makeReadOnly)
      BY <1>2, <3>2 DEF AddMemberToChat, Commit
    <3> QED
      BY <3>1, <3>3, MembersAssumption DEF Next
  <2>3. CASE calls[i].api = "removeMemberFromChat"
    <3>1. calls[i].alien \in Users
      BY <1>1, <2>3 DEF Calls
    <3>2. /\ CanRemoveMember(db, Me, OpenedChat, calls[i].alien)
          /\ Effect(db, calls[i])
                = internalapi_removeMemberFromChat(db, Me, OpenedChat, calls[i].alien)
      BY <1>2, <2>3 DEF Accepts, Effect
    <3>3. RemoveMemberFromChat(Me, OpenedChat, calls[i].alien)
      BY <1>2, <3>2 DEF RemoveMemberFromChat, Commit
    <3> QED
      BY <3>1, <3>3, MembersAssumption DEF Next
  <2> QED
    BY <1>1, <2>1, <2>2, <2>3 DEF Calls
<1>3. CASE UNCHANGED db
    BY <1>3
<1> QED
    BY <1>2, <1>3 DEF Answer

\* To the server a step of the page is a request, or nothing.
LEMMA PageStepsServer ==
    ASSUME PageTyped, [PageNext]_vars
    PROVE  [Next]_db
BY AnswerIsRequest
   DEF PageNext, vars, OpenPage, Poll, ClickSummon, ClickKick, SummonYes, KickYes,
       ClickNo, Popup, Request, Deliver, Lose, OthersAct

\* A member whose stamp is not newer than the chat was before a
\* step is as it was.
LEMMA OldStampsStay ==
    ASSUME Inv, [Next]_db, NEW u \in Users,
           Stamp(db', u) <= db.chat[OpenedChat].it_HistoryId
    PROVE  Stamp(db', u) = Stamp(db, u) /\ Role(db', u) = Role(db, u)
<1>1. Inv'
    BY NextInv
<1>2. /\ db.chat[OpenedChat].it_HistoryId \in Nat
      /\ db'.membership[OpenedChat][u].chat_IncHistoryId \in Nat
    BY <1>1, Numbers, MembersAssumption DEF Inv, DbInv
<1>3. \/ db'.membership[OpenedChat][u] = db.membership[OpenedChat][u]
      \/ db'.membership[OpenedChat][u].chat_IncHistoryId
            > db.chat[OpenedChat].it_HistoryId
    BY HistoriesMove, MembersAssumption DEF Inv
<1> QED
    BY <1>2, <1>3 DEF Stamp, Role, get_role_of_user_in_chat

\* A step of the server leaves an answer true of what has not changed.
LEMMA AnswerStaysTrue ==
    ASSUME Inv, [Next]_db, NEW call, AnswerIsTrue(db, call),
           call.LocalHistoryId \in Nat, call.answer.HistoryId \in Nat,
           call.answer.HistoryId <= db.chat[OpenedChat].it_HistoryId
    PROVE  AnswerIsTrue(db', call)
<1> SUFFICES ASSUME NEW u \in Users, Stamp(db', u) <= call.answer.HistoryId
             PROVE  /\ Stamp(db', u) \in call.LocalHistoryId + 1 .. call.answer.HistoryId
                        => u \in DOMAIN call.answer.members
                    /\ u \in DOMAIN call.answer.members
                        => call.answer.members[u] = Role(db', u)
    BY DEF AnswerIsTrue
<1>1. Inv'
    BY NextInv
<1>2. db.chat[OpenedChat].it_HistoryId \in Nat /\ Stamp(db', u) \in Nat
    BY <1>1, Numbers, MembersAssumption DEF Inv, DbInv, Stamp
<1>3. Stamp(db', u) <= db.chat[OpenedChat].it_HistoryId
    BY <1>2
<1>4. Stamp(db', u) = Stamp(db, u) /\ Role(db', u) = Role(db, u)
    BY <1>3, OldStampsStay
<1> QED
    BY <1>4 DEF AnswerIsTrue

\* the numbers the next lemmas compare
LEMMA MembersNumbers ==
    ASSUME Inv, PageTyped
    PROVE  /\ db.chat[OpenedChat].it_HistoryId \in Nat
           /\ page.LocalHistoryId \in Nat
           /\ \A u \in Users : Stamp(db, u) \in Nat /\ Role(db, u) \in Roles
           /\ Len(calls) \in Nat
           /\ CallsTyped(calls, Pending, Refused)
<1>1. \A i \in 1 .. Len(calls) : calls[i] \in Calls
    BY DEF PageTyped
<1>2. CallsTyped(calls, Pending, Refused)
    BY <1>1 DEF CallsTyped, Heard, Calls, Replies
<1> QED
    BY <1>2, Numbers, MembersAssumption
       DEF Inv, DbInv, PageTyped, Pages, Stamp, Role, get_role_of_user_in_chat

\* ... and the page.
LEMMA ShownStaysTrue ==
    ASSUME Inv, [Next]_db, PageTyped, NEW quiet, ShowsTruth(db, page, quiet),
           page.LocalHistoryId <= db.chat[OpenedChat].it_HistoryId
    PROVE  ShowsTruth(db', page, quiet)
<1>1. ASSUME NEW u \in Users, Stamp(db', u) \in 1 .. page.LocalHistoryId
      PROVE  Stamp(db', u) = Stamp(db, u) /\ Role(db', u) = Role(db, u)
  <2>1. Stamp(db', u) <= db.chat[OpenedChat].it_HistoryId
    BY <1>1, MembersNumbers
  <2> QED
    BY <2>1, OldStampsStay
<1>2. ASSUME NEW u \in Users, Stamp(db', u) \in 1 .. page.LocalHistoryId
      PROVE  /\ Role(db', u) # "deleted" => page.box[u] # Stranger
             /\ quiet => \/ page.box[u] = Role(db', u)
                         \/ Role(db', u) = "deleted" /\ page.box[u] = Stranger
             /\ u = Me => page.myRoleHere = Role(db', u)
    BY <1>1, <1>2 DEF ShowsTruth
<1> QED
    BY <1>2, MembersAssumption DEF ShowsTruth

\* Steps of the server alone.
LEMMA ServerMoves ==
    ASSUME MembersInv, [Next]_db,
           UNCHANGED <<isOpen, page, calls, redrawn, overtaken>>
    PROVE  MembersInv'
<1>1. Inv'
    BY NextInv DEF MembersInv
<1>2. PageTyped' /\ Agree(page)'
    BY DEF MembersInv, PageTyped, Agree
<1>3. ASSUME ~overtaken' PROVE InTurn'
  <2>1. InTurn
    BY <1>3 DEF MembersInv
  <2>2. /\ db'.chat[OpenedChat].it_HistoryId >= db.chat[OpenedChat].it_HistoryId
        /\ db'.chat[OpenedChat].it_HistoryId \in Nat
    BY <1>1, HistoriesMove, Numbers, MembersAssumption DEF MembersInv, Inv, DbInv
  <2>3. CallsInTurn(calls, page.LocalHistoryId, db'.chat[OpenedChat].it_HistoryId,
                    Pending, Refused)
    BY <2>1, <2>2, MembersNumbers, InTurnGrow DEF MembersInv, InTurn
  <2>4. ASSUME NEW i \in 1 .. Len(calls), Heard(calls[i], Pending, Refused)
        PROVE  AnswerIsTrue(db', calls[i])
    <3>1. /\ AnswerIsTrue(db, calls[i])
          /\ calls[i].LocalHistoryId \in Nat /\ calls[i].answer.HistoryId \in Nat
          /\ calls[i].answer.HistoryId <= db.chat[OpenedChat].it_HistoryId
      BY <2>1, <2>4, MembersNumbers DEF MembersInv, InTurn, CallsInTurn, CallsTyped
    <3> QED
      BY <3>1, AnswerStaysTrue DEF MembersInv
  <2>5. ShowsTruth(db', page, ~redrawn)
    BY <2>1, ShownStaysTrue DEF MembersInv, InTurn, CallsInTurn
  <2> QED
    BY <2>3, <2>4, <2>5 DEF InTurn
<1> QED
    BY <1>1, <1>2, <1>3 DEF MembersInv

-----------------------------------------------------------------------------
(* The page's part of a step *)

\* The page is opened: it is told of everybody who was ever in the chat.
LEMMA Opens ==
    ASSUME MembersInv, OpenPage
    PROVE  MembersInv'
<1> DEFINE reply == ChatUpdResp(db, 0)
<1>1. /\ Inv /\ Inv' /\ db' = db /\ calls = <<>> /\ calls' = <<>>
      /\ page = BlankPage /\ isOpen' = TRUE
      /\ overtaken' = overtaken /\ redrawn' = redrawn
      /\ page' = updateLocalStateFromChatUpdResp(page, reply)
      /\ PageTyped /\ Agree(page)
    BY DEF MembersInv, PageTyped, OpenPage, Inv
<1>2. /\ reply.HistoryId = db.chat[OpenedChat].it_HistoryId
      /\ DOMAIN reply.members = {u \in Users : Stamp(db, u) > 0}
      /\ \A u \in DOMAIN reply.members : reply.members[u] = Role(db, u)
    BY DEF ChatUpdResp, poll_update_chat_resp_members, Stamp, Role
<1> HIDE DEF reply
<1>3. /\ page' \in Pages /\ Agree(page')
      /\ page'.LocalHistoryId = reply.HistoryId
      /\ page'.myRoleHere = IF Me \in DOMAIN reply.members
                            THEN reply.members[Me] ELSE page.myRoleHere
      /\ \A u \in Users :
            /\ u \in Shown(page, reply) => page'.box[u] = reply.members[u]
            /\ u \notin Shown(page, reply) =>
                /\ page'.box[u] = Stranger <=> page.box[u] = Stranger
                /\ ~MyRoleChanges(page, reply) => page'.box[u] = page.box[u]
    BY <1>1, <1>2, MembersNumbers, Updating DEF PageTyped
<1>4. PageTyped' /\ Agree(page)'
    BY <1>1, <1>3 DEF PageTyped
<1>5. InTurn'
  <2>1. CallsInTurn(<<>>, page'.LocalHistoryId, db.chat[OpenedChat].it_HistoryId,
                    Pending, Refused)
    BY <1>1, <1>2, <1>3, MembersNumbers DEF CallsInTurn
  <2>2. ASSUME NEW u \in Users, Stamp(db, u) \in 1 .. page'.LocalHistoryId
        PROVE  \/ page'.box[u] = Role(db, u)
               \/ Role(db, u) = "deleted" /\ page'.box[u] = Stranger
    <3>1. u \in DOMAIN reply.members /\ reply.members[u] = Role(db, u)
      BY <1>1, <1>2, <2>2, MembersNumbers
    <3>2. CASE u \in Shown(page, reply)
      BY <1>3, <3>1, <3>2
    <3>3. CASE u \notin Shown(page, reply)
      BY <1>1, <1>3, <3>1, <3>3 DEF Shown, BlankPage
    <3> QED
      BY <3>2, <3>3
  <2>3. Stamp(db, Me) \in 1 .. page'.LocalHistoryId => page'.myRoleHere = Role(db, Me)
    BY <1>1, <1>2, <1>3, MembersNumbers, MembersAssumption
  <2>4. \A u \in Users : Role(db, u) # Stranger
    BY <1>1, MembersNumbers, MembersAssumption
  <2>5. ShowsTruth(db, page', ~redrawn)
    BY <2>2, <2>3, <2>4 DEF ShowsTruth
  <2> QED
    BY <1>1, <2>1, <2>5 DEF InTurn
<1> QED
    BY <1>1, <1>4, <1>5 DEF MembersInv

\* The page makes a call.
LEMMA Calling ==
    ASSUME MembersInv, NEW api, NEW alien, NEW makeReadOnly \in BOOLEAN,
           Request(api, alien, makeReadOnly), UNCHANGED redrawn,
           api \in {"chatPollEvents", "addMemberToChat", "removeMemberFromChat"},
           alien \in Users \cup {NoUser},
           api # "chatPollEvents" => alien \in Users
    PROVE  MembersInv'
<1> DEFINE call == [api |-> api, LocalHistoryId |-> page.LocalHistoryId,
                    alien |-> alien, makeReadOnly |-> makeReadOnly,
                    answer |-> Pending]
<1>1. /\ Inv /\ PageTyped /\ db' = db /\ page' = page /\ isOpen /\ isOpen' = isOpen
      /\ overtaken' = overtaken /\ redrawn' = redrawn
      /\ calls' = Append(calls, call) /\ Agree(page)
    BY DEF MembersInv, Request
<1>2. /\ call \in Calls
      /\ call.LocalHistoryId = page.LocalHistoryId /\ call.answer = Pending
    BY <1>1 DEF Calls, PageTyped, Pages
<1> HIDE DEF call
<1>3. /\ calls \in Seq(Calls) /\ Len(calls') = Len(calls) + 1
      /\ \A j \in 1 .. Len(calls) : calls'[j] = calls[j]
      /\ calls'[Len(calls) + 1] = call /\ calls' \in Seq(Calls)
      /\ Len(calls) \in Nat
    BY <1>1, <1>2 DEF PageTyped
<1>4. \A j \in 1 .. Len(calls') : j \in 1 .. Len(calls) \/ j = Len(calls) + 1
    BY <1>3
<1>5. PageTyped' /\ Agree(page)'
    BY <1>1, <1>3 DEF PageTyped
<1>6. ASSUME ~overtaken' PROVE InTurn'
  <2>1. InTurn
    BY <1>1, <1>6 DEF MembersInv
  <2>2. CallsInTurn(calls', page.LocalHistoryId, db.chat[OpenedChat].it_HistoryId,
                    Pending, Refused)
    BY <2>1, <1>1, <1>2, <1>3, MembersNumbers, InTurnAppend DEF InTurn
  <2>3. \A j \in 1 .. Len(calls') : Heard(calls'[j], Pending, Refused)
            => j \in 1 .. Len(calls) /\ calls'[j] = calls[j]
    BY <1>2, <1>3, <1>4 DEF Heard
  <2>4. \A j \in 1 .. Len(calls') :
            Heard(calls'[j], Pending, Refused) => AnswerIsTrue(db, calls'[j])
    BY <2>1, <2>3 DEF InTurn
  <2> QED
    BY <2>1, <2>2, <2>4, <1>1 DEF InTurn
<1> QED
    BY <1>1, <1>5, <1>6 DEF MembersInv, Inv

\* The server answers a call.
LEMMA Answering ==
    ASSUME MembersInv, NEW i \in 1 .. Len(calls), Answer(i)
    PROVE  MembersInv'
<1> DEFINE reply == ChatUpdResp(db', calls[i].LocalHistoryId)
<1>0. /\ Inv /\ PageTyped /\ Agree(page) /\ page' = page /\ isOpen' = isOpen
      /\ redrawn' = redrawn /\ [Next]_db
      /\ calls \in Seq(Calls) /\ calls[i] \in Calls /\ Len(calls) \in Nat
    BY AnswerIsRequest DEF MembersInv, Answer, PageTyped
<1>1. Inv'
    BY <1>0, NextInv
<1>2. PICK answer : /\ calls' = [calls EXCEPT ![i].answer = answer]
                    /\ answer = Refused \/ answer = reply
    BY DEF Answer
<1>3. /\ reply.HistoryId = db'.chat[OpenedChat].it_HistoryId
      /\ DOMAIN reply.members
            = {u \in Users : Stamp(db', u) > calls[i].LocalHistoryId}
      /\ \A u \in DOMAIN reply.members : reply.members[u] = Role(db', u)
    BY DEF ChatUpdResp, poll_update_chat_resp_members, Stamp, Role
<1>4. reply \in Replies
  <2> DEFINE D == {u \in Users : Stamp(db', u) > calls[i].LocalHistoryId}
             f == [u \in D |-> Role(db', u)]
  <2>1. /\ db'.chat[OpenedChat].it_HistoryId \in Nat
        /\ \A u \in Users : Role(db', u) \in Roles
    BY <1>1, Numbers, MembersAssumption
       DEF Inv, DbInv, Role, get_role_of_user_in_chat
  <2>2. f \in [D -> Roles] /\ D \in SUBSET Users
    BY <2>1
  <2>3. reply = [members |-> f, HistoryId |-> db'.chat[OpenedChat].it_HistoryId]
    BY DEF ChatUpdResp, poll_update_chat_resp_members, Stamp, Role
  <2> HIDE DEF f, D
  <2> QED
    BY <2>1, <2>2, <2>3 DEF Replies
<1> HIDE DEF reply
<1>5. /\ calls' \in Seq(Calls) /\ Len(calls') = Len(calls)
      /\ \A j \in 1 .. Len(calls) : j # i => calls'[j] = calls[j]
      /\ calls'[i] = [calls[i] EXCEPT !.answer = answer]
  <2>1. [calls[i] EXCEPT !.answer = answer] \in Calls
    BY <1>0, <1>2, <1>4 DEF Calls
  <2> QED
    BY <1>0, <1>2, <2>1
<1>6. /\ calls'[i].LocalHistoryId = calls[i].LocalHistoryId
      /\ calls'[i].answer = answer
    BY <1>0, <1>5 DEF Calls
<1>7. PageTyped' /\ Agree(page)'
    BY <1>0, <1>5 DEF PageTyped
<1>8. ASSUME ~overtaken' PROVE InTurn'
  <2>1. /\ InTurn /\ calls[i].answer = Pending
        /\ \A j \in 1 .. i - 1 : calls[j].answer # Pending
    BY <1>8 DEF Answer, MembersInv
  <2>2. /\ db'.chat[OpenedChat].it_HistoryId >= db.chat[OpenedChat].it_HistoryId
        /\ db'.chat[OpenedChat].it_HistoryId \in Nat
    BY <1>0, <1>1, HistoriesMove, Numbers, MembersAssumption DEF Inv, DbInv
  <2>3. answer = Refused \/ answer.HistoryId = db'.chat[OpenedChat].it_HistoryId
    BY <1>2, <1>3
  <2>4. CallsInTurn(calls', page.LocalHistoryId, db'.chat[OpenedChat].it_HistoryId,
                    Pending, Refused)
    <3>1. /\ CallsTyped(calls, Pending, Refused)
          /\ CallsInTurn(calls, page.LocalHistoryId, db.chat[OpenedChat].it_HistoryId,
                         Pending, Refused)
          /\ db.chat[OpenedChat].it_HistoryId \in Nat /\ page.LocalHistoryId \in Nat
      BY <1>0, <2>1, MembersNumbers DEF InTurn
    <3> DEFINE last == db.chat[OpenedChat].it_HistoryId
               now == db'.chat[OpenedChat].it_HistoryId
               here == page.LocalHistoryId
               r == calls'
    <3>2. /\ last \in Nat /\ now \in Nat /\ now >= last /\ here \in Nat
          /\ CallsInTurn(calls, here, last, Pending, Refused)
          /\ answer = Refused \/ answer.HistoryId = now
          /\ Len(r) = Len(calls) /\ \A j \in 1 .. Len(calls) : j # i => r[j] = calls[j]
          /\ r[i].LocalHistoryId = calls[i].LocalHistoryId /\ r[i].answer = answer
      BY <1>5, <1>6, <2>2, <2>3, <3>1
    <3> HIDE DEF last, now, here, r
    <3>3. CallsInTurn(r, here, now, Pending, Refused)
      BY ZenonT(60), <1>0, <2>1, <3>1, <3>2, InTurnAnswer
    <3> QED
      BY <3>3 DEF last, now, here, r
  <2>5. ASSUME NEW j \in 1 .. Len(calls), j # i, Heard(calls[j], Pending, Refused)
        PROVE  AnswerIsTrue(db', calls'[j])
    <3>1. /\ AnswerIsTrue(db, calls[j])
          /\ calls[j].LocalHistoryId \in Nat /\ calls[j].answer.HistoryId \in Nat
          /\ calls[j].answer.HistoryId <= db.chat[OpenedChat].it_HistoryId
      BY <1>0, <2>1, <2>5, MembersNumbers DEF InTurn, CallsInTurn, CallsTyped
    <3> QED
      BY <1>0, <1>5, <2>5, <3>1, AnswerStaysTrue
  <2>6. ASSUME answer = reply PROVE AnswerIsTrue(db', calls'[i])
    <3>1. /\ calls'[i].answer.HistoryId = db'.chat[OpenedChat].it_HistoryId
          /\ calls'[i].LocalHistoryId \in Nat
          /\ DOMAIN calls'[i].answer.members
                = {u \in Users : Stamp(db', u) > calls'[i].LocalHistoryId}
          /\ \A u \in DOMAIN calls'[i].answer.members :
                calls'[i].answer.members[u] = Role(db', u)
      BY <1>0, <1>3, <1>6, <2>6 DEF Calls
    <3>2. \A u \in Users : Stamp(db', u) \in Nat
      BY <1>1, Numbers, MembersAssumption DEF Inv, DbInv, Stamp
    <3> QED
      BY <2>2, <3>1, <3>2 DEF AnswerIsTrue
  <2>7. ShowsTruth(db', page, ~redrawn)
    BY <1>0, <2>1, ShownStaysTrue DEF InTurn, CallsInTurn
  <2>8. \A j \in 1 .. Len(calls') :
            Heard(calls'[j], Pending, Refused) => AnswerIsTrue(db', calls'[j])
    BY <1>2, <1>5, <1>6, <2>5, <2>6 DEF Heard
  <2> QED
    BY <1>0, <2>4, <2>7, <2>8 DEF InTurn
<1> QED
    BY <1>1, <1>7, <1>8 DEF MembersInv

\* A call goes, its answer heard or not: those that remain are as they were.
LEMMA Going ==
    ASSUME PageTyped, NEW i \in 1 .. Len(calls), calls' = RemoveAt(calls, i)
    PROVE  /\ isOpen /\ calls' \in Seq(Calls)
           /\ \A j \in 1 .. Len(calls') :
                \E k \in 1 .. Len(calls) : calls'[j] = calls[k]
<1>1. calls \in Seq(Calls) /\ (~isOpen => calls = <<>>)
    BY DEF PageTyped
<1>2. isOpen
    BY <1>1
<1>3. RemoveAt(calls, i) \in Seq(Calls)
    BY <1>1, RemoveAtFacts
<1>4. \A j \in 1 .. Len(RemoveAt(calls, i)) :
        \E k \in 1 .. Len(calls) : RemoveAt(calls, i)[j] = calls[k]
    BY <1>1, Remain
<1> QED
    BY <1>2, <1>3, <1>4

\* A call goes without an effect on the page: it was lost, or it failed.
LEMMA Ending ==
    ASSUME MembersInv, NEW i \in 1 .. Len(calls), calls' = RemoveAt(calls, i),
           UNCHANGED <<db, isOpen, page, redrawn>>, overtaken => overtaken'
    PROVE  MembersInv'
<1>1. PageTyped /\ Inv /\ Agree(page)
    BY DEF MembersInv
<1>2. PageTyped' /\ Inv' /\ Agree(page)'
    BY <1>1, Going DEF PageTyped, Inv, Agree
<1>3. ASSUME ~overtaken' PROVE InTurn'
  <2>1. InTurn /\ calls \in Seq(Calls)
    BY <1>3 DEF MembersInv, PageTyped
  <2>2. CallsInTurn(calls', page.LocalHistoryId, db.chat[OpenedChat].it_HistoryId,
                    Pending, Refused)
    BY <1>1, <2>1, MembersNumbers, InTurnRemove DEF InTurn
  <2>3. \A j \in 1 .. Len(calls') :
            Heard(calls'[j], Pending, Refused) => AnswerIsTrue(db, calls'[j])
    BY <1>1, <2>1, Going DEF InTurn
  <2> QED
    BY <1>1, <2>1, <2>2, <2>3 DEF InTurn
<1> QED
    BY <1>2, <1>3 DEF MembersInv

\* An answer arrives that says something.
LEMMA Delivering ==
    ASSUME MembersInv, NEW i \in 1 .. Len(calls), Deliver(i),
           calls[i].answer # Refused
    PROVE  MembersInv'
<1> DEFINE reply == calls[i].answer
<1>1. /\ calls' = RemoveAt(calls, i) /\ db' = db /\ isOpen' = isOpen
      /\ overtaken' = (overtaken \/ i # 1)
      /\ page' = updateLocalStateFromChatUpdResp(page, reply)
      /\ redrawn' = (redrawn \/ MyRoleChanges(page, reply))
      /\ PageTyped /\ Inv /\ Agree(page) /\ page \in Pages
      /\ calls \in Seq(Calls) /\ Heard(calls[i], Pending, Refused)
    BY DEF Deliver, MembersInv, PageTyped, Heard
<1>2. /\ reply \in Replies /\ reply.HistoryId \in Nat
      /\ DOMAIN reply.members \subseteq Users
      /\ \A u \in DOMAIN reply.members : reply.members[u] \in Roles
    BY <1>1 DEF Calls, Heard, Replies
<1> HIDE DEF reply
<1>3. /\ page' \in Pages /\ Agree(page')
      /\ page'.LocalHistoryId = reply.HistoryId
      /\ page'.myRoleHere = IF Me \in DOMAIN reply.members
                            THEN reply.members[Me] ELSE page.myRoleHere
      /\ \A u \in Users :
            /\ u \in Shown(page, reply) => page'.box[u] = reply.members[u]
            /\ u \notin Shown(page, reply) =>
                /\ page'.box[u] = Stranger <=> page.box[u] = Stranger
                /\ ~MyRoleChanges(page, reply) => page'.box[u] = page.box[u]
    BY <1>1, <1>2, Updating
<1>4. PageTyped' /\ Inv' /\ Agree(page)'
    BY <1>1, <1>3, Going DEF PageTyped, Inv
<1>5. ASSUME ~overtaken' PROVE InTurn'
  <2>1. InTurn /\ i = 1
    BY <1>1, <1>5 DEF MembersInv
  <2>2. CallsInTurn(calls', page'.LocalHistoryId, db.chat[OpenedChat].it_HistoryId,
                    Pending, Refused)
    BY <1>1, <1>3, <2>1, MembersNumbers, InTurnDeliver DEF InTurn, reply
  <2>3. \A j \in 1 .. Len(calls') :
            Heard(calls'[j], Pending, Refused) => AnswerIsTrue(db, calls'[j])
    BY <1>1, <2>1, Going DEF InTurn
  <2>4. ASSUME NEW u \in Users, Stamp(db, u) \in 1 .. page'.LocalHistoryId
        PROVE  IF u \in DOMAIN reply.members
               THEN reply.members[u] = Role(db, u)
               ELSE Stamp(db, u) \in 1 .. page.LocalHistoryId
    <3>1. AnswerIsTrue(db, calls[i])
      BY <1>1, <2>1 DEF InTurn
    <3>2. CASE u \in DOMAIN reply.members
      BY <1>1, <1>2, <1>3, <2>4, <3>1, <3>2, MembersNumbers DEF AnswerIsTrue, reply
    <3>3. CASE u \notin DOMAIN reply.members
      <4>1. Stamp(db, u) <= calls[i].LocalHistoryId
        BY <1>1, <1>2, <1>3, <2>4, <3>1, <3>3, MembersNumbers
           DEF AnswerIsTrue, reply, CallsTyped
      <4> QED
        BY <1>1, <2>1, <2>4, <3>3, <4>1, MembersNumbers
           DEF InTurn, CallsInTurn, CallsTyped
    <3> QED
      BY <3>2, <3>3
  <2>5. ASSUME NEW u \in Users, Stamp(db, u) \in 1 .. page'.LocalHistoryId
        PROVE  /\ Role(db, u) # "deleted" => page'.box[u] # Stranger
               /\ ~redrawn' => \/ page'.box[u] = Role(db, u)
                               \/ Role(db, u) = "deleted" /\ page'.box[u] = Stranger
    <3>1. Role(db, u) # Stranger
      BY <1>1, MembersNumbers, MembersAssumption
    <3>2. CASE u \in Shown(page, reply)
      <4>1. page'.box[u] = Role(db, u)
        BY <1>3, <2>4, <2>5, <3>2 DEF Shown
      <4> QED
        BY <3>1, <4>1
    <3>3. CASE u \in DOMAIN reply.members /\ u \notin Shown(page, reply)
      <4>1. Role(db, u) = "deleted" /\ page.box[u] = Stranger
        BY <1>1, <2>4, <2>5, <3>3 DEF Shown, Agree
      <4> QED
        BY <1>3, <3>3, <4>1
    <3>4. CASE u \notin DOMAIN reply.members
      <4>1. Stamp(db, u) \in 1 .. page.LocalHistoryId /\ u \notin Shown(page, reply)
        BY <2>4, <2>5, <3>4 DEF Shown
      <4>2. /\ Role(db, u) # "deleted" => page.box[u] # Stranger
            /\ ~redrawn => \/ page.box[u] = Role(db, u)
                           \/ Role(db, u) = "deleted" /\ page.box[u] = Stranger
        BY <2>1, <4>1 DEF InTurn, ShowsTruth
      <4> QED
        BY <1>1, <1>3, <4>1, <4>2
    <3> QED
      BY <3>2, <3>3, <3>4
  <2>6. Stamp(db, Me) \in 1 .. page'.LocalHistoryId => page'.myRoleHere = Role(db, Me)
    BY <1>3, <2>1, <2>4, MembersAssumption DEF InTurn, ShowsTruth
  <2>7. ShowsTruth(db, page', ~redrawn')
    BY <2>5, <2>6 DEF ShowsTruth
  <2> QED
    BY <1>1, <2>2, <2>3, <2>7 DEF InTurn
<1> QED
    BY <1>4, <1>5 DEF MembersInv

-----------------------------------------------------------------------------
(* Every step *)

\* Every step of page, network or server keeps the invariant.
LEMMA MembersNext == ASSUME MembersInv, [PageNext]_vars PROVE MembersInv'
<1>1. [Next]_db
    BY PageStepsServer DEF MembersInv
<1>2. CASE OpenPage
    BY <1>2, Opens
<1>3. CASE Poll
    BY <1>3, Calling DEF Poll, Request
<1>4. CASE \E alien \in Users, makeReadOnly \in BOOLEAN : SummonYes(alien, makeReadOnly)
    BY <1>4, Calling DEF SummonYes, Request
<1>5. CASE KickYes
    BY <1>5, Calling DEF KickYes, Request
<1>6. ASSUME NEW i \in 1 .. Len(calls), Answer(i) \/ Deliver(i) \/ Lose(i)
      PROVE  MembersInv'
  <2>1. CASE Lose(i)
    BY <2>1, Ending DEF Lose
  <2>2. CASE Deliver(i) /\ calls[i].answer = Refused
    BY <2>2, Ending DEF Deliver
  <2> QED
    BY <1>6, <2>1, <2>2, Answering, Delivering
<1>7. CASE UNCHANGED <<isOpen, page, calls, redrawn, overtaken>>
    BY <1>1, <1>7, ServerMoves
<1>8. /\ ClickSummon => UNCHANGED <<isOpen, page, calls, redrawn, overtaken>>
      /\ \A u \in Users :
            ClickKick(u) => UNCHANGED <<isOpen, page, calls, redrawn, overtaken>>
      /\ ClickNo => UNCHANGED <<isOpen, page, calls, redrawn, overtaken>>
      /\ OthersAct => UNCHANGED <<isOpen, page, calls, redrawn, overtaken>>
      /\ UNCHANGED vars => UNCHANGED <<isOpen, page, calls, redrawn, overtaken>>
    BY DEF ClickSummon, ClickKick, Popup, ClickNo, OthersAct, vars
<1> QED
    BY <1>2, <1>3, <1>4, <1>5, <1>6, <1>7, <1>8 DEF PageNext

\* The invariant of the members page.
LEMMA MembersAlways == PageSpec => []MembersInv
<1>1. PageInit => MembersInv
    BY MembersInit
<1>2. MembersInv /\ [PageNext]_vars => MembersInv'
    BY MembersNext
<1> QED
    BY <1>1, <1>2, PTL DEF PageSpec

\* A kick button is there exactly for those the page shows as members while
\* it shows me as the admin, in whatever order the answers come
\* (updateBoxWithSt, convertMemberStToBox and the redrawing of all boxes).
THEOREM ButtonsAgree == PageSpec => []KickButtonsAgree
<1>1. MembersInv => KickButtonsAgree
    BY DEF MembersInv, Agree, KickButtonsAgree
<1> QED
    BY <1>1, MembersAlways, PTL

\* As long as calls do not overtake each other, the page has a box for every
\* member and knows my own role, as far as its LocalHistoryId goes.
THEOREM EverybodyIsShown == PageSpec => []NobodyIsMissing
<1>1. ASSUME MembersInv, isOpen, ~overtaken PROVE ShowsTruth(db, page, ~redrawn)
    BY <1>1 DEF MembersInv, InTurn
<1>2. \A u \in Members(db, OpenedChat) : u \in Users /\ Role(db, u) # "deleted"
    BY DEF Members, Role, get_role_of_user_in_chat
<1>3. MembersInv => NobodyIsMissing
    BY <1>1, <1>2 DEF ShowsTruth, NobodyIsMissing, Told, Stamp, Role
<1> QED
    BY <1>3, MembersAlways, PTL

\* Until my own role changes on the open page, and as long as calls do not
\* overtake each other, its boxes are true as far as its LocalHistoryId goes.
THEOREM BoxesAreTrue == PageSpec => []BoxesAreTrueAtFirst
<1>1. ASSUME MembersInv, isOpen, ~redrawn, ~overtaken PROVE ShowsTruth(db, page, TRUE)
    BY <1>1 DEF MembersInv, InTurn, ShowsTruth
<1>2. MembersInv => BoxesAreTrueAtFirst
    BY <1>1 DEF ShowsTruth, BoxesAreTrueAtFirst, Told, TrueBox, Stamp, Role
<1> QED
    BY <1>2, MembersAlways, PTL

\* To the server the page is one more client.
THEOREM MembersAreServed == PageSpec => Spec
<1>1. PageInit => Init
    BY DEF PageInit
<1>2. MembersInv /\ [PageNext]_vars => [Next]_db
    BY PageStepsServer DEF MembersInv
<1> QED
    BY <1>1, <1>2, MembersAlways, PTL DEF PageSpec, Spec
=============================================================================
