--------------------------- MODULE ChatSyncProofs ---------------------------
(***************************************************************************)
(* The chat page: what it shows, and that it is true to its history id,    *)
(* for any users, any number of messages and any number of calls in        *)
(* flight.  First what one message does to a page, then a whole answer,    *)
(* then the page among its calls.                                          *)
(***************************************************************************)
EXTENDS ChatSync, ChatServerProofs

-----------------------------------------------------------------------------
(* Numbers *)

\* A set of natural numbers that is not empty has a least element.
LEMMA Least ==
    ASSUME NEW T \in SUBSET Nat, T # {}
    PROVE  \E x \in T : \A y \in T : x <= y
<1>1. OpToRel(<, Nat) = {ss \in Nat \X Nat : ss[1] < ss[2]}
    BY DEF OpToRel
<1>2. IsWellFoundedOn({ss \in Nat \X Nat : ss[1] < ss[2]}, Nat)
    BY <1>1, NatLessThanWellFounded
<1>3. PICK x \in T : \A y \in T : <<y, x>> \notin {ss \in Nat \X Nat : ss[1] < ss[2]}
    BY <1>2, WFMin
<1>4. ASSUME NEW y \in T PROVE x <= y
  <2>1. <<y, x>> \in Nat \X Nat /\ <<y, x>>[1] = y /\ <<y, x>>[2] = x
    OBVIOUS
  <2>2. ~(y < x)
    BY <1>3, <2>1
  <2> QED
    BY <2>2
<1> QED
    BY <1>4

\* Induction, as a fact about sets.
LEMMA Inductive ==
    ASSUME NEW S \in SUBSET Nat, 0 \in S, \A n \in S : n + 1 \in S
    PROVE  S = Nat
<1> SUFFICES ASSUME Nat \ S # {} PROVE FALSE
    OBVIOUS
<1>1. PICK x \in Nat \ S : \A y \in Nat \ S : x <= y
    BY Least
<1>2. x - 1 \in Nat
    BY <1>1
<1>3. x - 1 \in S
    BY <1>1, <1>2
<1> QED
    BY <1>2, <1>3, x = (x - 1) + 1

\* the greatest of a set of numbers with a bound
LEMMA Greatest ==
    ASSUME NEW T \in SUBSET Nat, T # {}, NEW B \in Int, \A x \in T : x <= B
    PROVE  \E x \in T : \A y \in T : y <= x
<1> DEFINE U == {n \in Nat : \A y \in T : y <= n}
<1>1. PICK x \in U : \A n \in U : x <= n
  <2>1. PICK y \in T : y <= B
    OBVIOUS
  <2>2. B \in U
    BY <2>1
  <2>3. U \in SUBSET Nat /\ U # {}
    BY <2>2
  <2> HIDE DEF U
  <2> QED
    BY <2>3, Least
<1>2. x \in T
  <2> SUFFICES ASSUME x \notin T PROVE FALSE
    OBVIOUS
  <2>1. \A y \in T : y < x
    BY <1>1
  <2>2. x - 1 \in Nat
    <3> PICK y \in T : y < x
      BY <2>1
    <3> QED
      OBVIOUS
  <2>3. x - 1 \in U
    BY <2>1, <2>2
  <2> QED
    BY <1>1, <2>3
<1> QED
    BY <1>1, <1>2

-----------------------------------------------------------------------------
(* One message *)

Views ==
    {m \in [id : Nat, isSystem : BOOLEAN, exists : BOOLEAN,
            senderUserId : Users \cup {NoUser},
            text : Texts \cup SvoText \cup {NoText}] :
        m.isSystem \/ m.senderUserId \in Users}

Pages ==
    [LocalHistoryId : Nat,
     members : [Users -> Roles \cup {Stranger}],
     loadedMessages : UNION {[D -> Views] : D \in SUBSET Nat},
     visibleMessages : SUBSET Int,
     visibleMsgSegStart : Int,
     visibleMsgSegEnd : Int,
     lastMsgId : Int,
     threw : BOOLEAN]

\* the page can name who wrote the message
Named(p, m) == m.isSystem \/ p.members[m.senderUserId] # Stranger

\* ShownRunIsMaximal, of a page value
RunIsShown(p) ==
    LET first == p.visibleMsgSegStart
        last == p.visibleMsgSegEnd
    IN  IF DOMAIN p.loadedMessages = {}
        THEN p.visibleMessages = {} /\ first = -1
        ELSE /\ p.visibleMessages = first .. last
             /\ first >= 0 /\ first <= last
             /\ \A i \in first .. last : IsLoaded(p, i)
             /\ ~IsLoaded(p, first - 1) /\ ~IsLoaded(p, last + 1)

\* A page that is in order: it shows one run, names everybody, and holds no
\* message above `bound`.
Sound(p, bound) ==
    /\ p \in Pages
    /\ RunIsShown(p)
    /\ ~p.threw
    /\ \A i \in DOMAIN p.loadedMessages :
        /\ i <= bound /\ p.loadedMessages[i].id = i
        /\ Named(p, p.loadedMessages[i])

\* what a message leaves alone
SameFrame(p, q) ==
    /\ q.LocalHistoryId = p.LocalHistoryId
    /\ q.members = p.members
    /\ q.lastMsgId = p.lastMsgId

With(loaded, m) ==
    [i \in DOMAIN loaded \cup {m.id} |-> IF i = m.id THEN m ELSE loaded[i]]

\* Loading a message puts it in, and shows nothing yet.
LEMMA Loading ==
    ASSUME NEW p \in Pages, NEW m \in Views
    PROVE  /\ Load(p, m) \in Pages
           /\ Load(p, m).loadedMessages = With(p.loadedMessages, m)
           /\ SameFrame(p, Load(p, m))
           /\ Load(p, m).visibleMessages = p.visibleMessages
           /\ Load(p, m).visibleMsgSegStart = p.visibleMsgSegStart
           /\ Load(p, m).visibleMsgSegEnd = p.visibleMsgSegEnd
           /\ Load(p, m).threw = p.threw
<1> DEFINE new == With(p.loadedMessages, m)
<1>1. Load(p, m) = [p EXCEPT !.loadedMessages = new]
    BY DEF Load, With, Pages
<1>2. new \in UNION {[D -> Views] : D \in SUBSET Nat}
  <2>1. PICK D \in SUBSET Nat : p.loadedMessages \in [D -> Views]
    BY DEF Pages
  <2>2. m.id \in Nat /\ D \cup {m.id} \in SUBSET Nat
    BY DEF Views
  <2>3. new \in [D \cup {m.id} -> Views]
    BY <2>1 DEF With
  <2> QED
    BY <2>2, <2>3
<1> HIDE DEF new
<1> QED
    BY <1>1, <1>2 DEF Pages, SameFrame, new

\* showing more of what is loaded
LEMMA Showing ==
    ASSUME NEW p \in Pages, NEW ids \in SUBSET Int, ids \subseteq DOMAIN p.loadedMessages,
           \A i \in DOMAIN p.loadedMessages : Named(p, p.loadedMessages[i]),
           ~p.threw
    PROVE  makeVisible(p, ids) = [p EXCEPT !.visibleMessages = @ \cup ids]
<1>1. ~ \E i \in ids :
        LET m == p.loadedMessages[i]
        IN  ~m.isSystem /\ p.members[m.senderUserId] = Stranger
    BY DEF Named
<1>2. makeVisible(p, ids)
        = [p EXCEPT !.visibleMessages = @ \cup ids, !.threw = @ \/ FALSE]
    BY <1>1 DEF makeVisible
<1>3. p.threw = FALSE
    BY DEF Pages
<1>4. [p EXCEPT !.visibleMessages = @ \cup ids, !.threw = @ \/ FALSE]
        = [p EXCEPT !.visibleMessages = @ \cup ids]
    BY <1>3 DEF Pages
<1> QED
    BY <1>2, <1>4

\* another part of what is loaded is shown
Extended(p, first, last, ids) ==
    makeVisible([p EXCEPT !.visibleMsgSegStart = first,
                          !.visibleMsgSegEnd = last], ids)

\* A run of loaded messages has a top and a bottom.
LEMMA Top ==
    ASSUME NEW p \in Pages, NEW i \in DOMAIN p.loadedMessages
    PROVE  LET t == TopOfRun(p, i)
           IN  /\ t \in Nat /\ t <= i /\ ~IsLoaded(p, t - 1)
               /\ \A j \in t .. i : IsLoaded(p, j)
<1> DEFINE D == DOMAIN p.loadedMessages
           T == {t \in D : t <= i /\ \A j \in t .. i : j \in D}
<1>1. D \subseteq Nat
    BY DEF Pages
<1>2. T \in SUBSET Nat /\ i \in T
    BY <1>1
<1>3. PICK t \in T : \A y \in T : t <= y
    BY <1>2, Least
<1>4. t - 1 \notin D
  <2> SUFFICES ASSUME t - 1 \in D PROVE FALSE
    OBVIOUS
  <2>1. t - 1 \in T
    <3>1. \A j \in t - 1 .. i : j = t - 1 \/ j \in t .. i
      BY <1>1
    <3> QED
      BY <1>1, <3>1
  <2> QED
    BY <1>1, <1>3, <2>1
<1>5. \E x \in D : x <= i /\ (\A j \in x .. i : j \in D) /\ x - 1 \notin D
    BY <1>4
<1>6. TopOfRun(p, i) \in D /\ TopOfRun(p, i) <= i /\ TopOfRun(p, i) - 1 \notin D
      /\ \A j \in TopOfRun(p, i) .. i : j \in D
    BY <1>5 DEF TopOfRun, IsLoaded
<1> QED
    BY <1>1, <1>6 DEF IsLoaded

\* The run below a loaded message ends, with a message that is not loaded.
LEMMA Bottom ==
    ASSUME NEW p \in Pages, NEW i \in DOMAIN p.loadedMessages,
           NEW B \in Int, \A j \in DOMAIN p.loadedMessages : j <= B
    PROVE  LET b == BottomOfRun(p, i)
           IN  /\ b \in Nat /\ b >= i /\ ~IsLoaded(p, b + 1)
               /\ \A j \in i .. b : IsLoaded(p, j)
<1> DEFINE D == DOMAIN p.loadedMessages
           T == {b \in D : b >= i /\ \A j \in i .. b : j \in D}
<1>1. D \subseteq Nat
    BY DEF Pages
<1>2. T \in SUBSET Nat /\ i \in T /\ \A x \in T : x <= B
    BY <1>1
<1>3. PICK b \in T : \A y \in T : y <= b
    BY <1>2, Greatest
<1>4. b + 1 \notin D
  <2> SUFFICES ASSUME b + 1 \in D PROVE FALSE
    OBVIOUS
  <2>1. b + 1 \in T
    <3>1. \A j \in i .. b + 1 : j = b + 1 \/ j \in i .. b
      BY <1>1
    <3> QED
      BY <1>1, <3>1
  <2> QED
    BY <1>1, <1>3, <2>1
<1>5. \E x \in D : x >= i /\ (\A j \in i .. x : j \in D) /\ x + 1 \notin D
    BY <1>4
<1>6. BottomOfRun(p, i) \in D /\ BottomOfRun(p, i) >= i /\ BottomOfRun(p, i) + 1 \notin D
      /\ \A j \in i .. BottomOfRun(p, i) : j \in D
    BY <1>5 DEF BottomOfRun, IsLoaded
<1> QED
    BY <1>1, <1>6 DEF IsLoaded

\* One message leaves the page in order, whatever part of the chat it holds.
LEMMA OneMessage ==
    ASSUME NEW bound \in Int, NEW p, Sound(p, bound),
           NEW m \in Views, m.id <= bound, Named(p, m)
    PROVE  LET q == opaNewMessageSt(p, m)
           IN  /\ Sound(q, bound) /\ SameFrame(p, q)
               /\ q.loadedMessages = With(p.loadedMessages, m)
<1> DEFINE id == m.id
           q == Load(p, m)
           first == p.visibleMsgSegStart
           last == p.visibleMsgSegEnd
           D == DOMAIN p.loadedMessages
<1>a. /\ m.id \in Nat /\ D \subseteq Nat
      /\ \A i \in D : /\ i <= bound /\ p.loadedMessages[i].id = i
                     /\ Named(p, p.loadedMessages[i])
  <2>1. m.id \in Nat
    BY DEF Views
  <2>2. p \in Pages /\ \A i \in D : /\ i <= bound /\ p.loadedMessages[i].id = i
                                   /\ Named(p, p.loadedMessages[i])
    BY DEF Sound
  <2>3. D \subseteq Nat
    <3>1. PICK E \in SUBSET Nat : p.loadedMessages \in [E -> Views]
      BY <2>2 DEF Pages
    <3> QED
      BY <3>1
  <2> QED
    BY <2>1, <2>2, <2>3
<1>0. /\ p \in Pages /\ RunIsShown(p) /\ p.threw = FALSE /\ ~p.threw /\ D \subseteq Nat
      /\ id \in Nat /\ first \in Int /\ last \in Int
      /\ \A i \in D : /\ i <= bound /\ p.loadedMessages[i].id = i
                     /\ Named(p, p.loadedMessages[i])
    BY <1>a DEF Sound, Pages
<1>1. /\ q \in Pages /\ q.loadedMessages = With(p.loadedMessages, m)
      /\ SameFrame(p, q) /\ q.visibleMessages = p.visibleMessages
      /\ q.visibleMsgSegStart = first /\ q.visibleMsgSegEnd = last
      /\ q.threw = FALSE /\ ~q.threw
    BY <1>0, Loading
<1>2. DOMAIN q.loadedMessages = D \cup {id}
    BY <1>1 DEF With
<1>3. \A i \in D \cup {id} : /\ i <= bound /\ q.loadedMessages[i].id = i
                            /\ Named(q, q.loadedMessages[i])
    BY <1>0, <1>1 DEF With, Named, SameFrame
<1> HIDE DEF q
\* what holds of any page that differs from q by what it shows
<1>4. ASSUME NEW a \in Int, NEW b \in Int, NEW ids \in SUBSET Int,
             ids \subseteq D \cup {id}
      PROVE  LET r == Extended(q, a, b, ids)
             IN  /\ r \in Pages /\ SameFrame(p, r) /\ ~r.threw
                 /\ r.loadedMessages = q.loadedMessages
                 /\ r.visibleMessages = q.visibleMessages \cup ids
                 /\ r.visibleMsgSegStart = a /\ r.visibleMsgSegEnd = b
                 /\ \A i \in D \cup {id} : Named(r, r.loadedMessages[i])
  <2> DEFINE s == [q EXCEPT !.visibleMsgSegStart = a, !.visibleMsgSegEnd = b]
  <2>1. /\ s \in Pages /\ SameFrame(p, s) /\ ~s.threw
        /\ s.loadedMessages = q.loadedMessages /\ s.visibleMessages = q.visibleMessages
        /\ s.members = q.members
        /\ s.visibleMsgSegStart = a /\ s.visibleMsgSegEnd = b
    BY <1>1 DEF Pages, SameFrame
  <2>2. \A i \in D \cup {id} : Named(s, s.loadedMessages[i])
    BY <1>3, <2>1 DEF Named
  <2> HIDE DEF s
  <2>3. makeVisible(s, ids) = [s EXCEPT !.visibleMessages = @ \cup ids]
    BY <1>2, <1>4, <2>1, <2>2, Showing
  <2> DEFINE r == makeVisible(s, ids)
  <2>4. /\ r \in Pages /\ SameFrame(p, r) /\ ~r.threw
        /\ r.loadedMessages = q.loadedMessages
        /\ r.visibleMessages = q.visibleMessages \cup ids
        /\ r.members = s.members
        /\ r.visibleMsgSegStart = a /\ r.visibleMsgSegEnd = b
    BY <2>1, <2>3 DEF Pages, SameFrame
  <2>5. \A i \in D \cup {id} : Named(r, r.loadedMessages[i])
    BY <2>1, <2>2, <2>4 DEF Named
  <2> QED
    BY <2>4, <2>5 DEF s, Extended
<1>5. RunIsShown(p)
    BY <1>0
<1>6. D # {} => /\ p.visibleMessages = first .. last /\ first >= 0 /\ first <= last
                /\ \A i \in first .. last : i \in D
                /\ first - 1 \notin D /\ last + 1 \notin D
    BY <1>5 DEF RunIsShown, IsLoaded
<1>7. ASSUME NEW r, r \in Pages, SameFrame(p, r), ~r.threw,
             r.loadedMessages = q.loadedMessages, RunIsShown(r),
             \A i \in D \cup {id} : Named(r, r.loadedMessages[i])
      PROVE  /\ Sound(r, bound) /\ SameFrame(p, r)
             /\ r.loadedMessages = With(p.loadedMessages, m)
    BY <1>1, <1>2, <1>3, <1>7 DEF Sound
<1>8. CASE id \in D
  <2>1. opaNewMessageSt(p, m) = q
    BY <1>8 DEF opaNewMessageSt, IsLoaded, q
  <2>2. DOMAIN q.loadedMessages = D
    BY <1>2, <1>8
  <2>3. RunIsShown(q)
    BY <1>1, <1>5, <2>2 DEF RunIsShown, IsLoaded
  <2> QED
    BY <1>1, <1>3, <1>7, <2>1, <2>3
<1>9. CASE id \notin D /\ first < 0
  <2>1. D = {} /\ p.visibleMessages = {}
    BY <1>0, <1>5, <1>6, <1>9 DEF RunIsShown
  <2> DEFINE r == Extended(q, id, id, {id})
  <2>2. opaNewMessageSt(p, m) = r
    BY <1>0, <1>9 DEF opaNewMessageSt, IsLoaded, HasAnchor, q, Extended
  <2>3. /\ r \in Pages /\ SameFrame(p, r) /\ ~r.threw
        /\ r.loadedMessages = q.loadedMessages
        /\ r.visibleMessages = q.visibleMessages \cup {id}
        /\ r.visibleMsgSegStart = id /\ r.visibleMsgSegEnd = id
        /\ \A i \in D \cup {id} : Named(r, r.loadedMessages[i])
    <3>1. id \in Int /\ {id} \in SUBSET Int /\ {id} \subseteq D \cup {id}
      BY <1>0
    <3> QED
      BY <1>4, <3>1
  <2> HIDE DEF r
  <2>4. DOMAIN r.loadedMessages = {id}
    BY <1>2, <2>1, <2>3
  <2>5. RunIsShown(r)
    BY <1>0, <1>1, <2>1, <2>3, <2>4 DEF RunIsShown, IsLoaded
  <2> QED
    BY <1>7, <2>2, <2>3, <2>5
<1>10. CASE id \notin D /\ first >= 0 /\ id + 1 = first
  <2> DEFINE t == TopOfRun(q, id)
             r == Extended(q, t, last, t .. first - 1)
  <2>1. D # {} /\ id < first /\ first <= last
    BY <1>0, <1>5, <1>6, <1>10 DEF RunIsShown
  <2>2. /\ t \in Nat /\ t <= id /\ t - 1 \notin D \cup {id}
        /\ \A j \in t .. id : j \in D \cup {id}
    BY <1>1, <1>2, Top DEF IsLoaded
  <2> HIDE DEF t
  <2>3. /\ t .. first - 1 = t .. id /\ t .. id \subseteq D \cup {id}
        /\ t .. first - 1 \in SUBSET Int
    BY <1>0, <1>10, <2>2
  <2>4. opaNewMessageSt(p, m) = r
    <3>1. opaNewMessageSt(p, m) = ShowUpTo(q, t)
      BY <1>0, <1>10 DEF opaNewMessageSt, IsLoaded, HasAnchor, q, t
    <3>2. [q EXCEPT !.visibleMsgSegStart = t]
            = [q EXCEPT !.visibleMsgSegStart = t, !.visibleMsgSegEnd = last]
      BY <1>1 DEF Pages
    <3> QED
      BY <1>1, <3>1, <3>2 DEF ShowUpTo, Extended
  <2>5. /\ r \in Pages /\ SameFrame(p, r) /\ ~r.threw
        /\ r.loadedMessages = q.loadedMessages
        /\ r.visibleMessages = q.visibleMessages \cup (t .. first - 1)
        /\ r.visibleMsgSegStart = t /\ r.visibleMsgSegEnd = last
        /\ \A i \in D \cup {id} : Named(r, r.loadedMessages[i])
    BY <1>0, <1>4, <2>2, <2>3
  <2> HIDE DEF r
  <2>6. r.visibleMessages = t .. last
    <3>1. r.visibleMessages = (first .. last) \cup (t .. first - 1)
      BY <1>1, <1>6, <2>1, <2>5
    <3> QED
      BY <1>0, <1>10, <2>1, <2>2, <3>1
  <2>7. \A i \in t .. last : i \in D \cup {id}
    BY <1>0, <1>6, <1>10, <2>1, <2>2
  <2>8. last + 1 \notin D \cup {id}
    BY <1>0, <1>6, <2>1
  <2>9. RunIsShown(r)
    <3>1. /\ DOMAIN r.loadedMessages = D \cup {id} /\ DOMAIN r.loadedMessages # {}
          /\ t >= 0 /\ t <= last
      BY <1>0, <1>2, <1>10, <2>1, <2>2, <2>5
    <3> QED
      BY <2>2, <2>5, <2>6, <2>7, <2>8, <3>1 DEF RunIsShown, IsLoaded
  <2> QED
    BY <1>7, <2>4, <2>5, <2>9
<1>11. CASE id \notin D /\ first >= 0 /\ id + 1 # first /\ id - 1 = last
  <2> DEFINE b == BottomOfRun(q, id)
             r == Extended(q, first, b, last + 1 .. b)
  <2>1. D # {} /\ id > last /\ first <= last
    BY <1>0, <1>5, <1>6, <1>11 DEF RunIsShown
  <2>2. /\ b \in Nat /\ b >= id /\ b + 1 \notin D \cup {id}
        /\ \A j \in id .. b : j \in D \cup {id}
    BY <1>1, <1>2, <1>3, Bottom DEF IsLoaded
  <2> HIDE DEF b
  <2>3. /\ last + 1 .. b = id .. b /\ id .. b \subseteq D \cup {id}
        /\ last + 1 .. b \in SUBSET Int
    BY <1>0, <1>11, <2>2
  <2>4. opaNewMessageSt(p, m) = r
    <3>1. opaNewMessageSt(p, m) = ShowDownTo(q, b)
      BY <1>0, <1>11 DEF opaNewMessageSt, IsLoaded, HasAnchor, q, b
    <3>2. [q EXCEPT !.visibleMsgSegEnd = b]
            = [q EXCEPT !.visibleMsgSegStart = first, !.visibleMsgSegEnd = b]
      BY <1>1 DEF Pages
    <3> QED
      BY <1>1, <3>1, <3>2 DEF ShowDownTo, Extended
  <2>5. /\ r \in Pages /\ SameFrame(p, r) /\ ~r.threw
        /\ r.loadedMessages = q.loadedMessages
        /\ r.visibleMessages = q.visibleMessages \cup (last + 1 .. b)
        /\ r.visibleMsgSegStart = first /\ r.visibleMsgSegEnd = b
        /\ \A i \in D \cup {id} : Named(r, r.loadedMessages[i])
    BY SMTT(30), <1>0, <1>4, <2>2, <2>3
  <2> HIDE DEF r
  <2>6. r.visibleMessages = first .. b
    <3>1. r.visibleMessages = (first .. last) \cup (last + 1 .. b)
      BY <1>1, <1>6, <2>1, <2>5
    <3> QED
      BY <1>0, <1>11, <2>1, <2>2, <3>1
  <2>7. \A i \in first .. b : i \in D \cup {id}
    BY SMTT(30), <1>0, <1>6, <1>11, <2>1, <2>2
  <2>8. first - 1 \notin D \cup {id}
    BY <1>0, <1>6, <2>1
  <2>9. RunIsShown(r)
    <3>1. /\ DOMAIN r.loadedMessages = D \cup {id} /\ DOMAIN r.loadedMessages # {}
          /\ first >= 0 /\ first <= b
      BY <1>0, <1>2, <1>11, <2>1, <2>2, <2>5
    <3> QED
      BY <2>2, <2>5, <2>6, <2>7, <2>8, <3>1 DEF RunIsShown, IsLoaded
  <2> QED
    BY <1>7, <2>4, <2>5, <2>9
<1>12. CASE id \notin D /\ first >= 0 /\ id + 1 # first /\ id - 1 # last
  <2>1. opaNewMessageSt(p, m) = q
    BY <1>0, <1>12 DEF opaNewMessageSt, IsLoaded, HasAnchor, q
  <2>2. D # {}
    BY <1>0, <1>5, <1>12 DEF RunIsShown
  <2>3. /\ first - 1 \notin D \cup {id} /\ last + 1 \notin D \cup {id}
    BY SMTT(30), <1>0, <1>6, <1>12, <2>2
  <2>4. RunIsShown(q)
    BY <1>1, <1>2, <1>6, <2>2, <2>3 DEF RunIsShown, IsLoaded
  <2> QED
    BY <1>1, <1>3, <1>7, <2>1, <2>4
<1> QED
    BY <1>0, <1>8, <1>9, <1>10, <1>11, <1>12

-----------------------------------------------------------------------------
(* One answer *)

\* the page after the message with that id, if the answer has one
NextPage(q, messages, id) ==
    IF \E m \in messages : m.id = id
    THEN opaNewMessageSt(q, CHOOSE m \in messages : m.id = id)
    ELSE q

\* The recursion in opaNewMessages has the values it is defined to have.
LEMMA Rounds ==
    ASSUME NEW p, NEW messages, NEW last \in Int, last >= -1
    PROVE  \E after :
            /\ after[0] = p
            /\ \A n \in 0 .. last : after[n + 1] = NextPage(after[n], messages, n)
            /\ opaNewMessages(p, messages, last) = after[last + 1]
<1> DEFINE Is(g, N) == g = [n \in 0 .. N |->
                        IF n = 0 THEN p ELSE NextPage(g[n - 1], messages, n - 1)]
           S == {N \in Nat : \E g : Is(g, N)}
<1>1. 0 \in S
  <2>1. Is([n \in 0 .. 0 |-> p], 0)
    OBVIOUS
  <2> QED
    BY <2>1
<1>2. ASSUME NEW N \in S PROVE N + 1 \in S
  <2>1. PICK g : Is(g, N)
    OBVIOUS
  <2> DEFINE h == [n \in 0 .. N + 1 |->
                    IF n <= N THEN g[n] ELSE NextPage(g[N], messages, N)]
  <2>2. Is(h, N + 1)
    <3>1. ASSUME NEW n \in 0 .. N + 1
          PROVE  h[n] = IF n = 0 THEN p ELSE NextPage(h[n - 1], messages, n - 1)
      <4>1. CASE n = 0
        BY <2>1, <4>1
      <4>2. CASE n \in 1 .. N
        <5>1. g[n] = NextPage(g[n - 1], messages, n - 1)
          BY <2>1, <4>2
        <5>2. h[n] = g[n] /\ h[n - 1] = g[n - 1]
          BY <4>2
        <5> QED
          BY <4>2, <5>1, <5>2
      <4>3. CASE n = N + 1
        <5>1. h[n] = NextPage(g[N], messages, N) /\ h[n - 1] = g[N] /\ n - 1 = N
          BY <4>3
        <5> QED
          BY <4>3, <5>1
      <4> QED
        BY <4>1, <4>2, <4>3
    <3> QED
      BY <3>1
  <2>3. \E f : Is(f, N + 1)
    BY <2>2
  <2> HIDE DEF Is
  <2> QED
    BY <2>3
<1>3. S = Nat
  <2> HIDE DEF Is
  <2>1. S \in SUBSET Nat
    OBVIOUS
  <2> HIDE DEF S
  <2> QED
    BY <1>1, <1>2, <2>1, Inductive
<1>4. \E g : Is(g, last + 1)
  <2>1. last + 1 \in S
    <3>1. last + 1 \in Nat
      OBVIOUS
    <3> HIDE DEF S
    <3> QED
      BY <1>3, <3>1
  <2> HIDE DEF Is
  <2> QED
    BY <2>1
<1> DEFINE after == CHOOSE g : Is(g, last + 1)
<1>5. Is(after, last + 1)
  <2> HIDE DEF Is
  <2> QED
    BY <1>4
<1>6. opaNewMessages(p, messages, last) = after[last + 1]
    BY DEF opaNewMessages, NextPage
<1>7. /\ after[0] = p
      /\ \A n \in 0 .. last : after[n + 1] = NextPage(after[n], messages, n)
  <2> HIDE DEF after
  <2> QED
    BY <1>5
<1> QED
    BY <1>6, <1>7

\* What each round keeps holds in the end: G[n] are the pages a page may be
\* when the ids below n are done.
LEMMA Kept ==
    ASSUME NEW p, NEW messages, NEW last \in Int, last >= -1,
           NEW G, p \in G[0],
           \A n \in 0 .. last : \A q \in G[n] : NextPage(q, messages, n) \in G[n + 1]
    PROVE  opaNewMessages(p, messages, last) \in G[last + 1]
<1>1. PICK after :
            /\ after[0] = p
            /\ \A n \in 0 .. last : after[n + 1] = NextPage(after[n], messages, n)
            /\ opaNewMessages(p, messages, last) = after[last + 1]
    BY Rounds
<1> DEFINE S == {n \in Nat : n <= last + 1 => after[n] \in G[n]}
<1>2. 0 \in S
    BY <1>1
<1>3. ASSUME NEW n \in S PROVE n + 1 \in S
  <2>1. CASE n \in 0 .. last
    BY <1>1, <2>1
  <2>2. CASE n \notin 0 .. last
    BY <2>2
  <2> QED
    BY <2>1, <2>2
<1>4. S = Nat
  <2>1. S \in SUBSET Nat
    OBVIOUS
  <2> HIDE DEF S
  <2> QED
    BY <1>2, <1>3, <2>1, Inductive
<1>5. last + 1 \in S
    BY <1>4
<1> QED
    BY <1>1, <1>5

\* q is p with the messages below id n put in
Done(p, messages, n, q) ==
    /\ \A m \in messages : m.id < n => IsLoaded(q, m.id) /\ q.loadedMessages[m.id] = m
    /\ \A i : IsLoaded(p, i) =>
        /\ IsLoaded(q, i)
        /\ (\A m \in messages : m.id < n => m.id # i)
            => q.loadedMessages[i] = p.loadedMessages[i]
    /\ \A i : IsLoaded(q, i) =>
        IsLoaded(p, i) \/ \E m \in messages : m.id = i /\ m.id < n

\* One message more of an answer is put in.
LEMMA OneRound ==
    ASSUME NEW bound \in Int, NEW p, NEW messages, messages \subseteq Views,
           \A m \in messages : m.id <= bound /\ Named(p, m),
           \A m, k \in messages : m.id = k.id => m = k,
           NEW n \in Nat, NEW q, Sound(q, bound), SameFrame(p, q), Done(p, messages, n, q)
    PROVE  LET r == NextPage(q, messages, n)
           IN  Sound(r, bound) /\ SameFrame(p, r) /\ Done(p, messages, n + 1, r)
<1>0. \A m \in messages : m.id \in Nat
    BY DEF Views
<1>1. CASE \E m \in messages : m.id = n
  <2> DEFINE m == CHOOSE k \in messages : k.id = n
             r == opaNewMessageSt(q, m)
  <2>1. m \in messages /\ m.id = n /\ NextPage(q, messages, n) = r
    BY <1>1 DEF NextPage
  <2> HIDE DEF m
  <2>2. m \in Views /\ m.id <= bound /\ Named(q, m)
    BY <2>1 DEF Named, SameFrame
  <2>3. /\ Sound(r, bound) /\ SameFrame(q, r)
        /\ r.loadedMessages = With(q.loadedMessages, m)
    BY <2>2, OneMessage
  <2> HIDE DEF r
  <2>4. /\ \A i : IsLoaded(r, i) <=> IsLoaded(q, i) \/ i = n
        /\ \A i : IsLoaded(r, i) =>
            r.loadedMessages[i] = IF i = n THEN m ELSE q.loadedMessages[i]
    BY <2>1, <2>3 DEF With, IsLoaded
  <2>5. \A k \in messages : k.id < n + 1 <=> k.id < n \/ k = m
    BY <1>0, <2>1
  <2>6. \A k \in messages :
            k.id < n + 1 => IsLoaded(r, k.id) /\ r.loadedMessages[k.id] = k
    BY <1>0, <2>1, <2>4, <2>5 DEF Done
  <2>7. ASSUME NEW i, IsLoaded(p, i)
        PROVE  /\ IsLoaded(r, i)
               /\ (\A k \in messages : k.id < n + 1 => k.id # i)
                    => r.loadedMessages[i] = p.loadedMessages[i]
    BY <2>1, <2>4, <2>5, <2>7 DEF Done
  <2>8. ASSUME NEW i, IsLoaded(r, i)
        PROVE  IsLoaded(p, i) \/ \E k \in messages : k.id = i /\ k.id < n + 1
    BY <2>1, <2>4, <2>5, <2>8 DEF Done
  <2>9. SameFrame(p, r)
    BY <2>3 DEF SameFrame
  <2>10. Done(p, messages, n + 1, r)
    BY <2>6, <2>7, <2>8 DEF Done
  <2> QED
    BY <2>1, <2>3, <2>9, <2>10
<1>2. CASE ~ \E m \in messages : m.id = n
  <2>1. NextPage(q, messages, n) = q
    BY <1>2 DEF NextPage
  <2>2. \A m \in messages : m.id < n + 1 <=> m.id < n
    BY <1>0, <1>2
  <2>3. Done(p, messages, n + 1, q)
    BY <2>2 DEF Done
  <2> QED
    BY <2>1, <2>3
<1> QED
    BY <1>1, <1>2

\* q is p with all the messages put in
Applied(p, messages, q) ==
    /\ \A m \in messages : IsLoaded(q, m.id) /\ q.loadedMessages[m.id] = m
    /\ \A i : IsLoaded(p, i) =>
        /\ IsLoaded(q, i)
        /\ (\A m \in messages : m.id # i)
            => q.loadedMessages[i] = p.loadedMessages[i]
    /\ \A i : IsLoaded(q, i) => IsLoaded(p, i) \/ \E m \in messages : m.id = i

\* An answer leaves the page in order, with its messages loaded and the
\* others as they were.
LEMMA AllMessages ==
    ASSUME NEW bound \in Int, NEW p, Sound(p, bound),
           NEW messages, messages \subseteq Views,
           NEW last \in Int, last >= -1,
           \A m \in messages : m.id <= last /\ m.id <= bound /\ Named(p, m),
           \A m, k \in messages : m.id = k.id => m = k
    PROVE  LET q == opaNewMessages(p, messages, last)
           IN  Sound(q, bound) /\ SameFrame(p, q) /\ Applied(p, messages, q)
<1> DEFINE G == [n \in 0 .. last + 1 |->
                    {q \in Pages : /\ Sound(q, bound) /\ SameFrame(p, q)
                                   /\ Done(p, messages, n, q)}]
           q == opaNewMessages(p, messages, last)
<1>0. \A m \in messages : m.id \in Nat
    BY DEF Views
<1>1. p \in G[0]
  <2>1. Done(p, messages, 0, p)
    BY <1>0 DEF Done
  <2> QED
    BY <2>1 DEF Sound, SameFrame
<1>2. ASSUME NEW n \in 0 .. last, NEW r \in G[n]
      PROVE  NextPage(r, messages, n) \in G[n + 1]
  <2>1. Sound(r, bound) /\ SameFrame(p, r) /\ Done(p, messages, n, r)
    BY <1>2
  <2>2. n \in Nat /\ \A m \in messages : m.id <= bound /\ Named(p, m)
    OBVIOUS
  <2>3. LET t == NextPage(r, messages, n)
        IN  Sound(t, bound) /\ SameFrame(p, t) /\ Done(p, messages, n + 1, t)
    BY <2>1, <2>2, OneRound
  <2> QED
    BY <2>3 DEF Sound
<1>3. G[last + 1] = {t \in Pages : /\ Sound(t, bound) /\ SameFrame(p, t)
                                   /\ Done(p, messages, last + 1, t)}
    OBVIOUS
<1> HIDE DEF G
<1>4. q \in G[last + 1]
    BY <1>1, <1>2, Kept
<1>5. Sound(q, bound) /\ SameFrame(p, q) /\ Done(p, messages, last + 1, q)
    BY <1>3, <1>4
<1>6. \A m \in messages : m.id < last + 1
    BY <1>0
<1> QED
    BY <1>5, <1>6 DEF Done, Applied

Replies ==
    {r \in [members : UNION {[D -> Roles] : D \in SUBSET Users},
            messages : SUBSET Views, lastMsgId : Int, HistoryId : Nat] :
        /\ r.lastMsgId >= -1
        /\ \A m \in r.messages : m.id <= r.lastMsgId
        /\ \A m, k \in r.messages : m.id = k.id => m = k}

\* An answer applied to a page in order leaves it in order.
LEMMA Updating ==
    ASSUME NEW bound \in Int, NEW p, Sound(p, bound), NEW resp \in Replies,
           resp.lastMsgId <= bound,
           \A m \in resp.messages :
                \/ m.isSystem \/ m.senderUserId \in DOMAIN resp.members
                \/ p.members[m.senderUserId] # Stranger
    PROVE  LET q == updateLocalStateFromChatUpdRespBlind(p, resp)
           IN  /\ Sound(q, bound)
               /\ q.LocalHistoryId = resp.HistoryId /\ q.lastMsgId = resp.lastMsgId
               /\ \A u \in Users :
                    q.members[u] = IF u \in DOMAIN resp.members
                                   THEN resp.members[u] ELSE p.members[u]
               /\ Applied(p, resp.messages, q)
<1> DEFINE members == [u \in DOMAIN p.members |->
                IF u \in DOMAIN resp.members THEN resp.members[u] ELSE p.members[u]]
           r == [p EXCEPT !.LocalHistoryId = resp.HistoryId, !.members = members,
                          !.lastMsgId = resp.lastMsgId]
           q == opaNewMessages(r, resp.messages, resp.lastMsgId)
<1>1. updateLocalStateFromChatUpdRespBlind(p, resp) = q
    BY Zenon DEF updateLocalStateFromChatUpdRespBlind
<1>2. /\ p \in Pages /\ RunIsShown(p) /\ p.threw = FALSE
      /\ \A i \in DOMAIN p.loadedMessages :
            /\ i <= bound /\ p.loadedMessages[i].id = i
            /\ Named(p, p.loadedMessages[i])
    BY DEF Sound, Pages
<1>b. \A i \in DOMAIN p.loadedMessages : p.loadedMessages[i] \in Views
  <2>1. PICK D \in SUBSET Nat : p.loadedMessages \in [D -> Views]
    BY <1>2 DEF Pages
  <2> QED
    BY <2>1
<1>3. /\ resp.messages \subseteq Views /\ resp.lastMsgId \in Int /\ resp.lastMsgId >= -1
      /\ resp.HistoryId \in Nat /\ DOMAIN resp.members \subseteq Users
      /\ \A u \in DOMAIN resp.members : resp.members[u] \in Roles
      /\ \A m \in resp.messages : m.id <= resp.lastMsgId /\ m.id <= bound
      /\ \A m, k \in resp.messages : m.id = k.id => m = k
    BY DEF Replies, Views
<1>4. /\ members \in [Users -> Roles \cup {Stranger}]
      /\ \A u \in Users :
            members[u] = IF u \in DOMAIN resp.members
                         THEN resp.members[u] ELSE p.members[u]
    BY <1>2, <1>3 DEF Pages
<1> HIDE DEF members
<1>5. /\ r \in Pages /\ r.LocalHistoryId = resp.HistoryId
      /\ r.lastMsgId = resp.lastMsgId /\ r.members = members
      /\ r.loadedMessages = p.loadedMessages /\ r.visibleMessages = p.visibleMessages
      /\ r.visibleMsgSegStart = p.visibleMsgSegStart
      /\ r.visibleMsgSegEnd = p.visibleMsgSegEnd /\ r.threw = FALSE
    BY <1>2, <1>3, <1>4 DEF Pages
<1> HIDE DEF r
<1>6. RunIsShown(r)
    BY <1>2, <1>5 DEF RunIsShown, IsLoaded
<1>7. ASSUME NEW m \in Views,
             m.isSystem \/ m.senderUserId \in DOMAIN resp.members
                \/ p.members[m.senderUserId] # Stranger
      PROVE  Named(r, m)
  <2>1. CASE m.isSystem
    BY <2>1 DEF Named
  <2>2. CASE ~m.isSystem
    <3>1. m.senderUserId \in Users
      BY <2>2 DEF Views
    <3> QED
      BY <1>3, <1>4, <1>5, <1>7, <2>2, <3>1, SyncAssumption DEF Named
  <2> QED
    BY <2>1, <2>2
<1>8. Sound(r, bound)
    BY <1>2, <1>b, <1>5, <1>6, <1>7 DEF Sound, Named
<1>9. Sound(q, bound) /\ SameFrame(r, q) /\ Applied(r, resp.messages, q)
  <2>1. /\ resp.messages \subseteq Views
        /\ resp.lastMsgId \in Int /\ resp.lastMsgId >= -1
        /\ \A m \in resp.messages :
            m.id <= resp.lastMsgId /\ m.id <= bound /\ Named(r, m)
        /\ \A m, k \in resp.messages : m.id = k.id => m = k
    BY <1>3, <1>7
  <2> QED
    BY <1>8, <2>1, AllMessages
<1>10. Applied(p, resp.messages, q)
    BY <1>5, <1>9 DEF Applied, IsLoaded
<1> HIDE DEF q
<1> QED
    BY <1>1, <1>4, <1>5, <1>9, <1>10 DEF SameFrame
-----------------------------------------------------------------------------
(* What the invariant says: of a database d, a page p and its calls s *)

Stamp(d, u) == d.membership[OpenedChat][u].chat_IncHistoryId

Role(d, u) == get_role_of_user_in_chat(d, u, OpenedChat)

Hist(d) == d.chat[OpenedChat].it_HistoryId

LastId(d) == d.chat[OpenedChat].lastMsgId

IsHeard(call) == Heard(call, Pending, Refused)

\* A call carries what its api asks for.
Calls ==
    {call \in [api : {"chatPollEvents", "getMessageNeighbours",
                      "sendMessage", "deleteMessage"},
               LocalHistoryId : Nat,
               msgId : Int,
               direction : {"none", "backward", "forward"},
               text : Texts \cup {NoText},
               answer : {Pending, Refused} \cup Replies] :
        /\ call.api = "sendMessage" => call.text \in Texts
        /\ call.api = "deleteMessage" => call.msgId \in 0 .. MaxHistory}

\* There is no call without a page.
PageTyped ==
    /\ calls \in Seq(Calls)
    /\ firstNew \in Int
    /\ ~isOpen => page = BlankPage(Users) /\ calls = <<>>

\* The page knows everybody whose stamp is not above `from`, but those it is
\* about to be told of.
Knows(d, p, from, told) ==
    \A u \in Users :
        Stamp(d, u) \in 1 .. from => u \in told \/ p.members[u] # Stranger

\* When this call's answer arrives the page will know whoever it may name.
Introduces(d, p, call) ==
    /\ call.LocalHistoryId <= Hist(d)
    /\ call.answer = Pending => Knows(d, p, call.LocalHistoryId, {})
    /\ IsHeard(call) =>
        /\ call.answer.HistoryId <= Hist(d) /\ call.answer.lastMsgId <= LastId(d)
        /\ Knows(d, p, call.answer.HistoryId, DOMAIN call.answer.members)
        /\ \A m \in call.answer.messages :
            \/ m.isSystem \/ m.senderUserId \in DOMAIN call.answer.members
            \/ p.members[m.senderUserId] # Stranger

\* whatever overtakes what
InOrder(d, p, s) ==
    /\ Sound(p, LastId(d))
    /\ p.LocalHistoryId <= Hist(d)
    /\ Knows(d, p, p.LocalHistoryId, {})
    /\ \A i \in 1 .. Len(s) : Introduces(d, p, s[i])

Alive(messages) == {m.id : m \in {k \in messages : k.exists}}

\* What is said later, of a chat with this last id and these messages alive,
\* takes nothing back that the page shows, or that an answer says.
PageBefore(p, last, alive) ==
    /\ p.lastMsgId <= last
    /\ \A i \in DOMAIN p.loadedMessages : i \in alive => p.loadedMessages[i].exists

AnswerBefore(r, last, alive) ==
    /\ r.lastMsgId <= last
    /\ \A k \in r.messages : k.id \in alive => k.exists

\* The page, the answers on their way in their order, and the database.
Forward(d, p, s) ==
    /\ PageBefore(p, LastId(d), Alive(MessagesOf(d, OpenedChat)))
    /\ \A i \in 1 .. Len(s) : IsHeard(s[i]) =>
        /\ PageBefore(p, s[i].answer.lastMsgId, Alive(s[i].answer.messages))
        /\ AnswerBefore(s[i].answer, LastId(d), Alive(MessagesOf(d, OpenedChat)))
    /\ \A i, j \in 1 .. Len(s) : i < j /\ IsHeard(s[i]) /\ IsHeard(s[j]) =>
        AnswerBefore(s[i].answer, s[j].answer.lastMsgId, Alive(s[j].answer.messages))

\* An answer holds every member and message that changed between the id the
\* page asked from and its own, and what it says is true of all that has not
\* changed since.
AnswerIsTrue(d, call) ==
    /\ \A u \in Users :
        /\ Stamp(d, u) \in call.LocalHistoryId + 1 .. call.answer.HistoryId
            => u \in DOMAIN call.answer.members
        /\ Stamp(d, u) <= call.answer.HistoryId /\ u \in DOMAIN call.answer.members
            => call.answer.members[u] = Role(d, u)
    /\ \A m \in MessagesOf(d, OpenedChat) :
        m.chat_IncHistoryId <= call.answer.HistoryId =>
            /\ m.chat_IncHistoryId > call.LocalHistoryId
                => make_messageSt_obj(m) \in call.answer.messages
            /\ \A k \in call.answer.messages :
                k.id = m.id => k = make_messageSt_obj(m)

\* PageIsCurrentToItsHistoryId, of a page value
ShowsTruth(d, p, new) ==
    /\ \A u \in Users :
        Stamp(d, u) \in 1 .. p.LocalHistoryId => p.members[u] = Role(d, u)
    /\ \A m \in MessagesOf(d, OpenedChat) :
        m.chat_IncHistoryId <= p.LocalHistoryId =>
            /\ IsLoaded(p, m.id) => p.loadedMessages[m.id] = make_messageSt_obj(m)
            /\ m.id >= new => IsLoaded(p, m.id)

Truth(d, p, s, new) ==
    /\ ShowsTruth(d, p, new)
    /\ \A i \in 1 .. Len(s) : IsHeard(s[i]) => AnswerIsTrue(d, s[i])

\* as long as calls do not overtake each other; the last part, in a site
\* with one chat
InTurn(d, p, s, new) ==
    /\ CallsInTurn(s, p.LocalHistoryId, Hist(d), Pending, Refused)
    /\ Forward(d, p, s)
    /\ OneChat => Truth(d, p, s, new)

SyncInv ==
    /\ Inv /\ PageTyped
    /\ InOrder(db, page, calls)
    /\ ~overtaken => InTurn(db, page, calls, firstNew)

-----------------------------------------------------------------------------
(* The database and what it answers *)

\* The numbers of the opened chat, of its members and of its messages.
LEMMA OpenedNumbers ==
    ASSUME NEW d, DbInv(d)
    PROVE  /\ Hist(d) \in Nat /\ LastId(d) \in Int /\ LastId(d) >= -1
           /\ \A u \in Users : /\ Stamp(d, u) \in Nat /\ Stamp(d, u) <= Hist(d)
                               /\ Role(d, u) \in Roles
           /\ \A m \in MessagesOf(d, OpenedChat) :
                /\ m \in d.message /\ m.id \in Nat /\ m.id <= LastId(d)
                /\ m.chat_IncHistoryId \in Nat
                /\ make_messageSt_obj(m) \in Views
                /\ ~m.isSystem => Stamp(d, m.senderUserId) > 0
           /\ \A m, k \in MessagesOf(d, OpenedChat) : m.id = k.id => m = k
<1>0. d \in Database /\ OpenedChat \in Chats
    BY SyncAssumption DEF DbInv
<1>1. /\ Hist(d) \in Nat /\ LastId(d) \in Int /\ LastId(d) >= -1
      /\ \A u \in Users : Stamp(d, u) \in Nat /\ Role(d, u) \in Roles
    BY <1>0, Numbers DEF Hist, LastId, Stamp, Role, get_role_of_user_in_chat
<1>2. \A u \in Users : Stamp(d, u) <= Hist(d)
    BY <1>0 DEF DbInv, StampsSound, Stamp, Hist
<1>3. ASSUME NEW m \in MessagesOf(d, OpenedChat)
      PROVE  /\ m \in d.message /\ m.id \in Nat /\ m.id <= LastId(d)
             /\ m.chat_IncHistoryId \in Nat
             /\ make_messageSt_obj(m) \in Views
             /\ ~m.isSystem => Stamp(d, m.senderUserId) > 0
  <2>1. m \in d.message /\ m \in MessageRow /\ m.chatId = OpenedChat
    BY <1>0 DEF MessagesOf, Database
  <2>2. m.id \in 0 .. LastId(d)
    BY <1>0 DEF DbInv, IdsContiguous, LastId
  <2>3. ~m.isSystem =>
            /\ m.senderUserId \in Users
            /\ Stamp(d, m.senderUserId) > 0
    BY <2>1 DEF DbInv, ReferencesHold, RegisteredUsers, Stamp
  <2>4. make_messageSt_obj(m) \in Views
    BY <2>1, <2>3 DEF make_messageSt_obj, Views, MessageRow
  <2> QED
    BY <1>1, <2>1, <2>2, <2>3, <2>4 DEF MessageRow
<1>4. \A m, k \in MessagesOf(d, OpenedChat) : m.id = k.id => m = k
    BY <1>0 DEF DbInv, IdsContiguous
<1> QED
    BY <1>1, <1>2, <1>3, <1>4

\* What any answer made from d says; `from` is the id it was asked from.
Says(d, from, r) ==
    /\ r \in Replies
    /\ r.HistoryId = Hist(d) /\ r.lastMsgId = LastId(d)
    /\ DOMAIN r.members = {u \in Users : Stamp(d, u) > from}
    /\ \A u \in DOMAIN r.members : r.members[u] = Role(d, u)
    /\ \A k \in r.messages :
        /\ \E m \in MessagesOf(d, OpenedChat) : k = make_messageSt_obj(m)
        /\ ~k.isSystem => k.senderUserId \in Users /\ Stamp(d, k.senderUserId) > 0

\* What an answer says of a database is true of it.
LEMMA Saying ==
    ASSUME NEW d, DbInv(d), NEW from \in Nat, NEW r,
           r.HistoryId = Hist(d), r.lastMsgId = LastId(d),
           r.members = poll_update_chat_resp_members(d, OpenedChat, from),
           NEW chosen, chosen \subseteq MessagesOf(d, OpenedChat),
           r.messages = {make_messageSt_obj(m) : m \in chosen},
           r = [members |-> r.members, messages |-> r.messages,
                lastMsgId |-> r.lastMsgId, HistoryId |-> r.HistoryId]
    PROVE  Says(d, from, r)
<1> DEFINE D == {u \in Users : Stamp(d, u) > from}
<1>1. /\ D \in SUBSET Users /\ r.members = [u \in D |-> Role(d, u)]
      /\ DOMAIN r.members = D
      /\ \A u \in D : r.members[u] = Role(d, u) /\ Role(d, u) \in Roles
    BY OpenedNumbers DEF poll_update_chat_resp_members, Stamp, Role
<1> HIDE DEF D
<1>2. r.members \in UNION {[E -> Roles] : E \in SUBSET Users}
  <2>1. r.members \in [D -> Roles]
    BY <1>1
  <2> QED
    BY <1>1, <2>1
<1>3. ASSUME NEW k \in r.messages
      PROVE  \E m \in MessagesOf(d, OpenedChat) :
                k = make_messageSt_obj(m) /\ k \in Views /\ k.id = m.id
                    /\ k.id <= LastId(d)
                    /\ (~k.isSystem => Stamp(d, k.senderUserId) > 0)
  <2>1. PICK m \in chosen : k = make_messageSt_obj(m)
    BY <1>3
  <2>2. /\ k.id = m.id /\ k.isSystem = m.isSystem
        /\ ~m.isSystem => k.senderUserId = m.senderUserId
    BY <2>1 DEF make_messageSt_obj
  <2> QED
    BY <2>1, <2>2, OpenedNumbers
<1>4. r.messages \subseteq Views
    BY <1>3
<1>5. \A m, k \in r.messages : m.id = k.id => m = k
    BY <1>3, OpenedNumbers
<1>6. r \in Replies
    BY <1>2, <1>3, <1>4, <1>5, OpenedNumbers DEF Replies
<1>7. \A k \in r.messages :
        /\ \E m \in MessagesOf(d, OpenedChat) : k = make_messageSt_obj(m)
        /\ ~k.isSystem => k.senderUserId \in Users /\ Stamp(d, k.senderUserId) > 0
    BY <1>3 DEF Views
<1> QED
    BY <1>1, <1>6, <1>7 DEF Says, D

\* the answer to a call, whatever range of ids it asked for
LEMMA CallAnswered ==
    ASSUME NEW d, DbInv(d), NEW from \in Nat, NEW QSEG
    PROVE  LET r == poll_update_chat_important_segment_resp(d, OpenedChat, from, QSEG)
           IN  /\ Says(d, from, r)
               /\ \A m \in MessagesOf(d, OpenedChat) :
                    m.chat_IncHistoryId > from => make_messageSt_obj(m) \in r.messages
<1> DEFINE chosen == {n \in MessagesOf(d, OpenedChat) :
                        \/ n.chat_IncHistoryId > from
                        \/ n.id \in QSEG[1] .. QSEG[2]}
           r == poll_update_chat_important_segment_resp(d, OpenedChat, from, QSEG)
<1>1. /\ r.HistoryId = Hist(d) /\ r.lastMsgId = LastId(d)
      /\ r.members = poll_update_chat_resp_members(d, OpenedChat, from)
      /\ r.messages = {make_messageSt_obj(m) : m \in chosen}
      /\ r = [members |-> r.members, messages |-> r.messages,
              lastMsgId |-> r.lastMsgId, HistoryId |-> r.HistoryId]
    BY DEF poll_update_chat_important_segment_resp, poll_update_chat_resp_messages,
           Hist, LastId
<1>2. /\ chosen \subseteq MessagesOf(d, OpenedChat)
      /\ \A m \in MessagesOf(d, OpenedChat) : m.chat_IncHistoryId > from => m \in chosen
    OBVIOUS
<1> HIDE DEF r, chosen
<1>3. Says(d, from, r)
    BY <1>1, <1>2, Saying
<1> QED
    BY <1>1, <1>2, <1>3 DEF r

\* what a page is opened with
LEMMA PageRendered ==
    ASSUME NEW d, DbInv(d), NEW selected
    PROVE  Says(d, 0, poll_update_chat_ONE_MSG_resp(d, OpenedChat, selected))
<1> DEFINE chosen == {n \in MessagesOf(d, OpenedChat) : n.id = selected}
           r == poll_update_chat_ONE_MSG_resp(d, OpenedChat, selected)
<1>1. /\ r.HistoryId = Hist(d) /\ r.lastMsgId = LastId(d)
      /\ r.members = poll_update_chat_resp_members(d, OpenedChat, 0)
      /\ r.messages = {make_messageSt_obj(m) : m \in chosen}
      /\ r = [members |-> r.members, messages |-> r.messages,
              lastMsgId |-> r.lastMsgId, HistoryId |-> r.HistoryId]
    BY DEF poll_update_chat_ONE_MSG_resp, Hist, LastId
<1>2. chosen \subseteq MessagesOf(d, OpenedChat)
    OBVIOUS
<1> HIDE DEF r, chosen
<1>3. Says(d, 0, r)
    BY <1>1, <1>2, Saying
<1> QED
    BY <1>3 DEF r

-----------------------------------------------------------------------------
(* The server's part of a step *)

\* To the server a call of the page is a request like any other.
LEMMA AnswerIsRequest ==
    ASSUME PageTyped, NEW i \in 1 .. Len(calls), Answer(i)
    PROVE  [Next]_db
<1>1. calls[i] \in Calls
    BY DEF PageTyped
<1>2. CASE Accepts(db, calls[i]) /\ WithinBound(Effect(db, calls[i]))
           /\ db' = Effect(db, calls[i])
  <2>1. CASE calls[i].api \in {"chatPollEvents", "getMessageNeighbours"}
    <3>1. Effect(db, calls[i]) = db
      BY <2>1, Zenon DEF Effect
    <3> QED
      BY <1>2, <3>1
  <2>2. CASE calls[i].api = "sendMessage"
    <3>1. calls[i].text \in Texts
      BY <1>1, <2>2 DEF Calls
    <3>2. /\ CanSendMessage(db, Me, OpenedChat)
          /\ Effect(db, calls[i])
                = internalapi_sendMessage(db, Me, OpenedChat, calls[i].text)
      BY <1>2, <2>2 DEF Accepts, Effect
    <3>3. SendMessage(Me, OpenedChat, calls[i].text)
      BY <1>2, <3>2 DEF SendMessage, Commit
    <3> QED
      BY <3>1, <3>3, SyncAssumption DEF Next
  <2>3. CASE calls[i].api = "deleteMessage"
    <3>1. calls[i].msgId \in 0 .. MaxHistory
      BY <1>1, <2>3 DEF Calls
    <3>2. /\ CanDeleteMessage(db, Me, OpenedChat, calls[i].msgId)
          /\ Effect(db, calls[i])
                = internalapi_deleteMessage(db, Me, OpenedChat, calls[i].msgId)
      BY <1>2, <2>3 DEF Accepts, Effect
    <3>3. DeleteMessage(Me, OpenedChat, calls[i].msgId)
      BY <1>2, <3>2 DEF DeleteMessage, Commit
    <3> QED
      BY <3>1, <3>3, SyncAssumption DEF Next
  <2> QED
    BY <1>1, <2>1, <2>2, <2>3 DEF Calls
<1>3. CASE UNCHANGED db
    BY <1>3
<1> QED
    BY <1>2, <1>3 DEF Answer

\* To the server a step of the page is a request, or nothing.
LEMMA PageStepsServer ==
    ASSUME PageTyped, [PageNext]_vars
    PROVE  [Next]_db
BY AnswerIsRequest
   DEF PageNext, vars, OpenPage, UPDATE, requestPrimaryHeap, requestTopHeap,
       requestBottomHeap, sendMessage, deleteMessage, Request, Deliver, Lose, OthersAct

\* A member whose stamp is not newer than the chat was before a step is as it
\* was; a message that lives was alive before, or is new; and in a site with
\* one chat, so with the messages.
LEMMA ServerStep ==
    ASSUME Inv, [Next]_db
    PROVE  /\ Inv'
           /\ Hist(db) <= Hist(db') /\ LastId(db) <= LastId(db')
           /\ \A u \in Users : Stamp(db', u) <= Hist(db)
                => Stamp(db', u) = Stamp(db, u) /\ Role(db', u) = Role(db, u)
           /\ \A m \in MessagesOf(db', OpenedChat) :
                m.exists => \/ m.id \in Alive(MessagesOf(db, OpenedChat))
                            \/ m.id > LastId(db)
           /\ OneChat => \A m \in MessagesOf(db', OpenedChat) :
                m.chat_IncHistoryId <= Hist(db) => m \in MessagesOf(db, OpenedChat)
<1>1. Inv'
    BY NextInv
<1>2. /\ Hist(db) <= Hist(db') /\ LastId(db) <= LastId(db')
      /\ \A u \in Users :
            \/ db'.membership[OpenedChat][u] = db.membership[OpenedChat][u]
            \/ Stamp(db', u) > Hist(db)
    BY HistoriesMove, SyncAssumption DEF Inv, Hist, LastId, Stamp
<1>3. /\ Hist(db) \in Nat /\ LastId(db) \in Int
      /\ \A u \in Users : Stamp(db', u) \in Nat
      /\ \A m \in MessagesOf(db', OpenedChat) : m.chat_IncHistoryId \in Nat
    BY <1>1, OpenedNumbers DEF Inv
<1>4. \A u \in Users : Stamp(db', u) <= Hist(db)
        => Stamp(db', u) = Stamp(db, u) /\ Role(db', u) = Role(db, u)
    BY <1>2, <1>3 DEF Stamp, Role, get_role_of_user_in_chat
<1>5. ASSUME NEW m \in MessagesOf(db', OpenedChat)
      PROVE  /\ m.exists => \/ m.id \in Alive(MessagesOf(db, OpenedChat))
                            \/ m.id > LastId(db)
             /\ OneChat /\ m.chat_IncHistoryId <= Hist(db)
                    => m \in MessagesOf(db, OpenedChat)
  <2>1. m \in db'.message /\ m.chatId = OpenedChat
    BY DEF MessagesOf
  <2>2. CASE m \in db.message
    <3>1. m \in MessagesOf(db, OpenedChat)
      BY <2>1, <2>2 DEF MessagesOf
    <3> QED
      BY <3>1 DEF Alive
  <2>3. CASE m \notin db.message
    <3>1. PICK u \in Users, c \in Chats : OneRequest(db, db', u, c)
      BY <2>1, <2>3, NextIsOneRequest DEF Quiet, Inv
    <3>2. m.chat_IncHistoryId \in db.chat[c].it_HistoryId + 1 .. db'.chat[c].it_HistoryId
      BY <2>1, <2>3, <3>1 DEF OneRequest
    <3>3. (m.chatId = c /\ m.id > db.chat[c].lastMsgId) \/ ~m.exists
      BY <2>1, <2>3, <3>1 DEF OneRequest
    <3>4. OneChat => m.chat_IncHistoryId \in Hist(db) + 1 .. Hist(db')
      BY <3>2, SyncAssumption DEF OneChat, Hist
    <3>5. OneChat => ~(m.chat_IncHistoryId <= Hist(db))
      BY <1>3, <3>4
    <3> QED
      BY <2>1, <3>3, <3>5 DEF LastId
  <2> QED
    BY <2>2, <2>3
<1> QED
    BY <1>1, <1>2, <1>4, <1>5

\* What is told of the chat as it was is still told in order.
LEMMA InOrderStays ==
    ASSUME Inv, [Next]_db, NEW p, NEW s, InOrder(db, p, s),
           \A i \in 1 .. Len(s) : s[i] \in Calls
    PROVE  InOrder(db', p, s)
<1>1. /\ Hist(db) \in Nat /\ Hist(db') \in Nat
      /\ LastId(db) \in Int /\ LastId(db') \in Int
      /\ Hist(db) <= Hist(db') /\ LastId(db) <= LastId(db')
      /\ \A u \in Users : Stamp(db', u) <= Hist(db) => Stamp(db', u) = Stamp(db, u)
      /\ \A u \in Users : Stamp(db', u) \in Nat
    BY ServerStep, OpenedNumbers DEF Inv
<1>2. p \in Pages /\ p.LocalHistoryId \in Nat /\ p.LocalHistoryId <= Hist(db)
    BY DEF InOrder, Sound, Pages
<1>3. Sound(p, LastId(db'))
  <2>1. PICK D \in SUBSET Nat : p.loadedMessages \in [D -> Views]
    BY <1>2 DEF Pages
  <2>2. \A i \in DOMAIN p.loadedMessages : i \in Nat /\ i <= LastId(db)
    BY <2>1 DEF InOrder, Sound
  <2>3. \A i \in DOMAIN p.loadedMessages : i <= LastId(db')
    BY <1>1, <2>2
  <2> QED
    BY <2>3 DEF InOrder, Sound
<1>4. ASSUME NEW from \in Nat, from <= Hist(db), NEW told, Knows(db, p, from, told)
      PROVE  Knows(db', p, from, told)
    BY <1>1, <1>4 DEF Knows
<1>5. ASSUME NEW i \in 1 .. Len(s)
      PROVE  Introduces(db', p, s[i])
  <2>1. /\ s[i].LocalHistoryId \in Nat
        /\ IsHeard(s[i]) => s[i].answer.HistoryId \in Nat /\ s[i].answer.lastMsgId \in Int
    BY DEF Calls, Replies, IsHeard, Heard
  <2>2. Introduces(db, p, s[i])
    BY DEF InOrder
  <2>3. /\ s[i].LocalHistoryId <= Hist(db')
        /\ s[i].answer = Pending => Knows(db', p, s[i].LocalHistoryId, {})
    BY <1>1, <1>4, <2>1, <2>2 DEF Introduces
  <2>4. IsHeard(s[i]) =>
            /\ s[i].answer.HistoryId <= Hist(db') /\ s[i].answer.lastMsgId <= LastId(db')
            /\ Knows(db', p, s[i].answer.HistoryId, DOMAIN s[i].answer.members)
    BY SMTT(30), <1>1, <1>4, <2>1, <2>2 DEF Introduces
  <2> QED
    BY <2>2, <2>3, <2>4 DEF Introduces
<1>6. p.LocalHistoryId <= Hist(db') /\ Knows(db', p, p.LocalHistoryId, {})
    BY <1>1, <1>2, <1>4 DEF InOrder
<1> QED
    BY <1>3, <1>5, <1>6 DEF InOrder

\* A step of the server takes nothing back from page or answers.
LEMMA ForwardStays ==
    ASSUME Inv, [Next]_db, NEW p, NEW s, InOrder(db, p, s), Forward(db, p, s),
           \A i \in 1 .. Len(s) : s[i] \in Calls
    PROVE  Forward(db', p, s)
<1> DEFINE A == Alive(MessagesOf(db, OpenedChat))
           B == Alive(MessagesOf(db', OpenedChat))
<1>1. /\ LastId(db) \in Int /\ LastId(db') \in Int /\ LastId(db) <= LastId(db')
      /\ \A m \in MessagesOf(db', OpenedChat) : m.exists => m.id \in A \/ m.id > LastId(db)
    BY ServerStep, OpenedNumbers DEF Inv
<1>2. \A i \in B : i \in A \/ i > LastId(db)
    BY <1>1 DEF Alive
<1> HIDE DEF A, B
<1>3. PageBefore(p, LastId(db'), B)
  <2>1. PageBefore(p, LastId(db), A) /\ p \in Pages
        /\ \A i \in DOMAIN p.loadedMessages : i <= LastId(db)
    BY DEF Forward, InOrder, Sound, A
  <2>2. PICK D \in SUBSET Nat : p.loadedMessages \in [D -> Views]
    BY <2>1 DEF Pages
  <2>3. p.lastMsgId \in Int /\ \A i \in DOMAIN p.loadedMessages : i \in Nat
    BY <2>1, <2>2 DEF Pages
  <2> QED
    BY <1>1, <1>2, <2>1, <2>3 DEF PageBefore
<1>4. ASSUME NEW i \in 1 .. Len(s), IsHeard(s[i])
      PROVE  AnswerBefore(s[i].answer, LastId(db'), B)
  <2> DEFINE r == s[i].answer
  <2>1. /\ r \in Replies /\ r.lastMsgId <= LastId(db)
        /\ AnswerBefore(r, LastId(db), A)
    BY <1>4 DEF Calls, IsHeard, Heard, Forward, InOrder, Introduces, A
  <2> HIDE DEF r
  <2>2. /\ r.lastMsgId \in Int
        /\ \A k \in r.messages : k.id \in Nat /\ k.id <= r.lastMsgId
    BY <2>1 DEF Replies, Views
  <2>3. \A k \in r.messages : ~(k.id > LastId(db))
    BY <1>1, <2>1, <2>2
  <2>4. AnswerBefore(r, LastId(db'), B)
    BY <1>1, <1>2, <2>1, <2>2, <2>3 DEF AnswerBefore
  <2> QED
    BY <2>4 DEF r
<1> QED
    BY <1>3, <1>4 DEF Forward, B

\* What page and answers say of what has not changed stays true.
LEMMA TruthStays ==
    ASSUME Inv, [Next]_db, NEW p, NEW s, NEW new, InOrder(db, p, s),
           Truth(db, p, s, new), OneChat,
           \A i \in 1 .. Len(s) : s[i] \in Calls
    PROVE  Truth(db', p, s, new)
<1>1. /\ Hist(db) \in Nat
      /\ \A u \in Users : Stamp(db', u) \in Nat
      /\ \A u \in Users : Stamp(db', u) <= Hist(db)
            => Stamp(db', u) = Stamp(db, u) /\ Role(db', u) = Role(db, u)
      /\ \A m \in MessagesOf(db', OpenedChat) :
            /\ m.chat_IncHistoryId \in Nat
            /\ m.chat_IncHistoryId <= Hist(db) => m \in MessagesOf(db, OpenedChat)
    BY ServerStep, OpenedNumbers DEF Inv
<1>2. ShowsTruth(db', p, new)
  <2>1. /\ ShowsTruth(db, p, new)
        /\ p.LocalHistoryId \in Nat /\ p.LocalHistoryId <= Hist(db)
    BY DEF Truth, InOrder, Sound, Pages
  <2> QED
    BY <1>1, <2>1 DEF ShowsTruth
<1>3. ASSUME NEW i \in 1 .. Len(s), IsHeard(s[i])
      PROVE  AnswerIsTrue(db', s[i])
  <2> DEFINE call == s[i]
  <2>1. /\ AnswerIsTrue(db, call) /\ call.LocalHistoryId \in Nat
        /\ call.answer.HistoryId \in Nat /\ call.answer.HistoryId <= Hist(db)
    BY <1>3 DEF Truth, InOrder, Introduces, Calls, Replies, IsHeard, Heard
  <2> HIDE DEF call
  <2>2. \A u \in Users : Stamp(db', u) <= call.answer.HistoryId
            => Stamp(db', u) = Stamp(db, u) /\ Role(db', u) = Role(db, u)
    BY <1>1, <2>1
  <2>3. \A m \in MessagesOf(db', OpenedChat) :
            m.chat_IncHistoryId <= call.answer.HistoryId
                => m \in MessagesOf(db, OpenedChat)
    BY <1>1, <2>1
  <2>4. ASSUME NEW u \in Users
        PROVE  /\ Stamp(db', u) \in call.LocalHistoryId + 1 .. call.answer.HistoryId
                    => u \in DOMAIN call.answer.members
               /\ Stamp(db', u) <= call.answer.HistoryId /\ u \in DOMAIN call.answer.members
                    => call.answer.members[u] = Role(db', u)
    <3>1. CASE Stamp(db', u) <= call.answer.HistoryId
      BY <2>1, <2>2, <3>1 DEF AnswerIsTrue
    <3>2. CASE ~(Stamp(db', u) <= call.answer.HistoryId)
      BY <1>1, <2>1, <3>2
    <3> QED
      BY <3>1, <3>2
  <2>5. AnswerIsTrue(db', call)
    BY <2>1, <2>3, <2>4 DEF AnswerIsTrue
  <2> QED
    BY <2>5 DEF call
<1> QED
    BY <1>2, <1>3 DEF Truth

\* the numbers the next lemmas compare
LEMMA SyncNumbers ==
    ASSUME Inv, PageTyped, InOrder(db, page, calls)
    PROVE  /\ Hist(db) \in Nat /\ LastId(db) \in Int
           /\ page \in Pages /\ page.LocalHistoryId \in Nat
           /\ Len(calls) \in Nat /\ calls \in Seq(Calls)
           /\ \A i \in 1 .. Len(calls) : calls[i] \in Calls
           /\ CallsTyped(calls, Pending, Refused)
<1>1. \A i \in 1 .. Len(calls) : calls[i] \in Calls
    BY DEF PageTyped
<1>2. CallsTyped(calls, Pending, Refused)
    BY <1>1 DEF CallsTyped, Heard, Calls, Replies
<1>3. page \in Pages /\ page.LocalHistoryId \in Nat
    BY DEF InOrder, Sound, Pages
<1> QED
    BY <1>1, <1>2, <1>3, OpenedNumbers DEF Inv, PageTyped

\* The server moves on under the page and its calls.
LEMMA Moves ==
    ASSUME SyncInv, [Next]_db
    PROVE  /\ Inv' /\ InOrder(db', page, calls)
           /\ ~overtaken => InTurn(db', page, calls, firstNew)
<1>1. Inv' /\ Hist(db) <= Hist(db') /\ Hist(db') \in Nat
    BY ServerStep, OpenedNumbers DEF SyncInv, Inv
<1>2. InOrder(db', page, calls)
    BY SyncNumbers, InOrderStays DEF SyncInv
<1>3. ASSUME ~overtaken PROVE InTurn(db', page, calls, firstNew)
  <2>1. InTurn(db, page, calls, firstNew)
    BY <1>3 DEF SyncInv
  <2>2. CallsInTurn(calls, page.LocalHistoryId, Hist(db'), Pending, Refused)
    BY <1>1, <2>1, SyncNumbers, InTurnGrow DEF SyncInv, InTurn
  <2>3. Forward(db', page, calls)
    BY <2>1, SyncNumbers, ForwardStays DEF SyncInv, InTurn
  <2>4. OneChat => Truth(db', page, calls, firstNew)
    BY <2>1, SyncNumbers, TruthStays DEF SyncInv, InTurn
  <2> QED
    BY <2>2, <2>3, <2>4 DEF InTurn
<1> QED
    BY <1>1, <1>2, <1>3

\* A step of the server alone keeps the invariant.
LEMMA ServerMoves ==
    ASSUME SyncInv, [Next]_db, UNCHANGED <<isOpen, page, calls, firstNew, overtaken>>
    PROVE  SyncInv'
BY Moves DEF SyncInv, PageTyped

-----------------------------------------------------------------------------
(* The page's part of a step *)

\* The invariant holds when the page is opened.
LEMMA SyncInit == ASSUME PageInit PROVE SyncInv
<1>1. Inv
    BY InitialInv DEF PageInit, Init, Inv
<1>2. PageTyped
    BY DEF PageInit, PageTyped
<1>3. /\ Hist(db) \in Nat /\ LastId(db) \in Int /\ LastId(db) >= -1
    BY <1>1, OpenedNumbers DEF Inv
<1>4. /\ page.LocalHistoryId = 0 /\ page.lastMsgId = -1 /\ calls = <<>>
      /\ page = BlankPage(Users) /\ DOMAIN page.loadedMessages = {}
    BY DEF PageInit, BlankPage
<1>5. Sound(page, LastId(db))
  <2>1. [i \in {} |-> i] \in UNION {[D -> Views] : D \in SUBSET Nat}
    <3>1. [i \in {} |-> i] \in [{} -> Views]
      OBVIOUS
    <3> QED
      BY <3>1
  <2>2. page \in Pages
    BY <1>4, <2>1 DEF BlankPage, Pages
  <2>3. RunIsShown(page) /\ ~page.threw
    BY <1>4 DEF RunIsShown, BlankPage
  <2> QED
    BY <1>4, <2>2, <2>3 DEF Sound
<1>6. InOrder(db, page, calls)
    BY <1>3, <1>4, <1>5 DEF InOrder, Knows
<1>7. CallsInTurn(calls, page.LocalHistoryId, Hist(db), Pending, Refused)
    BY <1>3, <1>4 DEF CallsInTurn
<1>8. Forward(db, page, calls)
    BY <1>3, <1>4 DEF Forward, PageBefore
<1>9. Truth(db, page, calls, firstNew)
  <2>1. MessagesOf(db, OpenedChat) = {}
    BY DEF PageInit, Init, InitialDb, MessagesOf
  <2> QED
    BY <1>4, <2>1 DEF Truth, ShowsTruth
<1> QED
    BY <1>1, <1>2, <1>6, <1>7, <1>8, <1>9 DEF SyncInv, InTurn

\* What an answer to this page does to it.
LEMMA Hearing ==
    ASSUME NEW d, DbInv(d), NEW p, Sound(p, LastId(d)), NEW r \in Replies,
           r.HistoryId <= Hist(d), r.lastMsgId <= LastId(d),
           Knows(d, p, r.HistoryId, DOMAIN r.members),
           \A m \in r.messages :
                \/ m.isSystem \/ m.senderUserId \in DOMAIN r.members
                \/ p.members[m.senderUserId] # Stranger
    PROVE  LET q == updateLocalStateFromChatUpdRespBlind(p, r)
           IN  /\ Sound(q, LastId(d))
               /\ q.LocalHistoryId = r.HistoryId /\ q.lastMsgId = r.lastMsgId
               /\ \A u \in Users :
                    q.members[u] = IF u \in DOMAIN r.members
                                   THEN r.members[u] ELSE p.members[u]
               /\ Applied(p, r.messages, q)
               /\ \A u \in Users : p.members[u] # Stranger => q.members[u] # Stranger
               /\ Knows(d, q, r.HistoryId, {})
<1> DEFINE q == updateLocalStateFromChatUpdRespBlind(p, r)
<1>1. LastId(d) \in Int
    BY OpenedNumbers
<1>2. /\ Sound(q, LastId(d))
      /\ q.LocalHistoryId = r.HistoryId /\ q.lastMsgId = r.lastMsgId
      /\ \A u \in Users :
            q.members[u] = IF u \in DOMAIN r.members
                           THEN r.members[u] ELSE p.members[u]
      /\ Applied(p, r.messages, q)
    BY <1>1, Updating
<1> HIDE DEF q
<1>3. \A u \in DOMAIN r.members : u \in Users /\ r.members[u] # Stranger
  <2>1. PICK D \in SUBSET Users : r.members \in [D -> Roles]
    BY DEF Replies
  <2> QED
    BY <2>1, SyncAssumption
<1>4. \A u \in Users : p.members[u] # Stranger => q.members[u] # Stranger
    BY <1>2, <1>3
<1>5. Knows(d, q, r.HistoryId, {})
    BY <1>2, <1>3 DEF Knows
<1> QED
    BY <1>2, <1>4, <1>5 DEF q

\* The page is opened: it is told of everybody who was ever in the chat.
LEMMA Opens ==
    ASSUME SyncInv, NEW selected, OpenPage(selected)
    PROVE  SyncInv'
<1> DEFINE reply == poll_update_chat_ONE_MSG_resp(db, OpenedChat, selected)
<1>1. /\ Inv /\ Inv' /\ db' = db /\ calls = <<>> /\ calls' = <<>>
      /\ page = BlankPage(Users) /\ isOpen' = TRUE
      /\ overtaken' = overtaken
      /\ page' = updateLocalStateFromChatUpdRespBlind(page, reply)
      /\ firstNew' = LastId(db) + 1
      /\ Sound(page, LastId(db))
    BY DEF SyncInv, PageTyped, OpenPage, Inv, InOrder, LastId
<1>2. Says(db, 0, reply)
    BY <1>1, PageRendered DEF Inv
<1> HIDE DEF reply
<1>3. /\ Hist(db) \in Nat /\ LastId(db) \in Int
      /\ \A u \in Users : Stamp(db, u) \in Nat /\ Stamp(db, u) <= Hist(db)
      /\ \A m \in MessagesOf(db, OpenedChat) : m.id \in Nat /\ m.id <= LastId(db)
      /\ \A m, k \in MessagesOf(db, OpenedChat) : m.id = k.id => m = k
    BY <1>1, OpenedNumbers DEF Inv
<1>4. /\ Sound(page', LastId(db)) /\ page'.LocalHistoryId = Hist(db)
      /\ page'.lastMsgId = LastId(db)
      /\ \A u \in Users :
            page'.members[u] = IF u \in DOMAIN reply.members
                               THEN reply.members[u] ELSE page.members[u]
      /\ Applied(page, reply.messages, page')
      /\ Knows(db, page', Hist(db), {})
  <2>1. Knows(db, page, reply.HistoryId, DOMAIN reply.members)
    BY <1>2, <1>3 DEF Knows, Says
  <2>2. \A m \in reply.messages : m.isSystem \/ m.senderUserId \in DOMAIN reply.members
    BY <1>2 DEF Says
  <2>3. /\ reply \in Replies /\ reply.HistoryId = Hist(db)
        /\ reply.lastMsgId = LastId(db)
        /\ reply.HistoryId <= Hist(db) /\ reply.lastMsgId <= LastId(db)
    BY <1>2, <1>3 DEF Says
  <2> QED
    BY <1>1, <2>1, <2>2, <2>3, Hearing DEF Inv
<1>5. PageTyped'
    BY <1>1, <1>3 DEF PageTyped
<1>6. InOrder(db, page', <<>>)
    BY <1>3, <1>4 DEF InOrder
<1>7. ASSUME NEW i \in DOMAIN page'.loadedMessages
      PROVE  \E m \in MessagesOf(db, OpenedChat) :
                m.id = i /\ page'.loadedMessages[i] = make_messageSt_obj(m)
  <2>1. \E m \in reply.messages : m.id = i /\ page'.loadedMessages[i] = m
    <3>1. DOMAIN page.loadedMessages = {}
      BY <1>1 DEF BlankPage
    <3>2. \E m \in reply.messages : m.id = i
      BY <1>4, <3>1 DEF Applied, IsLoaded
    <3> QED
      BY <1>4, <3>2 DEF Applied
  <2>2. \A m : make_messageSt_obj(m).id = m.id
    BY DEF make_messageSt_obj
  <2> QED
    BY <1>2, <2>1, <2>2 DEF Says
<1>8. InTurn(db, page', <<>>, LastId(db) + 1)
  <2>1. CallsInTurn(<<>>, page'.LocalHistoryId, Hist(db), Pending, Refused)
    BY <1>3, <1>4 DEF CallsInTurn
  <2>2. Forward(db, page', <<>>)
    <3>1. \A m : make_messageSt_obj(m).exists = m.exists
      BY DEF make_messageSt_obj
    <3>2. PageBefore(page', LastId(db), Alive(MessagesOf(db, OpenedChat)))
      BY <1>3, <1>4, <1>7, <3>1 DEF PageBefore, Alive
    <3> QED
      BY <3>2 DEF Forward
  <2>3. \A u \in Users :
            Stamp(db, u) \in 1 .. page'.LocalHistoryId => page'.members[u] = Role(db, u)
    BY <1>2, <1>3, <1>4 DEF Says
  <2>4. \A m \in MessagesOf(db, OpenedChat) :
            /\ IsLoaded(page', m.id)
                => page'.loadedMessages[m.id] = make_messageSt_obj(m)
            /\ ~(m.id >= LastId(db) + 1)
    BY <1>3, <1>7 DEF IsLoaded
  <2>5. Truth(db, page', <<>>, LastId(db) + 1)
    BY <2>3, <2>4 DEF Truth, ShowsTruth
  <2> QED
    BY <2>1, <2>2, <2>5 DEF InTurn
<1> QED
    BY <1>1, <1>5, <1>6, <1>8 DEF SyncInv

\* The page makes a call.
LEMMA Calling ==
    ASSUME SyncInv, NEW api, NEW msgId \in Int, NEW direction, NEW text,
           Request(api, msgId, direction, text),
           api \in {"chatPollEvents", "getMessageNeighbours",
                    "sendMessage", "deleteMessage"},
           direction \in {"none", "backward", "forward"},
           text \in Texts \cup {NoText},
           api = "sendMessage" => text \in Texts,
           api = "deleteMessage" => msgId \in 0 .. MaxHistory
    PROVE  SyncInv'
<1> DEFINE call == [api |-> api, LocalHistoryId |-> page.LocalHistoryId,
                    msgId |-> msgId, direction |-> direction, text |-> text,
                    answer |-> Pending]
<1>1. /\ Inv /\ PageTyped /\ db' = db /\ page' = page /\ isOpen /\ isOpen' = isOpen
      /\ overtaken' = overtaken /\ firstNew' = firstNew
      /\ calls' = Append(calls, call) /\ InOrder(db, page, calls)
    BY DEF SyncInv, Request
<1>2. /\ call \in Calls
      /\ call.LocalHistoryId = page.LocalHistoryId /\ call.answer = Pending
    BY <1>1, SyncNumbers DEF Calls
<1> HIDE DEF call
<1>3. /\ calls \in Seq(Calls) /\ Len(calls') = Len(calls) + 1
      /\ \A j \in 1 .. Len(calls) : calls'[j] = calls[j]
      /\ calls'[Len(calls) + 1] = call /\ calls' \in Seq(Calls)
      /\ Len(calls) \in Nat
    BY <1>1, <1>2 DEF PageTyped
<1>4. \A j \in 1 .. Len(calls') : j \in 1 .. Len(calls) \/ j = Len(calls) + 1
    BY <1>3
<1>5. PageTyped'
    BY <1>1, <1>3 DEF PageTyped
<1>6. Introduces(db, page, call)
    BY <1>1, <1>2 DEF InOrder, Introduces, IsHeard, Heard
<1>7. InOrder(db, page, calls')
    BY <1>1, <1>3, <1>4, <1>6 DEF InOrder
<1>8. ASSUME ~overtaken' PROVE InTurn(db, page, calls', firstNew)
  <2>1. InTurn(db, page, calls, firstNew)
    BY <1>1, <1>8 DEF SyncInv
  <2>2. CallsInTurn(calls', page.LocalHistoryId, Hist(db), Pending, Refused)
    BY <2>1, <1>1, <1>2, <1>3, SyncNumbers, InTurnAppend DEF InTurn
  <2>3. \A j \in 1 .. Len(calls') :
            IsHeard(calls'[j]) => j \in 1 .. Len(calls) /\ calls'[j] = calls[j]
    BY <1>2, <1>3, <1>4 DEF IsHeard, Heard
  <2>4. Forward(db, page, calls')
    BY <2>1, <2>3 DEF InTurn, Forward
  <2>5. OneChat => Truth(db, page, calls', firstNew)
    BY <2>1, <2>3 DEF InTurn, Truth
  <2> QED
    BY <2>2, <2>4, <2>5 DEF InTurn
<1> QED
    BY <1>1, <1>5, <1>7, <1>8 DEF SyncInv, Inv

\* The server answers a call: it is Moves, and one answer more.
LEMMA Answering ==
    ASSUME SyncInv, NEW i \in 1 .. Len(calls), Answer(i)
    PROVE  SyncInv'
<1> DEFINE from == calls[i].LocalHistoryId
           reply == poll_update_chat_important_segment_resp(db', OpenedChat, from,
                        Segment(db', calls[i]))
<1>0. /\ Inv /\ PageTyped /\ page' = page /\ isOpen' = isOpen
      /\ firstNew' = firstNew /\ [Next]_db
      /\ calls \in Seq(Calls) /\ calls[i] \in Calls /\ Len(calls) \in Nat
      /\ calls[i].answer = Pending /\ from \in Nat
  <2>1. Inv /\ PageTyped /\ calls \in Seq(Calls) /\ calls[i] \in Calls
    BY DEF SyncInv, PageTyped
  <2>2. calls[i].LocalHistoryId \in Nat /\ Len(calls) \in Nat
    BY <2>1 DEF Calls
  <2>3. /\ page' = page /\ isOpen' = isOpen /\ firstNew' = firstNew
        /\ calls[i].answer = Pending
    BY DEF Answer
  <2> QED
    BY <2>1, <2>2, <2>3, AnswerIsRequest
<1>1. /\ Inv' /\ InOrder(db', page, calls)
      /\ ~overtaken => InTurn(db', page, calls, firstNew)
    BY <1>0, Moves
<1>2. PICK answer : /\ calls' = [calls EXCEPT ![i].answer = answer]
                    /\ answer = Refused \/ answer = reply
    BY DEF Answer
<1>3. /\ Says(db', from, reply)
      /\ \A m \in MessagesOf(db', OpenedChat) :
            m.chat_IncHistoryId > from => make_messageSt_obj(m) \in reply.messages
    BY <1>0, <1>1, CallAnswered DEF Inv
<1> HIDE DEF reply
<1>4. /\ Hist(db') \in Nat /\ LastId(db') \in Int
      /\ \A u \in Users : Stamp(db', u) \in Nat /\ Stamp(db', u) <= Hist(db')
      /\ \A m, k \in MessagesOf(db', OpenedChat) : m.id = k.id => m = k
    BY <1>1, OpenedNumbers DEF Inv
<1>5. /\ reply \in Replies /\ reply.HistoryId = Hist(db')
      /\ reply.lastMsgId = LastId(db') /\ reply.HistoryId \in Nat
    BY <1>3, <1>4 DEF Says
<1>6. /\ calls' \in Seq(Calls) /\ Len(calls') = Len(calls)
      /\ \A j \in 1 .. Len(calls) : j # i => calls'[j] = calls[j]
      /\ calls'[i] = [calls[i] EXCEPT !.answer = answer]
  <2>1. [calls[i] EXCEPT !.answer = answer] \in Calls
    BY <1>0, <1>2, <1>5 DEF Calls
  <2> QED
    BY <1>0, <1>2, <2>1
<1>7. calls'[i].LocalHistoryId = from /\ calls'[i].answer = answer
    BY <1>0, <1>6 DEF Calls
<1> HIDE DEF from
<1>8. PageTyped'
    BY <1>0, <1>6 DEF PageTyped
<1>9. InOrder(db', page, calls')
  <2>1. ASSUME answer = reply
        PROVE  /\ answer.HistoryId <= Hist(db') /\ answer.lastMsgId <= LastId(db')
               /\ Knows(db', page, answer.HistoryId, DOMAIN answer.members)
               /\ \A m \in answer.messages :
                    \/ m.isSystem \/ m.senderUserId \in DOMAIN answer.members
                    \/ page.members[m.senderUserId] # Stranger
    <3>1. Introduces(db', page, calls[i])
      BY <1>1 DEF InOrder
    <3>2. Knows(db', page, from, {})
      BY <1>0, <3>1 DEF Introduces, from
    <3>3. \A u \in Users : Stamp(db', u) > 0
            => u \in DOMAIN answer.members \/ page.members[u] # Stranger
      <4>1. \A u \in Users : u \in DOMAIN answer.members <=> Stamp(db', u) > from
        BY <1>3, <2>1 DEF Says
      <4>2. from \in Nat
        BY <1>0 DEF Calls, from
      <4> QED
        BY <1>4, <3>2, <4>1, <4>2 DEF Knows
    <3>4. \A m \in answer.messages : ~m.isSystem =>
                m.senderUserId \in Users /\ Stamp(db', m.senderUserId) > 0
      BY <1>3, <2>1 DEF Says
    <3>5. Knows(db', page, answer.HistoryId, DOMAIN answer.members)
      BY <1>4, <1>5, <2>1, <3>3 DEF Knows
    <3> QED
      BY <1>4, <1>5, <2>1, <3>3, <3>4, <3>5
  <2>2. Introduces(db', page, calls'[i])
    <3>1. calls'[i].LocalHistoryId <= Hist(db')
      BY <1>1, <1>7 DEF InOrder, Introduces, from
    <3>2. calls'[i].answer # Pending \/ answer = Pending
      BY <1>7
    <3>3. answer = Pending => Knows(db', page, from, {})
      BY <1>0, <1>1 DEF InOrder, Introduces, from
    <3> QED
      BY <1>2, <1>7, <2>1, <3>1, <3>3 DEF Introduces, IsHeard, Heard
  <2>3. \A j \in 1 .. Len(calls') : Introduces(db', page, calls'[j])
    BY <1>1, <1>6, <2>2 DEF InOrder
  <2> QED
    BY <1>1, <2>3 DEF InOrder
<1>10. ASSUME ~overtaken' PROVE InTurn(db', page, calls', firstNew)
  <2>1. /\ ~overtaken /\ \A j \in 1 .. i - 1 : calls[j].answer # Pending
    BY <1>10 DEF Answer
  <2>2. InTurn(db', page, calls, firstNew)
    BY <1>1, <2>1
  <2>3. answer = Refused \/ answer.HistoryId = Hist(db')
    BY <1>2, <1>5
  <2>4. CallsInTurn(calls', page.LocalHistoryId, Hist(db'), Pending, Refused)
    <3>1. /\ CallsTyped(calls, Pending, Refused) /\ page.LocalHistoryId \in Nat
      BY <1>0, SyncNumbers DEF SyncInv
    <3> DEFINE now == Hist(db')
               here == page.LocalHistoryId
               r == calls'
    <3>2. /\ now \in Nat /\ now >= now /\ here \in Nat
          /\ CallsInTurn(calls, here, now, Pending, Refused)
          /\ answer = Refused \/ answer.HistoryId = now
          /\ Len(r) = Len(calls) /\ \A j \in 1 .. Len(calls) : j # i => r[j] = calls[j]
          /\ r[i].LocalHistoryId = calls[i].LocalHistoryId /\ r[i].answer = answer
      BY <1>4, <1>6, <1>7, <2>2, <2>3, <3>1 DEF InTurn, from
    <3>3. /\ calls \in Seq(Calls) /\ calls[i].answer = Pending
          /\ \A j \in 1 .. i - 1 : calls[j].answer # Pending
          /\ CallsTyped(calls, Pending, Refused)
      BY <1>0, <2>1, <3>1
    <3> HIDE DEF now, here, r
    <3>4. CallsInTurn(r, here, now, Pending, Refused)
      BY ZenonT(60), <3>2, <3>3, InTurnAnswer
    <3> QED
      BY <3>4 DEF now, here, r
  <2>5. \A j \in 1 .. Len(calls) : IsHeard(calls[j]) => j < i
    <3>1. \A j \in 1 .. Len(calls) : i < j => calls[j].answer = Pending
      BY <1>0, <2>2 DEF InTurn, CallsInTurn
    <3> QED
      BY <1>0, <3>1 DEF IsHeard, Heard
  <2>6. ASSUME NEW j \in 1 .. Len(calls'), IsHeard(calls'[j]), j # i
        PROVE  /\ j \in 1 .. Len(calls) /\ j < i
               /\ calls'[j] = calls[j] /\ IsHeard(calls[j])
    BY <1>6, <2>5, <2>6
  <2>7. ASSUME IsHeard(calls'[i]) PROVE answer = reply
    BY <1>2, <1>7, <2>7 DEF IsHeard, Heard
  <2> DEFINE alive == Alive(MessagesOf(db', OpenedChat))
  <2>8. /\ \A k \in Alive(reply.messages) : k \in alive
        /\ \A k \in reply.messages : k.id \in alive => k.exists
    <3>1. \A m : /\ make_messageSt_obj(m).id = m.id
                 /\ make_messageSt_obj(m).exists = m.exists
      BY DEF make_messageSt_obj
    <3>2. \A k \in reply.messages : \E m \in MessagesOf(db', OpenedChat) :
                k.id = m.id /\ k.exists = m.exists
      BY <1>3, <3>1 DEF Says
    <3> QED
      BY <1>4, <3>2 DEF Alive
  <2> HIDE DEF alive
  <2>9. Forward(db', page, calls')
    <3>1. PageBefore(page, LastId(db'), alive)
      BY <2>2 DEF InTurn, Forward, alive
    <3>2. PageBefore(page, reply.lastMsgId, Alive(reply.messages))
      BY <1>5, <2>8, <3>1 DEF PageBefore
    <3>3. AnswerBefore(reply, LastId(db'), alive)
      BY <1>4, <1>5, <2>8 DEF AnswerBefore
    <3>4. \A j \in 1 .. Len(calls') : IsHeard(calls'[j]) =>
            /\ PageBefore(page, calls'[j].answer.lastMsgId, Alive(calls'[j].answer.messages))
            /\ AnswerBefore(calls'[j].answer, LastId(db'), alive)
      BY <1>7, <2>2, <2>6, <2>7, <3>2, <3>3 DEF InTurn, Forward, alive
    <3>5. ASSUME NEW j \in 1 .. Len(calls'), NEW k \in 1 .. Len(calls'), j < k,
                 IsHeard(calls'[j]), IsHeard(calls'[k])
          PROVE  AnswerBefore(calls'[j].answer, calls'[k].answer.lastMsgId,
                              Alive(calls'[k].answer.messages))
      <4>0. j # i
        BY <2>6, <3>5, <1>0
      <4>1. CASE k = i
        <5>1. AnswerBefore(calls'[j].answer, LastId(db'), alive)
          BY <3>4, <3>5
        <5>2. AnswerBefore(calls'[j].answer, reply.lastMsgId, Alive(reply.messages))
          BY <1>5, <2>8, <5>1 DEF AnswerBefore
        <5> QED
          BY <1>7, <2>7, <3>5, <4>1, <5>2
      <4>2. CASE k # i
        BY <2>2, <2>6, <3>5, <4>0, <4>2 DEF InTurn, Forward
      <4> QED
        BY <4>1, <4>2
    <3> QED
      BY <3>1, <3>4, <3>5 DEF Forward, alive
  <2>10. ASSUME OneChat PROVE Truth(db', page, calls', firstNew)
    <3>1. Truth(db', page, calls, firstNew)
      BY <2>2, <2>10 DEF InTurn
    <3>2. ASSUME answer = reply PROVE AnswerIsTrue(db', calls'[i])
      <4>1. /\ calls'[i].answer = reply /\ calls'[i].LocalHistoryId = from
        BY <1>7, <3>2
      <4>2. \A u \in Users :
                /\ Stamp(db', u) \in from + 1 .. reply.HistoryId
                    => u \in DOMAIN reply.members
                /\ u \in DOMAIN reply.members => reply.members[u] = Role(db', u)
        <5>1. from \in Nat
          BY <1>0 DEF Calls, from
        <5> QED
          BY <1>3, <1>4, <1>5, <5>1 DEF Says
      <4>3. \A m \in MessagesOf(db', OpenedChat) :
                \A k \in reply.messages : k.id = m.id => k = make_messageSt_obj(m)
        <5>1. \A m : make_messageSt_obj(m).id = m.id
          BY DEF make_messageSt_obj
        <5> QED
          BY <1>3, <1>4, <5>1 DEF Says
      <4> QED
        BY <1>3, <4>1, <4>2, <4>3 DEF AnswerIsTrue
    <3>3. \A j \in 1 .. Len(calls') : IsHeard(calls'[j]) => AnswerIsTrue(db', calls'[j])
      BY <2>6, <2>7, <3>1, <3>2 DEF Truth
    <3> QED
      BY <3>1, <3>3 DEF Truth
  <2> QED
    BY <2>4, <2>9, <2>10 DEF InTurn
<1> QED
    BY <1>0, <1>1, <1>8, <1>9, <1>10 DEF SyncInv

\* A call goes, its answer heard or not: those that remain are as they were,
\* and in their order.
LEMMA Going ==
    ASSUME PageTyped, NEW i \in 1 .. Len(calls), calls' = RemoveAt(calls, i)
    PROVE  /\ isOpen /\ calls' \in Seq(Calls)
           /\ \A j \in 1 .. Len(calls') :
                \E k \in 1 .. Len(calls) : calls'[j] = calls[k] /\ (i = 1 => 1 < k)
           /\ \A j, k \in 1 .. Len(calls') : j < k =>
                \E a, b \in 1 .. Len(calls) :
                    a < b /\ calls'[j] = calls[a] /\ calls'[k] = calls[b]
<1>1. calls \in Seq(Calls) /\ (~isOpen => calls = <<>>)
    BY DEF PageTyped
<1>2. isOpen
    BY <1>1
<1>3. /\ calls' \in Seq(Calls) /\ Len(calls') = Len(calls) - 1
      /\ \A j \in 1 .. Len(calls) - 1 :
            calls'[j] = IF j < i THEN calls[j] ELSE calls[j + 1]
      /\ Len(calls) \in Nat
    BY SMTT(30), <1>1, RemoveAtFacts
<1> DEFINE was(j) == IF j < i THEN j ELSE j + 1
<1>4. \A j \in 1 .. Len(calls') :
        /\ was(j) \in 1 .. Len(calls) /\ calls'[j] = calls[was(j)]
        /\ i = 1 => 1 < was(j)
    BY <1>3
<1>5. \A j, k \in 1 .. Len(calls') : j < k => was(j) < was(k)
    BY <1>3
<1> HIDE DEF was
<1>6. \A j \in 1 .. Len(calls') :
        \E k \in 1 .. Len(calls) : calls'[j] = calls[k] /\ (i = 1 => 1 < k)
    BY <1>4
<1>7. \A j, k \in 1 .. Len(calls') : j < k =>
        \E a, b \in 1 .. Len(calls) :
            a < b /\ calls'[j] = calls[a] /\ calls'[k] = calls[b]
    BY <1>4, <1>5
<1> QED
    BY <1>2, <1>3, <1>6, <1>7

\* A call goes without an effect on the page: it was lost, or it failed.
LEMMA Ending ==
    ASSUME SyncInv, NEW i \in 1 .. Len(calls), calls' = RemoveAt(calls, i),
           UNCHANGED <<db, isOpen, page, firstNew>>, overtaken => overtaken'
    PROVE  SyncInv'
<1>1. PageTyped /\ Inv /\ InOrder(db, page, calls)
    BY DEF SyncInv
<1>2. PageTyped' /\ Inv'
    BY <1>1, Going DEF PageTyped, Inv
<1>3. InOrder(db, page, calls')
    BY <1>1, Going DEF InOrder
<1>4. ASSUME ~overtaken' PROVE InTurn(db, page, calls', firstNew)
  <2>1. InTurn(db, page, calls, firstNew) /\ calls \in Seq(Calls)
    BY <1>4 DEF SyncInv, PageTyped
  <2>2. CallsInTurn(calls', page.LocalHistoryId, Hist(db), Pending, Refused)
    BY <1>1, <2>1, SyncNumbers, InTurnRemove DEF InTurn
  <2>3. Forward(db, page, calls')
    <3>1. Forward(db, page, calls)
      BY <2>1 DEF InTurn
    <3>2. ASSUME NEW j \in 1 .. Len(calls'), IsHeard(calls'[j])
          PROVE  /\ PageBefore(page, calls'[j].answer.lastMsgId,
                               Alive(calls'[j].answer.messages))
                 /\ AnswerBefore(calls'[j].answer, LastId(db),
                                 Alive(MessagesOf(db, OpenedChat)))
      <4>1. PICK k \in 1 .. Len(calls) : calls'[j] = calls[k]
        BY <1>1, Going
      <4> QED
        BY <3>1, <3>2, <4>1 DEF Forward
    <3>3. ASSUME NEW j \in 1 .. Len(calls'), NEW k \in 1 .. Len(calls'), j < k,
                 IsHeard(calls'[j]), IsHeard(calls'[k])
          PROVE  AnswerBefore(calls'[j].answer, calls'[k].answer.lastMsgId,
                              Alive(calls'[k].answer.messages))
      <4>1. PICK a \in 1 .. Len(calls), b \in 1 .. Len(calls) :
                a < b /\ calls'[j] = calls[a] /\ calls'[k] = calls[b]
        BY <1>1, <3>3, Going
      <4> QED
        BY <3>1, <3>3, <4>1 DEF Forward
    <3> QED
      BY <3>1, <3>2, <3>3 DEF Forward
  <2>4. OneChat => Truth(db, page, calls', firstNew)
    BY <1>1, <2>1, Going DEF InTurn, Truth
  <2> QED
    BY <2>2, <2>3, <2>4 DEF InTurn
<1> QED
    BY <1>2, <1>3, <1>4 DEF SyncInv

\* An answer arrives that says something.
LEMMA Delivering ==
    ASSUME SyncInv, NEW i \in 1 .. Len(calls), Deliver(i),
           calls[i].answer # Refused
    PROVE  SyncInv'
<1> DEFINE reply == calls[i].answer
<1>1. /\ calls' = RemoveAt(calls, i) /\ db' = db /\ isOpen' = isOpen
      /\ overtaken' = (overtaken \/ i # 1) /\ firstNew' = firstNew
      /\ page' = updateLocalStateFromChatUpdRespBlind(page, reply)
      /\ PageTyped /\ Inv /\ InOrder(db, page, calls)
      /\ calls \in Seq(Calls) /\ IsHeard(calls[i])
    BY DEF Deliver, SyncInv, PageTyped, IsHeard, Heard
<1>2. /\ reply \in Replies /\ reply.HistoryId \in Nat
      /\ Introduces(db, page, calls[i]) /\ Sound(page, LastId(db))
      /\ reply.HistoryId <= Hist(db) /\ reply.lastMsgId <= LastId(db)
    BY <1>1 DEF Calls, IsHeard, Heard, Replies, InOrder, Introduces
<1> HIDE DEF reply
<1>3. /\ Sound(page', LastId(db))
      /\ page'.LocalHistoryId = reply.HistoryId /\ page'.lastMsgId = reply.lastMsgId
      /\ \A u \in Users :
            page'.members[u] = IF u \in DOMAIN reply.members
                               THEN reply.members[u] ELSE page.members[u]
      /\ Applied(page, reply.messages, page')
      /\ \A u \in Users : page.members[u] # Stranger => page'.members[u] # Stranger
      /\ Knows(db, page', reply.HistoryId, {})
  <2>1. /\ Knows(db, page, reply.HistoryId, DOMAIN reply.members)
        /\ \A m \in reply.messages :
            \/ m.isSystem \/ m.senderUserId \in DOMAIN reply.members
            \/ page.members[m.senderUserId] # Stranger
    BY <1>1, <1>2 DEF Introduces, reply
  <2> QED
    BY <1>1, <1>2, <2>1, Hearing DEF Inv
<1>4. PageTyped' /\ Inv'
    BY <1>1, Going DEF PageTyped, Inv
<1>5. InOrder(db, page', calls')
  <2>1. ASSUME NEW j \in 1 .. Len(calls) PROVE Introduces(db, page', calls[j])
    <3>1. Introduces(db, page, calls[j]) /\ calls[j] \in Calls
      BY <1>1 DEF InOrder
    <3>2. \A from, told : Knows(db, page, from, told) => Knows(db, page', from, told)
      BY <1>3 DEF Knows
    <3>3. IsHeard(calls[j]) => \A m \in calls[j].answer.messages :
                m.isSystem \/ m.senderUserId \in Users
      BY <3>1 DEF Calls, IsHeard, Heard, Replies, Views
    <3> QED
      BY <1>3, <3>1, <3>2, <3>3 DEF Introduces
  <2>2. \A j \in 1 .. Len(calls') : Introduces(db, page', calls'[j])
    BY <1>1, <2>1, Going
  <2> QED
    BY <1>2, <1>3, <2>2 DEF InOrder
<1>6. ASSUME ~overtaken' PROVE InTurn(db, page', calls', firstNew)
  <2>1. InTurn(db, page, calls, firstNew) /\ i = 1
    BY <1>1, <1>6 DEF SyncInv
  <2>2. CallsInTurn(calls', page'.LocalHistoryId, Hist(db), Pending, Refused)
    BY <1>1, <1>3, <2>1, SyncNumbers, InTurnDeliver DEF InTurn, reply, IsHeard
  <2>3. Forward(db, page', calls')
    <3>1. ASSUME NEW last, NEW alive, PageBefore(page, last, alive),
                 AnswerBefore(reply, last, alive)
          PROVE  PageBefore(page', last, alive)
      <4>1. ASSUME NEW k \in DOMAIN page'.loadedMessages, k \in alive
            PROVE  page'.loadedMessages[k].exists
        <5>1. CASE \E m \in reply.messages : m.id = k
          BY <1>3, <3>1, <4>1, <5>1 DEF Applied, AnswerBefore
        <5>2. CASE ~ \E m \in reply.messages : m.id = k
          BY <1>3, <3>1, <4>1, <5>2 DEF Applied, PageBefore, IsLoaded
        <5> QED
          BY <5>1, <5>2
      <4> QED
        BY <1>3, <3>1, <4>1 DEF PageBefore, AnswerBefore
    <3> DEFINE alive == Alive(MessagesOf(db, OpenedChat))
    <3>2. Forward(db, page, calls)
      BY <2>1 DEF InTurn
    <3>3. PageBefore(page', LastId(db), alive)
      BY <1>1, <3>1, <3>2 DEF Forward, reply
    <3>4. ASSUME NEW j \in 1 .. Len(calls'), IsHeard(calls'[j])
          PROVE  /\ PageBefore(page', calls'[j].answer.lastMsgId,
                               Alive(calls'[j].answer.messages))
                 /\ AnswerBefore(calls'[j].answer, LastId(db), alive)
      <4>1. PICK k \in 1 .. Len(calls) : calls'[j] = calls[k] /\ 1 < k
        BY <1>1, <2>1, Going
      <4>2. /\ PageBefore(page, calls[k].answer.lastMsgId, Alive(calls[k].answer.messages))
            /\ AnswerBefore(calls[k].answer, LastId(db), alive)
            /\ AnswerBefore(reply, calls[k].answer.lastMsgId,
                            Alive(calls[k].answer.messages))
        BY <1>1, <2>1, <3>2, <3>4, <4>1 DEF Forward, reply
      <4> QED
        BY <3>1, <4>1, <4>2
    <3>5. ASSUME NEW j \in 1 .. Len(calls'), NEW k \in 1 .. Len(calls'), j < k,
                 IsHeard(calls'[j]), IsHeard(calls'[k])
          PROVE  AnswerBefore(calls'[j].answer, calls'[k].answer.lastMsgId,
                              Alive(calls'[k].answer.messages))
      <4>1. PICK a \in 1 .. Len(calls), b \in 1 .. Len(calls) :
                a < b /\ calls'[j] = calls[a] /\ calls'[k] = calls[b]
        BY <1>1, <3>5, Going
      <4> QED
        BY <3>2, <3>5, <4>1 DEF Forward
    <3> QED
      BY <3>3, <3>4, <3>5 DEF Forward
  <2>4. ASSUME OneChat PROVE Truth(db, page', calls', firstNew)
    <3>1. /\ ShowsTruth(db, page, firstNew) /\ AnswerIsTrue(db, calls[i])
          /\ \A j \in 1 .. Len(calls) : IsHeard(calls[j]) => AnswerIsTrue(db, calls[j])
      BY <1>1, <2>1, <2>4 DEF InTurn, Truth
    <3> DEFINE from == calls[i].LocalHistoryId
    <3>2. from \in Nat /\ from <= page.LocalHistoryId /\ page.LocalHistoryId \in Nat
      BY <1>1, <2>1, SyncNumbers DEF InTurn, CallsInTurn, CallsTyped
    <3>3. /\ \A u \in Users :
                /\ Stamp(db, u) \in from + 1 .. reply.HistoryId
                    => u \in DOMAIN reply.members
                /\ Stamp(db, u) <= reply.HistoryId /\ u \in DOMAIN reply.members
                    => reply.members[u] = Role(db, u)
          /\ \A m \in MessagesOf(db, OpenedChat) :
                m.chat_IncHistoryId <= reply.HistoryId =>
                    /\ m.chat_IncHistoryId > from
                        => make_messageSt_obj(m) \in reply.messages
                    /\ \A k \in reply.messages :
                        k.id = m.id => k = make_messageSt_obj(m)
      BY <3>1 DEF AnswerIsTrue, reply
    <3> HIDE DEF from
    <3>4. /\ \A u \in Users : Stamp(db, u) \in Nat
          /\ \A m \in MessagesOf(db, OpenedChat) : m.chat_IncHistoryId \in Nat
      BY <1>1, OpenedNumbers DEF Inv
    <3>5. ASSUME NEW u \in Users, Stamp(db, u) \in 1 .. page'.LocalHistoryId
          PROVE  page'.members[u] = Role(db, u)
      <4>1. CASE u \in DOMAIN reply.members
        BY <1>2, <1>3, <3>3, <3>4, <3>5, <4>1
      <4>2. CASE u \notin DOMAIN reply.members
        <5>1. Stamp(db, u) \in 1 .. page.LocalHistoryId
          BY <1>2, <1>3, <3>2, <3>3, <3>4, <3>5, <4>2
        <5> QED
          BY <1>3, <3>1, <4>2, <5>1 DEF ShowsTruth
      <4> QED
        BY <4>1, <4>2
    <3>6. ASSUME NEW m \in MessagesOf(db, OpenedChat),
                 m.chat_IncHistoryId <= page'.LocalHistoryId
          PROVE  /\ IsLoaded(page', m.id)
                    => page'.loadedMessages[m.id] = make_messageSt_obj(m)
                 /\ m.id >= firstNew => IsLoaded(page', m.id)
      <4>1. CASE \E k \in reply.messages : k.id = m.id
        BY <1>3, <3>3, <3>6, <4>1 DEF Applied
      <4>2. CASE ~ \E k \in reply.messages : k.id = m.id
        <5>1. make_messageSt_obj(m).id = m.id
          BY DEF make_messageSt_obj
        <5>2. ~(m.chat_IncHistoryId > from)
          BY <1>3, <3>3, <3>6, <4>2, <5>1
        <5>3. m.chat_IncHistoryId <= page.LocalHistoryId
          BY <3>2, <3>4, <5>2
        <5>4. IsLoaded(page', m.id) <=> IsLoaded(page, m.id)
          BY <1>3, <4>2 DEF Applied
        <5>5. IsLoaded(page, m.id)
                => page'.loadedMessages[m.id] = page.loadedMessages[m.id]
          BY <1>3, <4>2 DEF Applied
        <5> QED
          BY <3>1, <5>3, <5>4, <5>5 DEF ShowsTruth
      <4> QED
        BY <4>1, <4>2
    <3>7. ShowsTruth(db, page', firstNew)
      BY <3>5, <3>6 DEF ShowsTruth
    <3>8. \A j \in 1 .. Len(calls') : IsHeard(calls'[j]) => AnswerIsTrue(db, calls'[j])
      BY <1>1, <3>1, Going
    <3> QED
      BY <3>7, <3>8 DEF Truth
  <2> QED
    BY <2>2, <2>3, <2>4 DEF InTurn
<1> QED
    BY <1>1, <1>4, <1>5, <1>6 DEF SyncInv

-----------------------------------------------------------------------------
(* Every step *)

\* Every step of page, network or server keeps the invariant.
LEMMA SyncNext == ASSUME SyncInv, [PageNext]_vars PROVE SyncInv'
<1>1. [Next]_db
    BY PageStepsServer DEF SyncInv
<1>2. CASE \E selected \in -1 .. MaxHistory : OpenPage(selected)
    BY <1>2, Opens
<1>3. CASE UPDATE
    BY <1>3, Calling DEF UPDATE
<1>4. CASE requestPrimaryHeap
    BY <1>4, Calling DEF requestPrimaryHeap
<1>5. CASE requestTopHeap
  <2>1. page.visibleMsgSegStart \in Int
    BY DEF SyncInv, InOrder, Sound, Pages
  <2> QED
    BY <1>5, <2>1, Calling DEF requestTopHeap
<1>6. CASE requestBottomHeap
  <2>1. page.visibleMsgSegEnd \in Int
    BY DEF SyncInv, InOrder, Sound, Pages
  <2> QED
    BY <1>6, <2>1, Calling DEF requestBottomHeap
<1>7. CASE \E text \in Texts : sendMessage(text)
    BY <1>7, Calling DEF sendMessage
<1>8. CASE \E id \in 0 .. MaxHistory : deleteMessage(id)
    BY <1>8, Calling DEF deleteMessage
<1>9. ASSUME NEW i \in 1 .. Len(calls), Answer(i) \/ Deliver(i) \/ Lose(i)
      PROVE  SyncInv'
  <2>1. CASE Lose(i)
    BY <2>1, Ending DEF Lose
  <2>2. CASE Deliver(i) /\ calls[i].answer = Refused
    BY <2>2, Ending DEF Deliver
  <2> QED
    BY <1>9, <2>1, <2>2, Answering, Delivering
<1>10. CASE OthersAct \/ UNCHANGED vars
    BY <1>1, <1>10, ServerMoves DEF OthersAct, vars
<1> QED
    BY <1>2, <1>3, <1>4, <1>5, <1>6, <1>7, <1>8, <1>9, <1>10 DEF PageNext

\* The invariant of page, answers on their way and server.
LEMMA SyncAlways == PageSpec => []SyncInv
<1>1. PageInit => SyncInv
    BY SyncInit
<1>2. SyncInv /\ [PageNext]_vars => SyncInv'
    BY SyncNext
<1> QED
    BY <1>1, <1>2, PTL DEF PageSpec

\* In whatever order calls are answered and answers arrive, the page knows
\* the sender of every message it shows: updateLocalStateFromChatUpdRespBlind
\* never throws "First - update members".
THEOREM SendersKnown == PageSpec => []SendersAreKnown
<1>1. SyncInv => SendersAreKnown
    BY DEF SyncInv, InOrder, Sound, SendersAreKnown
<1> QED
    BY <1>1, SyncAlways, PTL

\* In whatever order and pieces the answers come, what the page shows is one
\* run of consecutive messages that no loaded message could make longer
\* (opaNewMessageSt).
THEOREM ShownRunMaximal == PageSpec => []ShownRunIsMaximal
<1>1. SyncInv => ShownRunIsMaximal
    BY DEF SyncInv, InOrder, Sound, RunIsShown, ShownRunIsMaximal
<1> QED
    BY <1>1, SyncAlways, PTL

\* As long as calls do not overtake each other, and in a site with one chat,
\* the page is true to its LocalHistoryId.
THEOREM PageIsTrue ==
    ASSUME OneChat PROVE PageSpec => []PageIsCurrentToItsHistoryId
<1>1. SyncInv => PageIsCurrentToItsHistoryId
    BY DEF SyncInv, InTurn, Truth, ShowsTruth, PageIsCurrentToItsHistoryId,
           Stamp, Role, get_role_of_user_in_chat
<1> QED
    BY <1>1, SyncAlways, PTL

\* As long as calls do not overtake each other, the page never goes back.
THEOREM PageGoesForward == PageSpec => PageNeverGoesBack
<1> DEFINE Step == isOpen /\ ~overtaken' =>
                    /\ page'.LocalHistoryId >= page.LocalHistoryId
                    /\ page'.lastMsgId >= page.lastMsgId
                    /\ \A i \in DOMAIN page.loadedMessages :
                        page'.loadedMessages[i].exists => page.loadedMessages[i].exists
<1>1. ASSUME SyncInv, [PageNext]_vars PROVE Step \/ UNCHANGED vars
  <2>1. page \in Pages /\ page.LocalHistoryId \in Nat /\ page.lastMsgId \in Int
    BY <1>1 DEF SyncInv, InOrder, Sound, Pages
  <2>2. CASE page' = page
    BY <2>1, <2>2
  <2>3. CASE isOpen /\ ~overtaken' /\ page' # page
    <3>1. PICK i \in 1 .. Len(calls) : Deliver(i)
      BY <1>1, <2>3 DEF PageNext, vars, OpenPage, UPDATE, requestPrimaryHeap,
            requestTopHeap, requestBottomHeap, sendMessage, deleteMessage, Request,
            Answer, Lose, OthersAct
    <3> DEFINE reply == calls[i].answer
    <3>2. /\ i = 1 /\ ~overtaken /\ IsHeard(calls[i]) /\ calls[i] \in Calls
          /\ page' = updateLocalStateFromChatUpdRespBlind(page, reply)
          /\ InOrder(db, page, calls) /\ InTurn(db, page, calls, firstNew)
      <4>1. calls[i].answer # Refused
        BY <2>3, <3>1 DEF Deliver
      <4>2. ~overtaken /\ i = 1
        BY <2>3, <3>1 DEF Deliver
      <4>3. /\ IsHeard(calls[i])
            /\ page' = updateLocalStateFromChatUpdRespBlind(page, reply)
        BY <3>1, <4>1 DEF Deliver, IsHeard, Heard
      <4>4. /\ calls[i] \in Calls /\ InOrder(db, page, calls)
            /\ InTurn(db, page, calls, firstNew)
        BY <1>1, <4>2 DEF SyncInv, PageTyped
      <4> QED
        BY <4>2, <4>3, <4>4
    <3>3. /\ reply \in Replies /\ reply.HistoryId \in Nat /\ reply.lastMsgId \in Int
          /\ Introduces(db, page, calls[i]) /\ Sound(page, LastId(db))
          /\ page.LocalHistoryId <= reply.HistoryId
          /\ PageBefore(page, reply.lastMsgId, Alive(reply.messages))
      BY <3>2 DEF Calls, IsHeard, Heard, Replies, InOrder, InTurn, CallsInTurn, Forward
    <3>4. /\ page'.LocalHistoryId = reply.HistoryId /\ page'.lastMsgId = reply.lastMsgId
          /\ Applied(page, reply.messages, page')
      <4>1. /\ reply.HistoryId <= Hist(db) /\ reply.lastMsgId <= LastId(db)
            /\ Knows(db, page, reply.HistoryId, DOMAIN reply.members)
            /\ \A m \in reply.messages :
                \/ m.isSystem \/ m.senderUserId \in DOMAIN reply.members
                \/ page.members[m.senderUserId] # Stranger
        BY <3>2, <3>3 DEF Introduces
      <4> HIDE DEF reply
      <4> QED
        BY <1>1, <3>2, <3>3, <4>1, Hearing DEF SyncInv, Inv
    <3> HIDE DEF reply
    <3>5. ASSUME NEW k \in DOMAIN page.loadedMessages, page'.loadedMessages[k].exists
          PROVE  page.loadedMessages[k].exists
      <4>1. CASE \E m \in reply.messages : m.id = k
        <5>1. k \in Alive(reply.messages)
          BY <3>4, <3>5, <4>1 DEF Applied, Alive
        <5> QED
          BY <3>3, <5>1 DEF PageBefore
      <4>2. CASE ~ \E m \in reply.messages : m.id = k
        BY <3>4, <3>5, <4>2 DEF Applied, IsLoaded
      <4> QED
        BY <4>1, <4>2
    <3> QED
      BY <2>1, <3>3, <3>4, <3>5 DEF PageBefore
  <2> QED
    BY <2>2, <2>3
<1>2. SyncInv /\ [PageNext]_vars => [Step]_vars
    BY <1>1
<1> HIDE DEF Step
<1>3. PageSpec => [][Step]_vars
    BY <1>2, SyncAlways, PTL DEF PageSpec
<1> QED
    BY <1>3 DEF Step, PageNeverGoesBack

\* To the server the page is one more client.
THEOREM PageIsServed == PageSpec => Spec
<1>1. PageInit => Init
    BY DEF PageInit
<1>2. SyncInv /\ [PageNext]_vars => [Next]_db
    BY PageStepsServer DEF SyncInv
<1> QED
    BY <1>1, <1>2, SyncAlways, PTL DEF PageSpec, Spec
=============================================================================
