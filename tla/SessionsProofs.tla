--------------------------- MODULE SessionsProofs ---------------------------
(***************************************************************************)
(* Proofs about Sessions, for any browsers, tabs, users and passwords:     *)
(* cookies do not pile up, and the login of a browser that does one thing  *)
(* at a time lasts.                                                        *)
(***************************************************************************)
EXTENDS Sessions, FiniteSetTheorems, TLAPS

\* A login makes a cookie.
LEMMA CookieType ==
    ASSUME SessionsAssumption, TypeOK, clock < MaxTime,
           NEW u \in Users, NEW p \in Passwords
    PROVE  create_login_cookie(u, p) \in Cookie
BY DEF SessionsAssumption, TypeOK, create_login_cookie, Cookie

\* The headers of a login are headers.
LEMMA HeadersType ==
    ASSUME NEW cookies \in SUBSET Cookie, NEW c \in Cookie
    PROVE  add_set_cookie_headers_to_login(cookies, c) \in Headers
<1>1. \A d \in cookies : d.login_time \in 1 .. MaxTime BY DEF Cookie
<1> QED BY <1>1 DEF add_set_cookie_headers_to_login, Headers

\* No headers are headers too.
LEMMA NoHeadersType == NoHeaders \in Headers
BY DEF NoHeaders, Headers

\* What a step may rely on about the request it is about.
LEMMA RequestType ==
    ASSUME TypeOK, NEW b \in Browsers, NEW t \in Tabs, tab[b][t] # Idle
    PROVE  /\ tab[b][t] \in Request
           /\ tab[b][t].cookies \in SUBSET Cookie
           /\ tab[b][t].form.nickname \in Users
           /\ tab[b][t].form.page = "login"
                => tab[b][t].form.password \in Passwords
<1>1. tab[b][t] \in Request BY DEF TypeOK
<1>2. tab[b][t].form \in LoginRequest \cup ProfileRequest BY <1>1 DEF Request
<1>3. CASE tab[b][t].form \in LoginRequest
  BY <1>1, <1>3 DEF Request, LoginRequest
<1>4. CASE tab[b][t].form \in ProfileRequest
  BY <1>1, <1>4 DEF Request, ProfileRequest
<1> QED BY <1>2, <1>3, <1>4

\* An answer is written into a request.
LEMMA AnswerType ==
    ASSUME TypeOK, NEW b \in Browsers, NEW t \in Tabs, tab[b][t] # Idle,
           NEW h \in Headers, Answer(b, t, h)
    PROVE  /\ tab' \in [Browsers -> [Tabs -> Request \cup {Idle}]]
           /\ tab'[b][t] = [tab[b][t] EXCEPT !.answer = h]
           /\ \A x \in Browsers, y \in Tabs :
                x # b \/ y # t => tab'[x][y] = tab[x][y]
<1>1. tab[b][t] \in Request BY RequestType
<1>2. [tab[b][t] EXCEPT !.answer = h] \in Request BY <1>1 DEF Request
<1> QED BY <1>2 DEF Answer, TypeOK

-----------------------------------------------------------------------------
(* Type correctness *)

\* Every step keeps the types.
LEMMA TypeStep == ASSUME SessionsAssumption, TypeOK, [Next]_vars PROVE TypeOK'
<1>1. CASE UNCHANGED vars BY <1>1 DEF vars, TypeOK
<1>2. ASSUME NEW b \in Browsers, NEW t \in Tabs,
             NEW form \in LoginRequest \cup ProfileRequest, Post(b, t, form)
      PROVE  TypeOK'
  <2>1. [form |-> form, cookies |-> jar[b], answer |-> Pending] \in Request
    BY DEF TypeOK, Request
  <2> QED BY <1>2, <2>1 DEF Post, TypeOK
<1>3. ASSUME NEW b \in Browsers, NEW t \in Tabs, ServeLogin(b, t)
      PROVE  TypeOK'
  <2>1. tab[b][t] # Idle /\ UNCHANGED <<password, jar, session, overlapped>>
    BY <1>3 DEF ServeLogin
  <2>2. CASE Answer(b, t, NoHeaders) /\ UNCHANGED clock
    BY <2>1, <2>2, AnswerType, NoHeadersType DEF TypeOK
  <2> DEFINE form == tab[b][t].form
             h == add_set_cookie_headers_to_login(tab[b][t].cookies,
                        create_login_cookie(form.nickname, form.password))
  <2>3. CASE clock < MaxTime /\ clock' = clock + 1 /\ Answer(b, t, h)
    <3>1. form.page = "login" BY <1>3 DEF ServeLogin
    <3>2. h \in Headers BY <2>1, <2>3, <3>1, RequestType, CookieType, HeadersType
    <3>3. clock' \in 0 .. MaxTime BY <2>3 DEF TypeOK, SessionsAssumption
    <3> QED BY <2>1, <2>3, <3>2, <3>3, AnswerType DEF TypeOK
  <2> QED BY <1>3, <2>2, <2>3 DEF ServeLogin
<1>4. ASSUME NEW b \in Browsers, NEW t \in Tabs, ServeProfile(b, t)
      PROVE  TypeOK'
  BY <1>4, AnswerType, NoHeadersType DEF ServeProfile, TypeOK
<1>5. ASSUME NEW b \in Browsers, NEW t \in Tabs, ServePasswordChange(b, t)
      PROVE  TypeOK'
  <2> DEFINE u == tab[b][t].form.nickname
             p == tab[b][t].form.password
             h == add_set_cookie_headers_to_login(tab[b][t].cookies,
                        create_login_cookie(u, p))
  <2>1. /\ tab[b][t] # Idle /\ p \in Passwords /\ clock < MaxTime
        /\ clock' = clock + 1 /\ password' = [password EXCEPT ![u] = p]
        /\ Answer(b, t, h) /\ session' = SessionsWithout(u, b)
        /\ UNCHANGED <<jar, overlapped>>
    BY <1>5 DEF ServePasswordChange, PasswordIsWritten
  <2>2. h \in Headers BY <2>1, RequestType, CookieType, HeadersType
  <2>3. clock' \in 0 .. MaxTime BY <2>1 DEF TypeOK, SessionsAssumption
  <2>4. password' \in [Users -> Passwords \cup {NoPassword}] BY <2>1 DEF TypeOK
  <2>5. session' \in [Browsers -> Users \cup {NoUser}]
    BY <2>1 DEF TypeOK, SessionsWithout
  <2> QED BY <2>1, <2>2, <2>3, <2>4, <2>5, AnswerType DEF TypeOK
<1>6. ASSUME NEW b \in Browsers, NEW t \in Tabs, Deliver(b, t)
      PROVE  TypeOK'
  <2> DEFINE h == tab[b][t].answer
  <2>1. h \in Headers
    BY <1>6, RequestType DEF Deliver, Answered, Request
  <2>2. h.new \in SUBSET Cookie BY <2>1 DEF Headers
  <2>3. jar' \in [Browsers -> SUBSET Cookie] BY <1>6, <2>2 DEF Deliver, TypeOK
  <2>4. tab' \in [Browsers -> [Tabs -> Request \cup {Idle}]]
    BY <1>6 DEF Deliver, Returned, TypeOK
  <2>5. \A c \in h.new : find_user_by_credentials(c.nickname, c.password)
                            \in Users \cup {NoUser}
    BY <2>2 DEF Cookie, find_user_by_credentials
  <2>6. session' \in [Browsers -> Users \cup {NoUser}]
    BY <1>6, <2>5 DEF Deliver, TypeOK
  <2> QED BY <1>6, <2>3, <2>4, <2>6 DEF Deliver, TypeOK
<1>7. ASSUME NEW b \in Browsers, NEW t \in Tabs, Lose(b, t)
      PROVE  TypeOK'
  BY <1>7 DEF Lose, Returned, TypeOK
<1>8. ASSUME NEW p \in Passwords, UpdateRootPw(p) PROVE TypeOK'
  BY <1>8 DEF UpdateRootPw, TypeOK
<1>9. ASSUME NEW u \in Users, NEW p \in Passwords, AddUser(u, p) PROVE TypeOK'
  BY <1>9 DEF AddUser, TypeOK
<1> QED BY <1>1, <1>2, <1>3, <1>4, <1>5, <1>6, <1>7, <1>8, <1>9
        DEF Next, PostLogin, PostProfile

\* A stored password is strong, a cookie holds the credentials of a login,
\* and a request under way holds cookies and a form.
THEOREM Typing == ASSUME SessionsAssumption PROVE Spec => []TypeOK
<1>1. Init => TypeOK BY DEF Init, TypeOK, SessionsAssumption
<1>2. TypeOK /\ [Next]_vars => TypeOK' BY TypeStep
<1> QED BY <1>1, <1>2, PTL DEF Spec

-----------------------------------------------------------------------------
(* Cookies do not pile up *)

Busy(b) == {t \in Tabs : tab[b][t] # Idle}

\* the cookies the requests of these tabs came with, and are to empty
Doomed(b, G) == UNION {tab[b][t].cookies : t \in G}

\* However many of the requests under way get lost: what the others, G, do
\* not empty, and the one cookie each of G may set, are no more than tabs.
Few(b) ==
    /\ IsFiniteSet(jar[b])
    /\ \A G \in SUBSET Busy(b) :
        Cardinality(jar[b] \ Doomed(b, G)) + Cardinality(G) <= Cardinality(Tabs)

\* An answer sets no cookie, or one and empties those of the request.
Replaces(r) ==
    \/ r = Idle \/ r.answer = Pending \/ r.answer = NoHeaders
    \/ \E c : /\ r.answer.new = {c}
             /\ \A d \in r.cookies : d.login_time \in r.answer.anti

HeadersReplace == \A b \in Browsers, t \in Tabs : Replaces(tab[b][t])

FewInv == TypeOK /\ HeadersReplace /\ \A b \in Browsers : Few(b)

\* No browser has a cookie at first.
LEMMA FewInit == ASSUME SessionsAssumption, Init PROVE FewInv
<1>1. TypeOK BY DEF Init, TypeOK, SessionsAssumption
<1>2. HeadersReplace BY DEF Init, HeadersReplace, Replaces
<1>3. ASSUME NEW b \in Browsers PROVE Few(b)
  <2>1. jar[b] = {} /\ Busy(b) = {} BY DEF Init, Busy
  <2>2. \A G \in SUBSET Busy(b) :
            Cardinality(jar[b] \ Doomed(b, G)) = 0 /\ Cardinality(G) = 0
    <3>1. ASSUME NEW G \in SUBSET Busy(b)
          PROVE  jar[b] \ Doomed(b, G) = {} /\ G = {}
      BY <2>1
    <3> QED BY <3>1, FS_EmptySet
  <2>3. Cardinality(Tabs) \in Nat BY FS_CardinalityType DEF SessionsAssumption
  <2> QED BY <2>1, <2>2, <2>3, FS_EmptySet DEF Few
<1> QED BY <1>1, <1>2, <1>3 DEF FewInv

\* A browser without a new cookie, and with no request it did not have.
LEMMA FewLess ==
    ASSUME NEW b \in Browsers, Few(b), jar'[b] = jar[b],
           Busy(b)' \subseteq Busy(b),
           \A t \in Busy(b)' : tab'[b][t].cookies = tab[b][t].cookies
    PROVE  Few(b)'
<1>1. ASSUME NEW G \in SUBSET Busy(b)'
      PROVE  G \in SUBSET Busy(b) /\ Doomed(b, G)' = Doomed(b, G)
  BY <1>1 DEF Doomed
<1> QED BY <1>1 DEF Few

\* A form is posted: with it under way, no cookie is safe.
LEMMA FewPost ==
    ASSUME SessionsAssumption, TypeOK, NEW b \in Browsers, Few(b),
           NEW t \in Tabs, NEW form, Post(b, t, form)
    PROVE  Few(b)'
<1> DEFINE r == [form |-> form, cookies |-> jar[b], answer |-> Pending]
<1>1. /\ tab[b][t] = Idle /\ jar'[b] = jar[b]
      /\ tab'[b][t] = r
      /\ \A y \in Tabs : y # t => tab'[b][y] = tab[b][y]
  BY DEF Post, TypeOK
<1>2. ASSUME NEW G \in SUBSET Busy(b)'
      PROVE  Cardinality((jar[b] \ Doomed(b, G))') + Cardinality(G)
                <= Cardinality(Tabs)
  <2>1. CASE t \notin G
    <3>1. G \in SUBSET Busy(b) /\ Doomed(b, G)' = Doomed(b, G)
      BY <1>1, <2>1 DEF Busy, Doomed
    <3> QED BY <1>1, <3>1 DEF Few
  <2>2. CASE t \in G
    <3>1. Cardinality((jar[b] \ Doomed(b, G))') = 0
      <4>1. (jar[b] \ Doomed(b, G))' = {} BY <1>1, <2>2 DEF Doomed
      <4> QED BY <4>1, FS_EmptySet
    <3>2. G \in SUBSET Tabs BY DEF Busy
    <3>3. /\ Cardinality(G) <= Cardinality(Tabs) /\ IsFiniteSet(G)
      BY <3>2, FS_Subset DEF SessionsAssumption
    <3>4. Cardinality(G) \in Nat BY <3>3, FS_CardinalityType
    <3> QED BY <3>1, <3>3, <3>4
  <2> QED BY <2>1, <2>2
<1> QED BY <1>1, <1>2 DEF Few

\* An answer arrives: one cookie more, one request less.
LEMMA FewDeliver ==
    ASSUME SessionsAssumption, TypeOK, HeadersReplace,
           NEW b \in Browsers, Few(b), NEW t \in Tabs, Deliver(b, t)
    PROVE  Few(b)'
<1> DEFINE h == tab[b][t].answer
<1>1. /\ t \in Busy(b)
      /\ jar'[b] = {c \in jar[b] : c.login_time \notin h.anti} \cup h.new
      /\ tab'[b][t] = Idle
      /\ \A y \in Tabs : y # t => tab'[b][y] = tab[b][y]
  BY DEF Deliver, Answered, Returned, Busy, TypeOK
<1>2. /\ Busy(b)' \subseteq Busy(b) \ {t}
      /\ \A y \in Busy(b)' : tab'[b][y] = tab[b][y]
  BY <1>1 DEF Busy
<1>3. CASE h = NoHeaders
  <2>1. jar'[b] = jar[b] BY <1>1, <1>3 DEF NoHeaders
  <2> QED BY <1>2, <2>1, FewLess
<1>4. CASE \E c : /\ h.new = {c}
                 /\ \A d \in tab[b][t].cookies : d.login_time \in h.anti
  <2>1. PICK c : /\ h.new = {c}
                 /\ \A d \in tab[b][t].cookies : d.login_time \in h.anti
    BY <1>4
  <2> DEFINE kept == {d \in jar[b] : d.login_time \notin h.anti}
  <2>2. /\ jar'[b] = kept \cup {c} /\ kept \subseteq jar[b]
        /\ kept \cap tab[b][t].cookies = {}
    BY <1>1, <2>1
  <2>3. IsFiniteSet(jar'[b])
    <3>1. IsFiniteSet(kept) BY <2>2, FS_Subset DEF Few
    <3> QED BY <2>2, <3>1, FS_AddElement
  <2>4. ASSUME NEW G \in SUBSET Busy(b)'
        PROVE  Cardinality((jar[b] \ Doomed(b, G))') + Cardinality(G)
                    <= Cardinality(Tabs)
    <3> DEFINE H == G \cup {t}
               old == jar[b] \ Doomed(b, H)
    <3>1. H \in SUBSET Busy(b) /\ t \notin G /\ G \in SUBSET Tabs
      BY <1>1, <1>2 DEF Busy
    <3>2. IsFiniteSet(G) /\ Cardinality(G) \in Nat
      BY <3>1, FS_Subset, FS_CardinalityType DEF SessionsAssumption
    <3>3. Cardinality(H) = Cardinality(G) + 1 BY <3>1, <3>2, FS_AddElement
    <3>4. IsFiniteSet(old) /\ Cardinality(old) \in Nat
      BY FS_Subset, FS_CardinalityType DEF Few
    <3>5. Doomed(b, G)' = Doomed(b, G) BY <1>2 DEF Doomed
    <3>6. (jar[b] \ Doomed(b, G))' \in SUBSET (old \cup {c})
      <4>1. Doomed(b, H) \subseteq Doomed(b, G) \cup tab[b][t].cookies
        BY DEF Doomed
      <4> QED BY <2>2, <3>5, <4>1
    <3>7. /\ IsFiniteSet(old \cup {c})
          /\ Cardinality(old \cup {c}) <= Cardinality(old) + 1
          /\ Cardinality(old \cup {c}) \in Nat
      <4> HIDE DEF old
      <4>1. IsFiniteSet(old \cup {c}) /\ Cardinality(old \cup {c}) =
                IF c \in old THEN Cardinality(old) ELSE Cardinality(old) + 1
        BY <3>4, FS_AddElement
      <4> QED BY <3>4, <4>1
    <3>8. /\ IsFiniteSet((jar[b] \ Doomed(b, G))')
          /\ Cardinality((jar[b] \ Doomed(b, G))') <= Cardinality(old \cup {c})
      BY <3>6, <3>7, FS_Subset
    <3>9. Cardinality((jar[b] \ Doomed(b, G))') \in Nat
      BY <3>8, FS_CardinalityType
    <3>10. Cardinality(old) + Cardinality(H) <= Cardinality(Tabs)
      BY <3>1 DEF Few
    <3>11. Cardinality(Tabs) \in Nat BY FS_CardinalityType DEF SessionsAssumption
    <3> QED BY <3>2, <3>3, <3>4, <3>7, <3>8, <3>9, <3>10, <3>11
  <2> QED BY <2>3, <2>4 DEF Few
<1> QED BY <1>3, <1>4 DEF HeadersReplace, Replaces, Deliver, Answered

\* The jars stay, no request is new, and the answers are as they were.
LEMMA FewFrame ==
    ASSUME HeadersReplace, \A b \in Browsers : Few(b), jar' = jar,
           \A b \in Browsers, t \in Tabs :
                tab'[b][t] = Idle \/ tab'[b][t] = tab[b][t]
    PROVE  HeadersReplace' /\ \A b \in Browsers : Few(b)'
<1>1. HeadersReplace'
  <2>1. ASSUME NEW b \in Browsers, NEW t \in Tabs PROVE Replaces(tab'[b][t])
    <3>1. CASE tab'[b][t] = Idle BY <3>1 DEF Replaces
    <3>2. CASE tab'[b][t] = tab[b][t] BY <3>2 DEF HeadersReplace
    <3> QED BY <3>1, <3>2
  <2> QED BY <2>1 DEF HeadersReplace
<1>2. ASSUME NEW b \in Browsers PROVE Few(b)'
  <2>1. /\ Busy(b)' \subseteq Busy(b)
        /\ \A t \in Busy(b)' : tab'[b][t].cookies = tab[b][t].cookies
    BY DEF Busy
  <2> QED BY <2>1, FewLess
<1> QED BY <1>1, <1>2

\* A request is answered.
LEMMA FewAnswer ==
    ASSUME TypeOK, HeadersReplace, \A b \in Browsers : Few(b), jar' = jar,
           NEW b \in Browsers, NEW t \in Tabs, tab[b][t] # Idle,
           NEW h \in Headers, Answer(b, t, h),
           \/ h = NoHeaders
           \/ \E c : /\ h.new = {c}
                    /\ \A d \in tab[b][t].cookies : d.login_time \in h.anti
    PROVE  HeadersReplace' /\ \A x \in Browsers : Few(x)'
<1>1. /\ tab'[b][t] = [tab[b][t] EXCEPT !.answer = h]
      /\ \A x \in Browsers, y \in Tabs :
            x # b \/ y # t => tab'[x][y] = tab[x][y]
  BY AnswerType
<1>2. tab'[b][t].answer = h /\ tab'[b][t].cookies = tab[b][t].cookies
  BY <1>1, RequestType DEF Request
<1>3. HeadersReplace'
  <2>1. Replaces(tab'[b][t]) BY <1>2 DEF Replaces
  <2>2. ASSUME NEW x \in Browsers, NEW y \in Tabs PROVE Replaces(tab'[x][y])
    BY <1>1, <2>1 DEF HeadersReplace
  <2> QED BY <2>2 DEF HeadersReplace
<1>4. ASSUME NEW x \in Browsers PROVE Few(x)'
  <2>1. /\ Busy(x)' \subseteq Busy(x)
        /\ \A y \in Busy(x)' : tab'[x][y].cookies = tab[x][y].cookies
    BY <1>1, <1>2 DEF Busy
  <2> QED BY <2>1, FewLess
<1> QED BY <1>3, <1>4

\* Every step keeps the number of login cookies small.
LEMMA FewStep == ASSUME SessionsAssumption, FewInv, [Next]_vars PROVE FewInv'
<1>0. TypeOK /\ HeadersReplace /\ \A b \in Browsers : Few(b) BY DEF FewInv
<1>1. TypeOK' BY <1>0, TypeStep
<1> SUFFICES HeadersReplace' /\ \A b \in Browsers : Few(b)' BY <1>1 DEF FewInv
<1>2. CASE UNCHANGED vars BY <1>0, <1>2, FewFrame DEF vars
<1>3. ASSUME NEW b \in Browsers, NEW t \in Tabs, NEW form, Post(b, t, form)
      PROVE  HeadersReplace' /\ \A x \in Browsers : Few(x)'
  <2>1. /\ jar' = jar /\ tab'[b][t].answer = Pending
        /\ \A x \in Browsers, y \in Tabs :
                x # b \/ y # t => tab'[x][y] = tab[x][y]
    BY <1>0, <1>3 DEF Post, TypeOK
  <2>2. HeadersReplace'
    <3>1. Replaces(tab'[b][t]) BY <2>1 DEF Replaces
    <3>2. ASSUME NEW x \in Browsers, NEW y \in Tabs PROVE Replaces(tab'[x][y])
      BY <1>0, <2>1, <3>1 DEF HeadersReplace
    <3> QED BY <3>2 DEF HeadersReplace
  <2>3. ASSUME NEW x \in Browsers, x # b PROVE Few(x)'
    <3>1. Busy(x)' = Busy(x) /\ \A y \in Tabs : tab'[x][y] = tab[x][y]
      BY <2>1, <2>3 DEF Busy
    <3>2. \A y \in Busy(x)' : tab'[x][y].cookies = tab[x][y].cookies
      BY <3>1 DEF Busy
    <3> QED BY <1>0, <2>1, <3>1, <3>2, FewLess
  <2> QED BY <1>0, <1>3, <2>2, <2>3, FewPost
<1>4. ASSUME NEW b \in Browsers, NEW t \in Tabs, ServeLogin(b, t)
      PROVE  HeadersReplace' /\ \A x \in Browsers : Few(x)'
  <2>1. tab[b][t] # Idle /\ jar' = jar /\ tab[b][t].form.page = "login"
    BY <1>4 DEF ServeLogin
  <2>2. CASE Answer(b, t, NoHeaders)
    BY <1>0, <2>1, <2>2, FewAnswer, NoHeadersType
  <2> DEFINE form == tab[b][t].form
             c == create_login_cookie(form.nickname, form.password)
             h == add_set_cookie_headers_to_login(tab[b][t].cookies, c)
  <2>3. CASE clock < MaxTime /\ Answer(b, t, h)
    <3>1. c \in Cookie BY <1>0, <2>1, <2>3, RequestType, CookieType
    <3>2. h \in Headers BY <1>0, <2>1, <3>1, RequestType, HeadersType
    <3>3. h.new = {c} /\ \A d \in tab[b][t].cookies : d.login_time \in h.anti
      BY DEF add_set_cookie_headers_to_login
    <3> HIDE DEF h, c
    <3> QED BY <1>0, <2>1, <2>3, <3>2, <3>3, FewAnswer
  <2> QED BY <1>4, <2>2, <2>3 DEF ServeLogin
<1>5. ASSUME NEW b \in Browsers, NEW t \in Tabs, ServeProfile(b, t)
      PROVE  HeadersReplace' /\ \A x \in Browsers : Few(x)'
  BY <1>0, <1>5, FewAnswer, NoHeadersType DEF ServeProfile
<1>6. ASSUME NEW b \in Browsers, NEW t \in Tabs, ServePasswordChange(b, t)
      PROVE  HeadersReplace' /\ \A x \in Browsers : Few(x)'
  <2> DEFINE form == tab[b][t].form
             c == create_login_cookie(form.nickname, form.password)
             h == add_set_cookie_headers_to_login(tab[b][t].cookies, c)
  <2>1. /\ tab[b][t] # Idle /\ jar' = jar /\ form.password \in Passwords
        /\ clock < MaxTime /\ Answer(b, t, h)
    BY <1>6 DEF ServePasswordChange, PasswordIsWritten
  <2>2. c \in Cookie BY <1>0, <2>1, RequestType, CookieType
  <2>3. h \in Headers BY <1>0, <2>1, <2>2, RequestType, HeadersType
  <2>4. h.new = {c} /\ \A d \in tab[b][t].cookies : d.login_time \in h.anti
    BY DEF add_set_cookie_headers_to_login
  <2> HIDE DEF h, c
  <2> QED BY <1>0, <2>1, <2>3, <2>4, FewAnswer
<1>7. ASSUME NEW b \in Browsers, NEW t \in Tabs, Deliver(b, t)
      PROVE  HeadersReplace' /\ \A x \in Browsers : Few(x)'
  <2>1. /\ tab'[b][t] = Idle
        /\ \A x \in Browsers, y \in Tabs :
                x # b \/ y # t => tab'[x][y] = tab[x][y]
        /\ \A x \in Browsers : x # b => jar'[x] = jar[x]
    BY <1>0, <1>7 DEF Deliver, Returned, TypeOK
  <2>2. HeadersReplace'
    <3>1. Replaces(tab'[b][t]) BY <2>1 DEF Replaces
    <3>2. ASSUME NEW x \in Browsers, NEW y \in Tabs PROVE Replaces(tab'[x][y])
      BY <1>0, <2>1, <3>1 DEF HeadersReplace
    <3> QED BY <3>2 DEF HeadersReplace
  <2>3. ASSUME NEW x \in Browsers, x # b PROVE Few(x)'
    <3>1. Busy(x)' = Busy(x) /\ \A y \in Tabs : tab'[x][y] = tab[x][y]
      BY <2>1, <2>3 DEF Busy
    <3>2. \A y \in Busy(x)' : tab'[x][y].cookies = tab[x][y].cookies
      BY <3>1 DEF Busy
    <3> QED BY <1>0, <2>1, <2>3, <3>1, <3>2, FewLess
  <2> QED BY <1>0, <1>7, <2>2, <2>3, FewDeliver
<1>8. ASSUME NEW b \in Browsers, NEW t \in Tabs, Lose(b, t)
      PROVE  HeadersReplace' /\ \A x \in Browsers : Few(x)'
  <2>1. jar' = jar /\ \A x \in Browsers, y \in Tabs :
            tab'[x][y] = Idle \/ tab'[x][y] = tab[x][y]
    BY <1>0, <1>8 DEF Lose, Returned, TypeOK
  <2> QED BY <1>0, <2>1, FewFrame
<1>9. ASSUME NEW p \in Passwords, UpdateRootPw(p)
      PROVE  HeadersReplace' /\ \A b \in Browsers : Few(b)'
  BY <1>0, <1>9, FewFrame DEF UpdateRootPw
<1>10. ASSUME NEW u \in Users, NEW p \in Passwords, AddUser(u, p)
       PROVE  HeadersReplace' /\ \A b \in Browsers : Few(b)'
  BY <1>0, <1>10, FewFrame DEF AddUser
<1> QED BY <1>2, <1>3, <1>4, <1>5, <1>6, <1>7, <1>8, <1>9, <1>10
        DEF Next, PostLogin, PostProfile

\* Cookies do not pile up: however the requests of its tabs overlap and get
\* lost, a browser never has more login cookies than tabs.
THEOREM NoPileOfCookies == ASSUME SessionsAssumption PROVE Spec => []CookiesAreFew
<1>1. Init => FewInv BY FewInit
<1>2. FewInv /\ [Next]_vars => FewInv' BY FewStep
<1>3. ASSUME FewInv, NEW b \in Browsers
      PROVE  Cardinality(jar[b]) <= Cardinality(Tabs)
  <2>1. Few(b) BY <1>3 DEF FewInv
  <2>2. jar[b] \ Doomed(b, {}) = jar[b] /\ {} \in SUBSET Busy(b) BY DEF Doomed
  <2>3. Cardinality(jar[b] \ Doomed(b, {})) + Cardinality({}) <= Cardinality(Tabs)
    BY <2>1, <2>2 DEF Few
  <2>4. Cardinality(jar[b]) \in Nat BY <2>1, FS_CardinalityType DEF Few
  <2>5. Cardinality(jar[b]) + 0 <= Cardinality(Tabs)
    BY <2>2, <2>3, FS_EmptySet
  <2> QED BY <2>4, <2>5
<1>4. FewInv => CookiesAreFew BY <1>3 DEF CookiesAreFew
<1> QED BY <1>1, <1>2, <1>4, PTL DEF Spec

-----------------------------------------------------------------------------
(* One thing at a time: a login lasts *)

\* at most one cookie and one request under way, which came with it
Alone(b) ==
    /\ jar[b] = {} \/ \E c : jar[b] = {c}
    /\ \A t \in Busy(b) : tab[b][t].cookies = jar[b]
    /\ \A s, t \in Busy(b) : s = t

Lasts(b) ==
    session[b] # NoUser /\ ~AwaitsNewPassword(b) => userinfo(b) = session[b]

LastsInv ==
    /\ TypeOK /\ HeadersReplace
    /\ \A b \in Browsers : ~overlapped[b] => Alone(b) /\ Lasts(b)

\* Who has one cookie is who it says.
LEMMA LoneCookie ==
    ASSUME TypeOK, NEW b \in Browsers, NEW c, jar[b] = {c}
    PROVE  /\ c \in Cookie
           /\ userinfo(b) = find_user_by_credentials(c.nickname, c.password)
<1>1. c \in Cookie BY DEF TypeOK
<1>2. c.login_time <= c.login_time BY <1>1 DEF Cookie
<1>3. select_oldest_login_cookie({c}) = c BY <1>2 DEF select_oldest_login_cookie
<1> QED BY <1>1, <1>3 DEF userinfo, logged_in_user

\* A session that is not ended goes on if the password stays.
LEMMA SessionKept ==
    ASSUME SessionsAssumption, TypeOK, TypeOK', NEW b \in Browsers,
           Alone(b), Lasts(b), ~AwaitsNewPassword(b), jar'[b] = jar[b],
           session'[b] = session[b] \/ session'[b] = NoUser,
           session'[b] # NoUser =>
                (password[session'[b]] \in Passwords =>
                    password'[session'[b]] = password[session'[b]])
    PROVE  Lasts(b)'
<1> SUFFICES ASSUME session'[b] # NoUser PROVE userinfo(b)' = session'[b]
  BY DEF Lasts
<1>1. userinfo(b) = session[b] /\ session'[b] = session[b] /\ session[b] # NoUser
  BY DEF Lasts
<1>2. PICK c : jar[b] = {c}
  BY <1>1 DEF Alone, userinfo, logged_in_user
<1>3. /\ c \in Cookie
      /\ find_user_by_credentials(c.nickname, c.password) = session[b]
  BY <1>1, <1>2, LoneCookie
<1>4. c.nickname = session[b] /\ password[c.nickname] = c.password
  BY <1>1, <1>3 DEF find_user_by_credentials
<1>5. password'[c.nickname] = c.password
  BY <1>1, <1>3, <1>4 DEF Cookie
<1>6. userinfo(b)' = find_user_by_credentials(c.nickname, c.password)'
  <2>1. (jar[b] = {c})' BY <1>2
  <2>2. c.login_time <= c.login_time BY <1>3 DEF Cookie
  <2>3. select_oldest_login_cookie({c}) = c BY <2>2 DEF select_oldest_login_cookie
  <2> QED BY <2>1, <2>3 DEF userinfo, logged_in_user
<1> QED BY <1>1, <1>4, <1>5, <1>6 DEF find_user_by_credentials

\* Nothing of a browser changes but, perhaps, its session ends.
LEMMA OthersKept ==
    ASSUME SessionsAssumption, TypeOK, TypeOK', NEW b \in Browsers,
           Alone(b), Lasts(b), jar'[b] = jar[b], tab'[b] = tab[b],
           session'[b] = session[b] \/ session'[b] = NoUser,
           session'[b] # NoUser =>
                (password[session'[b]] \in Passwords =>
                    password'[session'[b]] = password[session'[b]])
    PROVE  Alone(b)' /\ Lasts(b)'
<1>1. Alone(b)' BY DEF Alone, Busy
<1>2. AwaitsNewPassword(b)' = AwaitsNewPassword(b)
  BY DEF AwaitsNewPassword, Answered
<1>3. CASE AwaitsNewPassword(b) BY <1>1, <1>2, <1>3 DEF Lasts
<1>4. CASE ~AwaitsNewPassword(b) BY <1>1, <1>4, SessionKept
<1> QED BY <1>1, <1>3, <1>4

\* Nobody is logged in at first.
LEMMA LastsInit == ASSUME SessionsAssumption, Init PROVE LastsInv
<1>1. TypeOK /\ HeadersReplace BY FewInit DEF FewInv
<1>2. \A b \in Browsers : Alone(b) /\ Lasts(b) BY DEF Init, Alone, Busy, Lasts
<1> QED BY <1>1, <1>2 DEF LastsInv

\* The browsers that still do one thing at a time after the step.
Orderly == {b \in Browsers : ~overlapped[b]}

\* The only request a browser has under way.
LEMMA OnlyOne ==
    ASSUME NEW b \in Browsers, Alone(b), NEW t \in Tabs, tab[b][t] # Idle
    PROVE  /\ tab[b][t].cookies = jar[b]
           /\ \A y \in Tabs : y # t => tab[b][y] = Idle
           /\ AwaitsNewPassword(b) <=>
                /\ tab[b][t].answer # Pending /\ tab[b][t].form.page = "user"
                /\ tab[b][t].answer.new # {}
BY DEF Alone, Busy, AwaitsNewPassword, Answered

\* It may be answered.
LEMMA AloneAnswered ==
    ASSUME NEW b \in Browsers, Alone(b), NEW t \in Tabs, tab[b][t] # Idle,
           jar'[b] = jar[b], tab'[b][t].cookies = tab[b][t].cookies,
           \A y \in Tabs : y # t => tab'[b][y] = tab[b][y]
    PROVE  Alone(b)'
<1>1. tab[b][t].cookies = jar[b] /\ \A y \in Tabs : y # t => tab[b][y] = Idle
  BY OnlyOne
<1>2. Busy(b)' \subseteq {t} BY <1>1 DEF Busy
<1>3. \A y \in Busy(b)' : tab'[b][y].cookies = jar'[b] BY <1>1, <1>2
<1>4. \A y, z \in Busy(b)' : y = z BY <1>2
<1>5. jar'[b] = {} \/ \E c : jar'[b] = {c} BY DEF Alone
<1> QED BY <1>3, <1>4, <1>5 DEF Alone

\* A request of the browser is answered without a new password.
LEMMA LastsAnswer ==
    ASSUME SessionsAssumption, LastsInv, TypeOK',
           NEW b \in Browsers, NEW t \in Tabs, tab[b][t] # Idle,
           tab[b][t].answer = Pending, NEW h \in Headers, Answer(b, t, h),
           UNCHANGED <<password, jar, session, overlapped>>
    PROVE  \A x \in Orderly' : Alone(x)' /\ Lasts(x)'
<1>0. TypeOK /\ \A x \in Orderly : Alone(x) /\ Lasts(x) BY DEF LastsInv, Orderly
<1>1. Orderly' = Orderly /\ Orderly \subseteq Browsers BY DEF Orderly
<1>2. /\ tab'[b][t] = [tab[b][t] EXCEPT !.answer = h]
      /\ \A x \in Browsers, y \in Tabs :
            x # b \/ y # t => tab'[x][y] = tab[x][y]
  BY <1>0, AnswerType
<1>3. tab'[b][t].cookies = tab[b][t].cookies
  BY <1>0, <1>2, RequestType DEF Request
<1>4. ASSUME b \in Orderly PROVE Alone(b)' /\ Lasts(b)'
  <2>1. Alone(b) /\ Lasts(b) BY <1>0, <1>4
  <2>2. Alone(b)' BY <1>2, <1>3, <2>1, AloneAnswered
  <2>3. ~AwaitsNewPassword(b) BY <2>1, OnlyOne
  <2>4. Lasts(b)' BY <1>0, <2>1, <2>3, SessionKept
  <2> QED BY <2>2, <2>4
<1>5. ASSUME NEW x \in Orderly, x # b PROVE Alone(x)' /\ Lasts(x)'
  <2>1. tab'[x] = tab[x] BY <1>0, <1>1, <1>5 DEF Answer, TypeOK
  <2> QED BY <1>0, <1>1, <2>1, OthersKept
<1> QED BY <1>1, <1>4, <1>5

\* The answer arrives; with a new cookie, it is the only one.
LEMMA LastsDeliver ==
    ASSUME SessionsAssumption, LastsInv, TypeOK',
           NEW b \in Browsers, NEW t \in Tabs, Deliver(b, t)
    PROVE  \A x \in Orderly' : Alone(x)' /\ Lasts(x)'
<1>0. TypeOK /\ HeadersReplace /\ \A x \in Orderly : Alone(x) /\ Lasts(x)
  BY DEF LastsInv, Orderly
<1>1. Orderly' = Orderly /\ Orderly \subseteq Browsers BY DEF Orderly, Deliver
<1> DEFINE h == tab[b][t].answer
<1>2. /\ jar'[b] = {d \in jar[b] : d.login_time \notin h.anti} \cup h.new
      /\ tab'[b][t] = Idle /\ password' = password
      /\ \A y \in Tabs : y # t => tab'[b][y] = tab[b][y]
      /\ session'[b] = IF h.new = {} THEN session[b]
                       ELSE LET c == CHOOSE d \in h.new : TRUE
                            IN  find_user_by_credentials(c.nickname, c.password)
      /\ tab[b][t] # Idle /\ h # Pending
      /\ \A x \in Browsers : x # b =>
            jar'[x] = jar[x] /\ tab'[x] = tab[x] /\ session'[x] = session[x]
  BY SMTT(30), <1>0 DEF Deliver, Answered, Returned, TypeOK
<1>3. ASSUME NEW x \in Orderly, x # b PROVE Alone(x)' /\ Lasts(x)'
  BY <1>0, <1>1, <1>2, <1>3, OthersKept
<1>4. ASSUME b \in Orderly PROVE Alone(b)' /\ Lasts(b)'
  <2>1. /\ Alone(b) /\ Lasts(b) /\ tab[b][t].cookies = jar[b]
        /\ \A y \in Tabs : y # t => tab[b][y] = Idle
    BY <1>0, <1>2, <1>4, OnlyOne
  <2>2. Busy(b)' = {} BY <1>2, <2>1 DEF Busy
  <2>3. CASE h = NoHeaders
    <3>1. jar'[b] = jar[b] /\ session'[b] = session[b]
      BY <1>2, <2>3 DEF NoHeaders
    <3>2. ~AwaitsNewPassword(b)
      BY <1>2, <2>1, <2>3, OnlyOne DEF NoHeaders
    <3>3. Alone(b)' BY <2>1, <2>2, <3>1 DEF Alone
    <3> QED BY <1>0, <1>2, <2>1, <3>1, <3>2, <3>3, SessionKept
  <2>4. CASE \E c : /\ h.new = {c}
                   /\ \A d \in tab[b][t].cookies : d.login_time \in h.anti
    <3>1. PICK c : /\ h.new = {c}
                   /\ \A d \in tab[b][t].cookies : d.login_time \in h.anti
      BY <2>4
    <3>2. jar'[b] = {c} BY <1>2, <2>1, <3>1
    <3>3. session'[b] = find_user_by_credentials(c.nickname, c.password)
      BY <1>2, <3>1
    <3>4. Alone(b)' BY <2>2, <3>2 DEF Alone
    <3>5. userinfo(b)' = find_user_by_credentials(c.nickname, c.password)'
      <4>1. c \in Cookie BY <3>2 DEF TypeOK
      <4>2. c.login_time <= c.login_time BY <4>1 DEF Cookie
      <4>3. select_oldest_login_cookie({c}) = c
        BY <4>2 DEF select_oldest_login_cookie
      <4> QED BY <3>2, <4>3 DEF userinfo, logged_in_user
    <3>6. find_user_by_credentials(c.nickname, c.password)'
              = find_user_by_credentials(c.nickname, c.password)
      BY <1>2 DEF find_user_by_credentials
    <3>7. Lasts(b)' BY <3>3, <3>5, <3>6 DEF Lasts
    <3> QED BY <3>4, <3>7
  <2> QED BY <1>0, <1>2, <2>3, <2>4 DEF HeadersReplace, Replaces
<1> QED BY <1>1, <1>3, <1>4

\* A new password ends every other session of the account.
LEMMA LastsPasswordChange ==
    ASSUME SessionsAssumption, LastsInv, TypeOK',
           NEW b \in Browsers, NEW t \in Tabs, ServePasswordChange(b, t)
    PROVE  \A x \in Orderly' : Alone(x)' /\ Lasts(x)'
<1>0. TypeOK /\ \A x \in Orderly : Alone(x) /\ Lasts(x) BY DEF LastsInv, Orderly
<1>1. Orderly' = Orderly /\ Orderly \subseteq Browsers
  BY DEF Orderly, ServePasswordChange
<1> DEFINE u == tab[b][t].form.nickname
           c == create_login_cookie(u, tab[b][t].form.password)
           h == add_set_cookie_headers_to_login(tab[b][t].cookies, c)
<1>2. /\ tab[b][t] # Idle /\ tab[b][t].form.page = "user"
      /\ tab[b][t].form.password \in Passwords /\ clock < MaxTime
      /\ Answer(b, t, h) /\ jar' = jar /\ session' = SessionsWithout(u, b)
      /\ password' = [password EXCEPT ![u] = tab[b][t].form.password]
  BY DEF ServePasswordChange, PasswordIsWritten
<1>3. c \in Cookie BY <1>0, <1>2, RequestType, CookieType
<1>4. h \in Headers BY <1>0, <1>2, <1>3, RequestType, HeadersType
<1>5. /\ tab'[b][t] = [tab[b][t] EXCEPT !.answer = h]
      /\ \A x \in Browsers, y \in Tabs :
            x # b \/ y # t => tab'[x][y] = tab[x][y]
  BY <1>0, <1>2, <1>4, AnswerType
<1>6. /\ tab'[b][t].cookies = tab[b][t].cookies /\ tab'[b][t].answer = h
      /\ tab'[b][t].form = tab[b][t].form /\ tab'[b][t] \in Request
  <2>1. tab[b][t] \in Request BY <1>0, <1>2, RequestType
  <2> HIDE DEF h
  <2> QED BY <1>4, <1>5, <2>1 DEF Request
<1>7. ASSUME b \in Orderly PROVE Alone(b)'
  <2>1. Alone(b) BY <1>0, <1>7
  <2> HIDE DEF h
  <2> QED BY ZenonT(30), <1>2, <1>5, <1>6, <2>1, AloneAnswered
<1>8. AwaitsNewPassword(b)'
  <2>1. h.new # {} BY DEF add_set_cookie_headers_to_login
  <2>2. tab'[b][t] # Idle /\ h # Pending BY <1>4, <1>6 DEF SessionsAssumption
  <2> HIDE DEF h
  <2> QED BY <1>2, <1>6, <2>1, <2>2 DEF AwaitsNewPassword, Answered
<1>9. Lasts(b)' BY <1>8 DEF Lasts
<1>10. ASSUME NEW x \in Orderly, x # b PROVE Alone(x)' /\ Lasts(x)'
  <2>1. tab'[x] = tab[x] BY <1>0, <1>1, <1>2, <1>10 DEF Answer, TypeOK
  <2>2. session'[x] = IF session[x] = u THEN NoUser ELSE session[x]
    BY <1>1, <1>2, <1>10 DEF SessionsWithout
  <2>3. session'[x] # NoUser => session'[x] \in Users /\ session'[x] # u
    BY <1>0, <1>1, <2>2 DEF TypeOK
  <2>4. session'[x] # NoUser => password'[session'[x]] = password[session'[x]]
    BY <1>0, <1>2, <2>3 DEF TypeOK
  <2> QED BY <1>0, <1>1, <1>2, <2>1, <2>2, <2>4, OthersKept
<1> QED BY <1>1, <1>7, <1>9, <1>10

\* Whoever is logged in, without overlapping logins, stays it at every step.
LEMMA LastsStep ==
    ASSUME SessionsAssumption, LastsInv, FewInv, [Next]_vars
    PROVE  LastsInv'
<1>0. TypeOK /\ HeadersReplace /\ \A x \in Orderly : Alone(x) /\ Lasts(x)
  BY DEF LastsInv, Orderly
<1>1. TypeOK' /\ HeadersReplace' BY FewStep DEF FewInv
<1> SUFFICES \A x \in Orderly' : Alone(x)' /\ Lasts(x)'
  BY <1>1 DEF LastsInv, Orderly
<1>2. CASE UNCHANGED vars BY <1>0, <1>1, <1>2, OthersKept DEF vars, Orderly
<1>3. ASSUME NEW b \in Browsers, NEW t \in Tabs, NEW form, Post(b, t, form)
      PROVE  \A x \in Orderly' : Alone(x)' /\ Lasts(x)'
  <2>1. /\ tab[b][t] = Idle /\ UNCHANGED <<password, jar, session>>
        /\ tab'[b][t].cookies = jar[b]
        /\ \A y \in Tabs : y # t => tab'[b][y] = tab[b][y]
        /\ \A x \in Browsers :
                x # b => tab'[x] = tab[x] /\ overlapped'[x] = overlapped[x]
        /\ ~overlapped'[b] =>
                ~overlapped[b] /\ \A y \in Tabs : tab[b][y] = Idle
    BY <1>0, <1>3 DEF Post, TypeOK
  <2>2. Orderly' \subseteq Orderly /\ Orderly \subseteq Browsers
    BY <2>1 DEF Orderly
  <2>3. ASSUME b \in Orderly' PROVE Alone(b)' /\ Lasts(b)'
    <3>1. Alone(b) /\ Lasts(b) /\ \A y \in Tabs : tab[b][y] = Idle
      BY <1>0, <2>1, <2>2, <2>3 DEF Orderly
    <3>2. ~AwaitsNewPassword(b) BY <3>1 DEF AwaitsNewPassword, Answered
    <3>3. Alone(b)' BY <2>1, <3>1 DEF Alone, Busy
    <3> QED BY <1>0, <1>1, <2>1, <3>1, <3>2, <3>3, SessionKept
  <2>4. ASSUME NEW x \in Orderly', x # b PROVE Alone(x)' /\ Lasts(x)'
    BY <1>0, <1>1, <2>1, <2>2, <2>4, OthersKept
  <2> QED BY <2>3, <2>4
<1>4. ASSUME NEW b \in Browsers, NEW t \in Tabs, ServeLogin(b, t)
      PROVE  \A x \in Orderly' : Alone(x)' /\ Lasts(x)'
  <2>1. /\ tab[b][t] # Idle /\ tab[b][t].answer = Pending
        /\ tab[b][t].form.page = "login"
        /\ UNCHANGED <<password, jar, session, overlapped>>
    BY <1>4 DEF ServeLogin
  <2>2. CASE Answer(b, t, NoHeaders)
    BY <1>1, <2>1, <2>2, NoHeadersType, LastsAnswer
  <2> DEFINE form == tab[b][t].form
             c == create_login_cookie(form.nickname, form.password)
             h == add_set_cookie_headers_to_login(tab[b][t].cookies, c)
  <2>3. CASE clock < MaxTime /\ Answer(b, t, h)
    <3>1. c \in Cookie BY <1>0, <2>1, <2>3, RequestType, CookieType
    <3>2. h \in Headers BY <1>0, <2>1, <3>1, RequestType, HeadersType
    <3> HIDE DEF h
    <3> QED BY <1>1, <2>1, <2>3, <3>2, LastsAnswer
  <2> QED BY <1>4, <2>2, <2>3 DEF ServeLogin
<1>5. ASSUME NEW b \in Browsers, NEW t \in Tabs, ServeProfile(b, t)
      PROVE  \A x \in Orderly' : Alone(x)' /\ Lasts(x)'
  BY <1>1, <1>5, NoHeadersType, LastsAnswer DEF ServeProfile
<1>6. ASSUME NEW b \in Browsers, NEW t \in Tabs, ServePasswordChange(b, t)
      PROVE  \A x \in Orderly' : Alone(x)' /\ Lasts(x)'
  BY <1>1, <1>6, LastsPasswordChange
<1>7. ASSUME NEW b \in Browsers, NEW t \in Tabs, Deliver(b, t)
      PROVE  \A x \in Orderly' : Alone(x)' /\ Lasts(x)'
  BY <1>1, <1>7, LastsDeliver
<1>8. ASSUME NEW b \in Browsers, NEW t \in Tabs, Lose(b, t)
      PROVE  \A x \in Orderly' : Alone(x)' /\ Lasts(x)'
  <2>1. /\ tab[b][t] # Idle /\ tab'[b][t] = Idle
        /\ UNCHANGED <<password, jar, overlapped>>
        /\ \A y \in Tabs : y # t => tab'[b][y] = tab[b][y]
        /\ session'[b] = IF tab[b][t].form.page = "user" /\ Answered(b, t)
                            /\ tab[b][t].answer.new # {}
                         THEN NoUser ELSE session[b]
        /\ \A x \in Browsers :
                x # b => tab'[x] = tab[x] /\ session'[x] = session[x]
    BY <1>0, <1>8 DEF Lose, Returned, TypeOK
  <2>2. Orderly' = Orderly /\ Orderly \subseteq Browsers BY <2>1 DEF Orderly
  <2>3. ASSUME NEW x \in Orderly, x # b PROVE Alone(x)' /\ Lasts(x)'
    BY <1>0, <1>1, <2>1, <2>2, <2>3, OthersKept
  <2>4. ASSUME b \in Orderly PROVE Alone(b)' /\ Lasts(b)'
    <3>1. Alone(b) /\ Lasts(b) /\ \A y \in Tabs : y # t => tab[b][y] = Idle
      BY <1>0, <2>1, <2>4, OnlyOne
    <3>2. Alone(b)'
      <4>1. Busy(b)' = {} BY <2>1, <3>1 DEF Busy
      <4> QED BY <2>1, <3>1, <4>1 DEF Alone
    <3>3. CASE AwaitsNewPassword(b)
      <4>1. session'[b] = NoUser BY <2>1, <3>1, <3>3, OnlyOne DEF Answered
      <4> QED BY <3>2, <4>1 DEF Lasts
    <3>4. CASE ~AwaitsNewPassword(b)
      BY <1>0, <1>1, <2>1, <3>1, <3>2, <3>4, SessionKept
    <3> QED BY <3>3, <3>4
  <2> QED BY <2>2, <2>3, <2>4
<1>9. ASSUME NEW p \in Passwords, UpdateRootPw(p)
      PROVE  \A x \in Orderly' : Alone(x)' /\ Lasts(x)'
  <2>1. Orderly' = Orderly /\ Orderly \subseteq Browsers
    BY <1>9 DEF Orderly, UpdateRootPw
  <2>2. ASSUME NEW x \in Orderly PROVE Alone(x)' /\ Lasts(x)'
    <3>1. /\ tab' = tab /\ jar' = jar
          /\ session'[x] = IF session[x] = Root THEN NoUser ELSE session[x]
          /\ password' = [password EXCEPT ![Root] = p]
      BY <1>9, <2>1 DEF UpdateRootPw
    <3>2. session'[x] # NoUser => session'[x] \in Users /\ session'[x] # Root
      BY <1>0, <2>1, <3>1 DEF TypeOK
    <3>3. session'[x] # NoUser => password'[session'[x]] = password[session'[x]]
      BY <1>0, <3>1, <3>2 DEF TypeOK
    <3> QED BY <1>0, <1>1, <2>1, <3>1, <3>3, OthersKept
  <2> QED BY <2>1, <2>2
<1>10. ASSUME NEW u \in Users, NEW p \in Passwords, AddUser(u, p)
       PROVE  \A x \in Orderly' : Alone(x)' /\ Lasts(x)'
  <2>1. Orderly' = Orderly /\ Orderly \subseteq Browsers
    BY <1>10 DEF Orderly, AddUser
  <2>2. ASSUME NEW x \in Orderly PROVE Alone(x)' /\ Lasts(x)'
    <3>1. /\ tab' = tab /\ jar' = jar /\ session' = session
          /\ password[u] = NoPassword /\ NoPassword \notin Passwords
          /\ password' = [password EXCEPT ![u] = p]
      BY <1>10 DEF AddUser, SessionsAssumption
    <3>2. session'[x] # NoUser => session'[x] \in Users
      BY <1>0, <2>1, <3>1 DEF TypeOK
    <3>3. session'[x] # NoUser =>
            (password[session'[x]] \in Passwords =>
                password'[session'[x]] = password[session'[x]])
      BY <1>0, <3>1, <3>2 DEF TypeOK
    <3> QED BY <1>0, <1>1, <2>1, <3>1, <3>3, OthersKept
  <2> QED BY <2>1, <2>2
<1> QED BY <1>2, <1>3, <1>4, <1>5, <1>6, <1>7, <1>8, <1>9, <1>10
        DEF Next, PostLogin, PostProfile

\* A login lasts.  A browser that logged in as a user and does one thing at
\* a time stays that user, until somebody else changes the password or the
\* answer to its own change of password is lost.
THEOREM LoginsLast == ASSUME SessionsAssumption PROVE Spec => []SessionLasts
<1>1. Init => FewInv /\ LastsInv BY FewInit, LastsInit
<1>2. FewInv /\ LastsInv /\ [Next]_vars => FewInv' /\ LastsInv'
  BY FewStep, LastsStep
<1>3. LastsInv => SessionLasts BY DEF LastsInv, Lasts, SessionLasts
<1> QED BY <1>1, <1>2, <1>3, PTL DEF Spec
=============================================================================
