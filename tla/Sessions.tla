------------------------------ MODULE Sessions ------------------------------
(***************************************************************************)
(* Who a browser is logged in as.  The server keeps no sessions: a browser *)
(* holds login cookies, each with the moment of a login, a nickname and a  *)
(* password, sends all of them with every request, and the OLDEST decides. *)
(* A login, and a change of one's own password, answers with headers that  *)
(* empty the cookies the request came with and set a new one.  Each tab of *)
(* a browser may have a request under way; the tabs share the cookies.     *)
(*                                                                         *)
(* A user stands for its nickname, which never changes.  The other fields  *)
(* of the profile form are kept only as right or wrong: a wrong one, found *)
(* after earlier ones were written, stops the form before the password.    *)
(***************************************************************************)
EXTENDS Integers, FiniteSets

CONSTANTS
    Browsers,
    Tabs,           \* bound: requests a browser has under way
    Users, Root,
    Passwords,      \* strings that pass check_strong_password
    Empty,          \* the password field is left empty
    Weak,           \* a password check_strong_password refuses
    NoUser,         \* the id -1, userinfo is null
    NoPassword,     \* of a user who is not registered
    Idle, Pending,  \* a tab without a request; a request without an answer
    MaxTime         \* bound: logins and password changes

VARIABLES
    password,   \* column of table user
    clock,      \* CLOCK_REALTIME, as the number of cookies created
    jar,        \* a browser's login cookies that are not empty
    tab,        \* the request a tab of a browser has under way
    session,    \* history: who the browser should be logged in as
    overlapped  \* history: two requests of the browser were under way at once

vars == <<password, clock, jar, tab, session, overlapped>>

Cookie == [login_time : 1 .. MaxTime, nickname : Users, password : Passwords]

\* POST /login and POST /user/<nickname>
LoginRequest ==
    [page : {"login"}, nickname : Users, password : Passwords]
ProfileRequest ==
    [page : {"user"}, nickname : Users, password : Passwords \cup {Empty, Weak},
     detailsAreGood : BOOLEAN]

\* the Set-Cookie headers of an answer: what is emptied, what is set
Headers == [anti : SUBSET (1 .. MaxTime), new : SUBSET Cookie]

Request ==
    [form : LoginRequest \cup ProfileRequest, cookies : SUBSET Cookie,
     answer : Headers \cup {Pending}]

ASSUME SessionsAssumption ==
    /\ Root \in Users /\ NoUser \notin Users
    /\ {Empty, Weak, NoPassword} \cap Passwords = {}
    /\ IsFiniteSet(Tabs) /\ MaxTime \in Nat
    /\ Pending \notin Headers /\ Idle \notin Request

Init ==
    /\ \E p \in Passwords :
        password = [u \in Users |-> IF u = Root THEN p ELSE NoPassword]
    /\ clock = 0
    /\ jar = [b \in Browsers |-> {}]
    /\ tab = [b \in Browsers |-> [t \in Tabs |-> Idle]]
    /\ session = [b \in Browsers |-> NoUser]
    /\ overlapped = [b \in Browsers |-> FALSE]

-----------------------------------------------------------------------------
(* Cookies *)

select_oldest_login_cookie(cookies) ==
    CHOOSE c \in cookies : \A d \in cookies : c.login_time <= d.login_time

find_user_by_credentials(nickname, pw) ==
    IF password[nickname] = pw THEN nickname ELSE NoUser

\* initial_extraction_of_all_the_useful_info_from_cookies
logged_in_user(cookies) ==
    IF cookies = {} THEN NoUser
    ELSE LET tried == select_oldest_login_cookie(cookies)
         IN  find_user_by_credentials(tried.nickname, tried.password)

\* who the next request of the browser would come from
userinfo(b) == logged_in_user(jar[b])

create_login_cookie(nickname, pw) ==
    [login_time |-> clock + 1, nickname |-> nickname, password |-> pw]

NoHeaders == [anti |-> {}, new |-> {}]

\* Broken: the cookies the request came with stay.
add_set_cookie_headers_without_logout(cookies, newCookie) ==
    [anti |-> {}, new |-> {newCookie}]

add_set_cookie_headers_to_login(cookies, newCookie) ==
    [anti |-> {c.login_time : c \in cookies}, new |-> {newCookie}]

-----------------------------------------------------------------------------
(* The browser *)

\* A form is posted, with the cookies the browser has at this moment.
Post(b, t, form) ==
    /\ tab[b][t] = Idle
    /\ tab' = [tab EXCEPT ![b][t] =
                [form |-> form, cookies |-> jar[b], answer |-> Pending]]
    /\ overlapped' = [overlapped EXCEPT ![b] =
                        @ \/ \E s \in Tabs : tab[b][s] # Idle]
    /\ UNCHANGED <<password, clock, jar, session>>

PostLogin(b, t) == \E form \in LoginRequest : Post(b, t, form)

\* The page it was posted from may be older than the cookies.
PostProfile(b, t) == \E form \in ProfileRequest : Post(b, t, form)

Answered(b, t) == tab[b][t] # Idle /\ tab[b][t].answer # Pending

Returned(b, t) == [tab EXCEPT ![b][t] = Idle]

\* The browser obeys the Set-Cookie headers.
Deliver(b, t) ==
    /\ Answered(b, t)
    /\ LET h == tab[b][t].answer
       IN  /\ jar' = [jar EXCEPT ![b] =
                {c \in @ : c.login_time \notin h.anti} \cup h.new]
           /\ session' = [session EXCEPT ![b] =
                IF h.new = {} THEN @
                ELSE LET c == CHOOSE d \in h.new : TRUE
                     IN  find_user_by_credentials(c.nickname, c.password)]
    /\ tab' = Returned(b, t)
    /\ UNCHANGED <<password, clock, overlapped>>

\* The connection breaks, before or after the server has done its part.
Lose(b, t) ==
    /\ tab[b][t] # Idle
    /\ tab' = Returned(b, t)
    /\ session' = [session EXCEPT ![b] =
            IF tab[b][t].form.page = "user" /\ Answered(b, t)
                /\ tab[b][t].answer.new # {}
            THEN NoUser ELSE @]
    /\ UNCHANGED <<password, clock, jar, overlapped>>

-----------------------------------------------------------------------------
(* The server *)

Answer(b, t, headers) ==
    tab' = [tab EXCEPT ![b][t].answer = headers]

\* when_page_login, POST
ServeLogin(b, t) ==
    LET r == tab[b][t]
        form == r.form
    IN  /\ r # Idle /\ r.answer = Pending /\ form.page = "login"
        /\ \/ /\ find_user_by_credentials(form.nickname, form.password) = NoUser
              /\ Answer(b, t, NoHeaders)
              /\ UNCHANGED clock
           \/ /\ find_user_by_credentials(form.nickname, form.password) # NoUser
              /\ clock < MaxTime
              /\ clock' = clock + 1
              /\ Answer(b, t, add_set_cookie_headers_to_login(r.cookies,
                        create_login_cookie(form.nickname, form.password)))
        /\ UNCHANGED <<password, jar, session, overlapped>>

\* userinfo is a user, and the page is the page of that user
can_edit(r) == logged_in_user(r.cookies) = r.form.nickname

\* the form gets as far as UPDATE ... SET `password`
PasswordIsWritten(r) ==
    can_edit(r) /\ r.form.detailsAreGood /\ r.form.password \in Passwords

\* everybody else's session of u ends
SessionsWithout(u, b) ==
    [x \in Browsers |->
        IF session[x] = u /\ x # b THEN NoUser ELSE session[x]]

\* when_page_user, POST: redirected, refused, or carried out without a new
\* password
ServeProfile(b, t) ==
    LET r == tab[b][t]
    IN  /\ r # Idle /\ r.answer = Pending /\ r.form.page = "user"
        /\ ~PasswordIsWritten(r)
        /\ Answer(b, t, NoHeaders)
        /\ UNCHANGED <<password, clock, jar, session, overlapped>>

\* when_page_user, POST, with a new password
ServePasswordChange(b, t) ==
    LET r == tab[b][t]
        u == r.form.nickname
    IN  /\ r # Idle /\ r.answer = Pending /\ r.form.page = "user"
        /\ PasswordIsWritten(r)
        /\ clock < MaxTime
        /\ clock' = clock + 1
        /\ password' = [password EXCEPT ![u] = r.form.password]
        /\ Answer(b, t, add_set_cookie_headers_to_login(r.cookies,
                            create_login_cookie(u, r.form.password)))
        /\ session' = SessionsWithout(u, b)
        /\ UNCHANGED <<jar, overlapped>>

\* admin-cmd: updaterootpw
UpdateRootPw(p) ==
    /\ password' = [password EXCEPT ![Root] = p]
    /\ session' = [x \in Browsers |->
                    IF session[x] = Root THEN NoUser ELSE session[x]]
    /\ UNCHANGED <<clock, jar, tab, overlapped>>

\* admin-cmd: adduser
AddUser(u, p) ==
    /\ password[u] = NoPassword
    /\ password' = [password EXCEPT ![u] = p]
    /\ UNCHANGED <<clock, jar, tab, session, overlapped>>

Next ==
    \/ \E b \in Browsers, t \in Tabs :
        \/ PostLogin(b, t) \/ PostProfile(b, t)
        \/ ServeLogin(b, t) \/ ServeProfile(b, t) \/ ServePasswordChange(b, t)
        \/ Deliver(b, t) \/ Lose(b, t)
    \/ \E p \in Passwords : UpdateRootPw(p)
    \/ \E u \in Users, p \in Passwords : AddUser(u, p)

Spec == Init /\ [][Next]_vars

-----------------------------------------------------------------------------
(* Properties *)

\* A stored password is strong, a cookie holds the credentials of a login,
\* and a request under way holds cookies and a form.
TypeOK ==
    /\ password \in [Users -> Passwords \cup {NoPassword}]
    /\ clock \in 0 .. MaxTime
    /\ jar \in [Browsers -> SUBSET Cookie]
    /\ tab \in [Browsers -> [Tabs -> Request \cup {Idle}]]
    /\ session \in [Browsers -> Users \cup {NoUser}]
    /\ overlapped \in [Browsers -> BOOLEAN]

AwaitsNewPassword(b) ==
    \E t \in Tabs : /\ Answered(b, t)
                    /\ tab[b][t].form.page = "user"
                    /\ tab[b][t].answer.new # {}

\* A login lasts.  A browser that logged in as a user and does one thing at
\* a time, in whichever tab, stays that user, through wrong logins, refused
\* forms and lost answers, until somebody else changes the password, or the
\* answer to its own change of password is lost: the change logs it in anew.
SessionLasts ==
    \A b \in Browsers :
        ~overlapped[b] /\ session[b] # NoUser /\ ~AwaitsNewPassword(b)
            => userinfo(b) = session[b]

\* Cookies do not pile up: however the requests of its tabs overlap and get
\* lost, a browser never has more login cookies than tabs.  (The oldest of
\* several decides, and it may be one whose password is no longer right.)
CookiesAreFew == \A b \in Browsers : Cardinality(jar[b]) <= Cardinality(Tabs)
=============================================================================
