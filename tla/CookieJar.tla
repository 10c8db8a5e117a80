----------------------------- MODULE CookieJar -----------------------------
(***************************************************************************)
(* A browser's cookies on their way back: parseCookieHeader and set_cookie *)
(* (cookies.cpp), and the login cookies among them (login_cookie.cpp).  A  *)
(* letter, a digit, + and / are the number 0 .. 63 base64 gives them; '='  *)
(* is its padding.                                                         *)
(***************************************************************************)
EXTENDS Base64

CONSTANTS White, Semicolon, Underscore, QuoteMark

(* cookies.cpp *)

\* where a loop that stops at one of `stops` leaves pos
To(hv, pos, stops) ==
    Min({i \in pos .. Len(hv) : hv[i] \in stops} \cup {Len(hv) + 1})

skip_ows(hv, pos) ==
    Min({i \in pos .. Len(hv) : hv[i] # White} \cup {Len(hv) + 1})

IsThis(hv, pos, ch) == pos <= Len(hv) /\ hv[pos] = ch

\* Broken: a value ends at '=', like a name.
ValueStops_padding == {White, QuoteMark, Semicolon, Pad}

ValueStops == {White, QuoteMark, Semicolon}

\* a cookie and where it ends
ReadCookie(hv, pos) ==
    LET name_end == To(hv, pos, {White, Pad})
        eq == skip_ows(hv, name_end)
        value == skip_ows(hv, eq + 1)
        value_end == To(hv, value, ValueStops)
    IN  [ok |-> IsThis(hv, eq, Pad), next |-> skip_ows(hv, value_end),
         cookie |-> <<SubSeq(hv, pos, name_end - 1), SubSeq(hv, value, value_end - 1)>>]

\* one turn of the loop, if there is one
Turn(hv, s) ==
    LET r == ReadCookie(hv, IF s.result = <<>> THEN s.pos ELSE skip_ows(hv, s.pos + 1))
    IN  IF s.pos > Len(hv) THEN s
        ELSE IF (s.result = <<>> \/ IsThis(hv, s.pos, Semicolon)) /\ r.ok
        THEN [s EXCEPT !.pos = r.next, !.result = Append(@, r.cookie)]
        ELSE [s EXCEPT !.pos = Len(hv) + 1, !.thrown = TRUE]

\* A turn takes at least the '='.
parseCookieHeader(hv) ==
    LET after[n \in 0 .. Len(hv)] ==
            IF n = 0 THEN [pos |-> skip_ows(hv, 1), result |-> <<>>, thrown |-> FALSE]
            ELSE Turn(hv, after[n - 1])
        s == after[Len(hv)]
    IN  IF s.thrown THEN Error ELSE s.result

\* A header line that cannot be read counts as none.
findAllClientCookies(lines) ==
    FlattenSeq([i \in 1 .. Len(lines) |->
        LET cookies == parseCookieHeader(lines[i])
        IN  IF cookies = Error THEN <<>> ELSE cookies])

IsAlphanum(ch) == ch \in 0 .. 61

isCookieName(name) ==
    name # <<>> /\ \A i \in 1 .. Len(name) : IsAlphanum(name[i]) \/ name[i] \in {62, Underscore}

isCookieValue(value) ==
    \A i \in 1 .. Len(value) : value[i] \notin {White, QuoteMark, Semicolon}

(* login_cookie.cpp *)

Digits == 52 .. 61

\* std::to_string
Decimal(n) ==
    LET text[m \in 0 .. n] ==
            IF m < 10 THEN <<52 + m>> ELSE Append(text[m \div 10], 52 + (m % 10))
    IN  text[n]

\* std::stoull: the digits a text begins with
stoull(text) ==
    LET n == To(text, 1, (0 .. 63 \cup {Pad, Underscore}) \ Digits) - 1
        value[i \in 0 .. n] ==
            IF i = 0 THEN 0 ELSE 10 * value[i - 1] + text[i] - 52
    IN  IF n = 0 THEN Error ELSE value[n]

login_ == <<37, 40, 32, 34, 39, Underscore>>

is_login_cookie(cookie) == IsPrefix(login_, cookie[1]) /\ cookie[2] # <<>>

\* The JSON of nickname and password is external: both, as bytes, and a 0
\* between them.
generate_str(nickname, password) == nickname \o <<0>> \o password

parse_str_flawless(text) ==
    LET i == To(text, 1, {0})
    IN  IF i > Len(text) THEN Error
        ELSE <<SubSeq(text, 1, i - 1), SubSeq(text, i + 1, Len(text))>>

encode_login_cookie(c) ==
    <<login_ \o Decimal(c.sec) \o <<Underscore>> \o Decimal(c.nsec),
      base64_encode(generate_str(c.nickname, c.password))>>

Billion == 1000 * 1000 * 1000

decode_login_cookie(cookie) ==
    LET ft == cookie[1]
        s_ == To(ft, Len(login_) + 1, {Underscore})
        sec == stoull(SubSeq(ft, Len(login_) + 1, s_ - 1))
        nsec == stoull(SubSeq(ft, s_ + 1, Len(ft)))
        text == base64_decode(cookie[2])
        cnt == IF text = Error THEN Error ELSE parse_str_flawless(text)
    IN  IF s_ >= Len(ft) \/ sec = Error \/ nsec = Error THEN Error
        ELSE IF ~(nsec < Billion) \/ cnt = Error THEN Error
        ELSE [sec |-> sec, nsec |-> nsec, nickname |-> cnt[1], password |-> cnt[2]]

\* If one cannot be decoded, there are none.
select_login_cookies(cookie_list) ==
    LET decoded == FlattenSeq([i \in 1 .. Len(cookie_list) |->
            IF is_login_cookie(cookie_list[i])
            THEN <<decode_login_cookie(cookie_list[i])>> ELSE <<>>])
    IN  IF Contains(decoded, Error) THEN <<>> ELSE decoded

(* The browser: "name=value", "; " between two *)

Login == [sec : Nat, nsec : {n \in Nat : n < Billion},
          nickname : Seq(1 .. 255), password : Seq(0 .. 255)]

CookieHeader(jar) ==
    FlattenSeq([i \in 1 .. Len(jar) |->
        (IF i = 1 THEN <<>> ELSE <<Semicolon, White>>) \o jar[i][1] \o <<Pad>> \o jar[i][2]])
=============================================================================
