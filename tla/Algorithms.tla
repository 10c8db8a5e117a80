----------------------------- MODULE Algorithms -----------------------------
(***************************************************************************)
(* The pure algorithms of the program, called with any of a set of inputs: *)
(* base64 (str_fields.cpp), the reading of an administrator's command      *)
(* (cli.cpp, admin_control_procedure.cpp), the choice of a translation     *)
(* (localizator.cpp, accept_language.cpp), socket addresses                *)
(* (socket_address.cpp), forms (urlencoded_query.cpp), cookies             *)
(* (cookies.cpp, login_cookie.cpp) and the rendering of a page, each       *)
(* against what it is to compute; the last one is module Pages'.           *)
(***************************************************************************)
EXTENDS AdminCommand, Localizator, SocketAddress, HtmlForm, CookieJar

CONSTANTS
    Sources,        \* byte strings that are encoded
    Encodings,      \* texts that are decoded
    Words,          \* fields the administrator means
    MaxFields,      \* bound: fields given; things that are read
    Ranges,         \* language ranges that occur
    Directories,    \* what readdir may return: sequences of ranges
    Whitelists,     \* config.lang.whitelist, subsets of Ranges
    Orders,         \* config.lang.force-order, sequences of ranges
    Headers,        \* Accept-Language: sequences of [lr, q] records
    AddressTexts,   \* what the configuration may say
    Addresses,      \* addresses that are printed
    Forms,          \* names and values of the fields of a form
    Jars,           \* a browser's cookies: <<"login", c>> or <<"other", c>>
    Pages,          \* templates and their arguments
    PageFrom(_),    \* the page that comes of one
    NotYet          \* no result

IsText(s) == s \in Seq(Range(s))

ASSUME Base64Assumption ==
    /\ Pad \notin 0 .. 63
    /\ Sources \subseteq Seq(0 .. 255)
    /\ \A text \in Encodings : IsText(text)

ASSUME CommandAssumption ==
    /\ Blank # Backslash
    /\ \A word \in Words : IsText(word)
    /\ MaxFields \in Nat

ASSUME LocaleAssumption ==
    /\ \A range \in Ranges : IsText(range)
    /\ Directories \subseteq Seq(Ranges) /\ Orders \subseteq Seq(Ranges)
    /\ Headers \subseteq Seq([lr : Ranges, q : Nat])

\* what the regular expression lets through, and what the kernel takes
ASSUME AddressAssumption ==
    /\ Colon \notin Nat
    /\ SunPath \in Nat
    /\ \A text \in AddressTexts :
        /\ text = Address(text.family, text.host, text.port) /\ text.port \in Nat
        /\ \/ text.family = "inet6" /\ IsText(text.host)
           \/ text.family = "inet" /\ text.host \in [1 .. 4 -> Nat]
           \/ text.family = "unix" /\ IsText(text.host)
    /\ \A address \in Addresses :
        /\ address = Address(address.family, address.host, address.port)
        /\ address.host \notin {Refused, Thrown}
        /\ \/ /\ address.family = "inet6" /\ address.port \in 0 .. MaxPort
              /\ address.host \in [1 .. 8 -> Nat]
           \/ /\ address.family = "inet" /\ address.port \in 0 .. MaxPort
              /\ address.host \in [1 .. 4 -> 0 .. 255]
           \/ /\ address.family = "unix" /\ IsText(address.host) /\ address.host # <<>>
              /\ Len(address.host) <= SunPath
              /\ Last(address.host) # Slash /\ Nul \notin Range(address.host)

ASSUME FormAssumption == Forms \subseteq Seq(Seq(0 .. 255) \X Seq(0 .. 255))

\* what the browser was told to keep
Kept(jar) ==
    [i \in 1 .. Len(jar) |->
        IF jar[i][1] = "login" THEN encode_login_cookie(jar[i][2]) ELSE jar[i][2]]

\* a cookie that is no login: of others, or an emptied one
IsOther(cookie) ==
    /\ cookie = <<cookie[1], cookie[2]>> /\ IsText(cookie[1]) /\ IsText(cookie[2])
    /\ \A i \in 1 .. Len(cookie[1]) : cookie[1][i] \notin {White, Pad}
    /\ isCookieValue(cookie[2])
    /\ ~is_login_cookie(cookie)

\* the four are no letters of base64; an exception is none of the values
ASSUME CookieAssumption ==
    /\ {White, Semicolon, Underscore, QuoteMark} \cap (0 .. 63 \cup {Pad}) = {}
    /\ White \notin {Semicolon, Underscore}
    /\ Error \notin Nat
    /\ \A jar \in Jars :
        /\ IsText(jar) /\ Kept(jar) # Error
        /\ \A i \in 1 .. Len(jar) :
            LET c == jar[i][2]
            IN  \/ /\ jar[i][1] = "login" /\ c \in Login
                   /\ Error \notin {c, <<c.nickname, c.password>>, generate_str(c.nickname, c.password)}
                \/ jar[i][1] # "login" /\ IsOther(c)

VARIABLES
    call,           \* the algorithm and its arguments
    result

callVars == <<call, result>>

Called(algorithm) == call[1] = algorithm

\* fields left out, or empty, come last
EmptyOnesLast(fields) ==
    \A i, j \in 1 .. Len(fields) :
        i < j /\ fields[j] # <<>> => fields[i] # <<>>

\* what is called: an algorithm and its arguments
Given ==
    \/ \E source \in Sources : call = <<"encode", source>>
    \/ \E source \in Encodings : call = <<"decode", source>>
    \/ \E fields \in BoundedSeq(Words, MaxFields) :
        /\ EmptyOnesLast(fields)
        /\ \E argv \in Written(fields) : call = <<"command", fields, argv>>
    \/ \E dir \in Directories, list \in Whitelists, order \in Orders :
        call = <<"start", dir, list, order>>
    \/ \E text \in AddressTexts : call = <<"parse", text>>
    \/ \E address \in Addresses : call = <<"stringify", address>>
    \/ \E fields \in Forms : call = <<"form", fields>>
    \/ \E jar \in Jars : call = <<"cookies", jar>>
    \/ \E page \in Pages : call = <<"page", page>>

CallInit == Given /\ result = NotYet

Return(value) == result = NotYet /\ result' = value /\ UNCHANGED call

Encode == Called("encode") /\ Return(base64_encode(call[2]))

Decode == Called("decode") /\ Return(base64_decode(call[2]))

ReadCommand == Called("command") /\ Return(read_things(Joined(call[3]), MaxFields))

StartLocalizator ==
    Called("start") /\ Return(Localizator(call[2], call[3], call[4]))

ParseAddress == Called("parse") /\ Return(parse_socket_address(call[2]))

StringifyAddress ==
    Called("stringify") /\ Return(stringify_socket_address(call[2]))

ReadForm == Called("form") /\ Return(split_html_query(Submitted(call[2])))

ReadCookieHeader ==
    /\ Called("cookies")
    /\ Return(select_login_cookies(findAllClientCookies(<<CookieHeader(Kept(call[2]))>>)))

RenderPage == Called("page") /\ Return(PageFrom(call[2]))

Returned == result # NotYet /\ UNCHANGED callVars

CallNext ==
    \/ Encode \/ Decode
    \/ ReadCommand
    \/ StartLocalizator
    \/ ParseAddress \/ StringifyAddress
    \/ ReadForm
    \/ ReadCookieHeader
    \/ RenderPage
    \/ Returned

CallSpec == CallInit /\ [][CallNext]_callVars

-----------------------------------------------------------------------------
(* base64: the same bits, cut into sixes, zeros at the end *)

\* What is encoded is base64 of the bytes, and they can be had back; what is
\* accepted, from anybody, is base64 of what it is taken for, and the only
\* text that stands for it.
Base64IsExact ==
    /\ Called("encode") /\ result # NotYet =>
        /\ IsEncodingOf(result, call[2])
        /\ base64_decode(result) = call[2]
    /\ Called("decode") /\ result \notin {NotYet, Error} =>
        /\ IsEncodingOf(call[2], result)
        /\ base64_encode(result) = call[2]

(* Commands *)

\* What is read is what was meant: "If a space or the character \ has to be
\* entered in any of these fields, \ has to be put before it.  If fewer
\* fields are given than needed, those not filled in become empty strings."
FieldsAreRead ==
    Called("command") /\ result # NotYet =>
        result = [i \in 1 .. MaxFields |->
                    IF i <= Len(call[2]) THEN call[2][i] ELSE <<>>]

(* Translations *)

Ready == IF Called("start") /\ result # NotYet THEN result.state = "ready" ELSE FALSE

\* The most special entry of force-order that covers a file, the last one of
\* several copies, is its place.
Place(file, order) ==
    LET covering == {i \in 1 .. Len(order) : IsPrefix(order[i], file)}
    IN  IF covering = {} THEN inf_bad_order
        ELSE CHOOSE i \in covering : \A j \in covering :
            \/ Len(order[i]) > Len(order[j])
            \/ (order[i] = order[j] /\ i >= j)

\* "config.lang.force-order define[s] ... which translations have priority
\* over which": of all files that fit a range, the server uses one that
\* none of the others comes before, whatever order readdir has them in.  And
\* none is installed in vain: who asks for a file by its own name gets it,
\* which is what refusing "redundant" files is for.
OrderIsForced ==
    Ready => \A range \in Ranges : \A k \in 1 .. Len(result.files) :
        IsPrefix(range, result.files[k]) =>
            /\ range \in DOMAIN result.prefix_to_file
            /\ LET used == result.files[result.prefix_to_file[range]]
               IN  /\ IsPrefix(range, used)
                   /\ Place(used, call[4]) <= Place(result.files[k], call[4])
                   /\ result.files[k] = range => used = range

\* The file is for a range that was asked for, and for none of less weight
\* than another for which there is a file.  Only if there is no file for any
\* of them it is the site's first.
IsAsked(answer, header) ==
    LET served == {i \in 1 .. Len(header) :
            \E k \in 1 .. Len(result.files) :
                IsPrefix(header[i].lr, result.files[k])}
    IN  IF served = {} THEN answer = result.prefix_to_file[<<>>]
        ELSE \E i \in served :
                /\ answer = result.prefix_to_file[header[i].lr]
                /\ IsPrefix(header[i].lr, result.files[answer])
                /\ \A j \in served : header[i].q >= header[j].q

\* Whatever a visitor's header asks for, and however std::sort leaves equal
\* weights, they get a file they have asked for, if there is one.
AnswerIsAsked ==
    Ready => \A header \in Headers :
        \A preferred_langs \in parse_header_Accept_Language(header) :
            IsAsked(get_right_locale(result.prefix_to_file, preferred_langs), header)

(* Addresses *)

Numbers(text) == Cardinality({i \in 1 .. Len(text) : IsInt6(text[i])})

\* A text that is accepted spells the address it is taken for; every spelling
\* of an address is accepted and taken for it; and the server prints one that
\* leaves out as many zeros as can be, unless that is a single one.
AddressesRoundTrip ==
    /\ Called("parse") /\ result \notin {NotYet, Refused, Thrown} =>
        /\ call[2].port = result.port /\ call[2].family = result.family
        /\ result.family = "inet6" => call[2].host \in Spellings(result.host)
        /\ result.family = "inet" => call[2].host \in [1 .. 4 -> 0 .. 255]
    /\ Called("stringify") /\ result # NotYet =>
        /\ parse_socket_address(result) = call[2]
        /\ call[2].family = "inet6" => \A text \in Spellings(call[2].host) :
            /\ parse_socket_address([call[2] EXCEPT !.host = text]) = call[2]
            /\ Numbers(result.host) <= Numbers(text)

(* Forms *)

\* The server reads what was entered, whatever characters it has.
FormsAreRead == Called("form") /\ result # NotYet => result = call[2]

(* Cookies *)

\* Among cookies of others, and emptied ones that the browser goes on sending,
\* the server finds exactly its login cookies, in their order, with the time
\* and the credentials it put there; and set_cookie takes all it makes.
CookiesAreRead ==
    Called("cookies") /\ result # NotYet =>
        /\ result = FlattenSeq([i \in 1 .. Len(call[2]) |->
                IF call[2][i][1] = "login" THEN <<call[2][i][2]>> ELSE <<>>])
        /\ \A i \in 1 .. Len(call[2]) : call[2][i][1] = "login" =>
                LET c == encode_login_cookie(call[2][i][2])
                IN  isCookieName(c[1]) /\ isCookieValue(c[2])

=============================================================================
