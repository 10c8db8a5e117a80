--------------------------- MODULE SocketAddress ---------------------------
(***************************************************************************)
(* The addresses of the configuration: parse_socket_address and            *)
(* stringify_socket_address of socket_address.cpp.  A text is its form,    *)
(* its host part as a sequence of symbols (a number is one symbol, so that *)
(* digits and leading zeros are left out) and its port.                    *)
(***************************************************************************)
EXTENDS Integers, SequencesExt

CONSTANTS
    Colon,          \* the symbol between the numbers of an IPv6 address
    Slash, Nul,     \* symbols that matter in the path of a unix address
    Refused,        \* parse_socket_address returns -1
    Thrown,         \* ... throws
    SunPath         \* sizeof(sun_path)

Address(family, host, port) == [family |-> family, host |-> host, port |-> port]

(* reg_addr_in6_core *)

IsInt6(symbol) == symbol \in Nat

\* reg_6LFT_rep: k times a number and a colon
IsLeft(text, k) ==
    /\ Len(text) = 2 * k
    /\ \A i \in 1 .. Len(text) :
        IF i % 2 = 1 THEN IsInt6(text[i]) ELSE text[i] = Colon

\* reg_6RHT_rep: a colon, or up to mt times a colon and a number
IsRight(text, mt) ==
    \/ text = <<Colon>>
    \/ /\ Len(text) \in {2 * n : n \in 1 .. mt}
       /\ \A i \in 1 .. Len(text) :
            IF i % 2 = 0 THEN IsInt6(text[i]) ELSE text[i] = Colon

IsWhole(text) == Len(text) = 15 /\ IsLeft(Front(text), 7) /\ IsInt6(text[15])

\* The k-th alternative with #s: what skips zeros comes after k numbers.
SkipAt(k) == IF k = 0 THEN 1 ELSE 2 * k

Skips(text, k) ==
    LET n == SkipAt(k)
        left == SubSeq(text, 1, n)
    IN  /\ Len(text) > n
        /\ IF k = 0 THEN left = <<Colon>> ELSE IsLeft(left, k)
        /\ IsRight(SubSeq(text, n + 1, Len(text)), 6 - k)

parse_in6(text) ==
    LET k == CHOOSE k \in 0 .. 6 : Skips(text, k)
        after == (Len(text) - SkipAt(k)) \div 2     \* numbers after what is skipped
    IN  IF IsWhole(text) THEN [i \in 1 .. 8 |-> text[2 * i - 1]]
        ELSE IF \A n \in 0 .. 6 : ~Skips(text, n) THEN Refused
        ELSE [i \in 1 .. 8 |->
                CASE i <= k -> text[2 * i - 1]
                  [] k < i /\ i <= 8 - after -> 0
                  [] k < i /\ i > 8 - after -> text[Len(text) - 2 * (8 - i)]]

MaxPort == 256 * 256 - 1     \* of two bytes

parse_inet(numbers) == IF \E i \in 1 .. 4 : numbers[i] > 255 THEN Refused ELSE numbers

parse_unix(path) ==
    IF path = <<>> \/ Last(path) = Slash \/ Nul \in Range(path) THEN Refused
    ELSE IF SunPath < Len(path) THEN Thrown ELSE path

parse_socket_address(text) ==
    LET host == CASE text.family = "inet6" -> parse_in6(text.host)
                  [] text.family = "inet" -> parse_inet(text.host)
                  [] text.family = "unix" -> parse_unix(text.host)
    IN  IF host \in {Refused, Thrown} THEN host
        ELSE IF text.family # "unix" /\ text.port > MaxPort THEN Refused
        ELSE Address(text.family, host, text.port)

(* stringify_socket_address *)

\* the loop's body: the run of zeros that ends here
TakePiece(s, piece, i) ==
    LET cur == IF piece = 0 THEN s.cur + 1 ELSE 0
    IN  IF cur > s.sz THEN [sz |-> cur, start |-> i + 1 - cur, cur |-> cur]
        ELSE [s EXCEPT !.cur = cur]

\* the first longest run of zeros
LargestZeros(IP) ==
    LET after[i \in 0 .. 8] ==
            IF i = 0 THEN [sz |-> 0, start |-> 1, cur |-> 0]
            ELSE TakePiece(after[i - 1], IP[i], i)
    IN  after[8]

\* Broken: a single zero is left out as well.
Elided_single(run, i) == run.sz >= 1 /\ i \in run.start .. run.start + run.sz - 1

Elided(run, i) == run.sz >= 2 /\ i \in run.start .. run.start + run.sz - 1

stringify_in6(IP) ==
    LET run == LargestZeros(IP)
        piece(i) ==
            IF Elided(run, i)
            THEN IF i # run.start THEN <<>>
                 ELSE IF run.start + run.sz = 9 THEN <<Colon, Colon>> ELSE <<Colon>>
            ELSE IF i > 1 THEN <<Colon, IP[i]>> ELSE <<IP[i]>>
    IN  FlattenSeq([i \in 1 .. 8 |-> piece(i)])

stringify_socket_address(address) ==
    IF address.family = "inet6"
    THEN [address EXCEPT !.host = stringify_in6(@)] ELSE address

(* What an IPv6 address is written as (RFC 4291): its numbers, a colon       *)
(* between each two; or some of its zeros, at least two, left out between    *)
(* two colons.                                                               *)

Colons(numbers) ==
    FlattenSeq([i \in 1 .. Len(numbers) |->
        IF i = 1 THEN <<numbers[i]>> ELSE <<Colon, numbers[i]>>])

Spellings(IP) ==
    {Colons(IP)} \cup
    {Colons(SubSeq(IP, 1, r[1] - 1)) \o <<Colon, Colon>> \o Colons(SubSeq(IP, r[2] + 1, 8)) :
        r \in {q \in (1 .. 8) \X (1 .. 8) :
                q[1] < q[2] /\ \A i \in q[1] .. q[2] : IP[i] = 0}}
=============================================================================
