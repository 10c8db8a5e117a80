------------------------------ MODULE HtmlForm ------------------------------
(***************************************************************************)
(* split_html_query (urlencoded_query.cpp), which reads what a browser     *)
(* sends of a form.  Texts are sequences of bytes.                         *)
(***************************************************************************)
EXTENDS Integers, SequencesExt

Ampersand == 38
Equals == 61
Plus == 43
Percent == 37
Space == 32

readhex(ch) ==
    CASE ch \in 48 .. 57 -> ch - 48
      [] ch \in 97 .. 104 -> ch - 97 + 10
      [] ch \in 65 .. 72 -> ch - 65 + 10
      [] OTHER -> 10

\* (char)((a << 4) | b), where b may have a fifth bit
ByteOf(a, b) == (16 * a + (IF b > 15 /\ a % 2 = 1 THEN b - 16 ELSE b)) % 256

Put(s, ch) ==
    [s EXCEPT !.result[Len(s.result)][IF s.filling_second THEN 2 ELSE 1] = Append(@, ch)]

\* Broken: the last escape of a text is taken for a broken one.
IsCutOff_last(query, i) == i + 2 >= Len(query)

\* `i + 3 > query.size()`, from i = 0
IsCutOff(query, i) == i + 2 > Len(query)

\* the loop's body at position i; s.skip is what `i += 2` leaves out
ReadByte(query, s, i) ==
    LET ch == query[i] IN
    IF s.broken THEN s
    ELSE IF s.skip > 0 THEN [s EXCEPT !.skip = @ - 1]
    ELSE CASE ch = Ampersand -> [s EXCEPT !.result = Append(@, <<<<>>, <<>>>>),
                                          !.filling_second = FALSE]
           [] ch = Equals -> [s EXCEPT !.filling_second = TRUE]
           [] ch = Plus -> Put(s, Space)
           [] ch = Percent ->
                IF IsCutOff(query, i) THEN [s EXCEPT !.broken = TRUE]
                ELSE [Put(s, ByteOf(readhex(query[i + 1]), readhex(query[i + 2])))
                        EXCEPT !.skip = 2]
           [] OTHER -> Put(s, ch)

split_html_query(query) ==
    LET after[i \in 0 .. Len(query)] ==
            IF i = 0 THEN [result |-> <<<<<<>>, <<>>>>>>, filling_second |-> FALSE,
                           skip |-> 0, broken |-> FALSE]
            ELSE ReadByte(query, after[i - 1], i)
        s == after[Len(query)]
    IN  IF query = <<>> \/ s.broken THEN <<>> ELSE s.result

(* The browser: application/x-www-form-urlencoded *)

HexDigit(n) == IF n < 10 THEN 48 + n ELSE 65 + n - 10

IsPlain(b) == b \in (48 .. 57) \cup (65 .. 90) \cup (97 .. 122) \cup {42, 45, 46, 95}

Urlencoded(text) ==
    FlattenSeq([i \in 1 .. Len(text) |->
        IF text[i] = Space THEN <<Plus>>
        ELSE IF IsPlain(text[i]) THEN <<text[i]>>
        ELSE <<Percent, HexDigit(text[i] \div 16), HexDigit(text[i] % 16)>>])

Submitted(fields) ==
    FlattenSeq([i \in 1 .. Len(fields) |->
        (IF i = 1 THEN <<>> ELSE <<Ampersand>>)
            \o Urlencoded(fields[i][1]) \o <<Equals>> \o Urlencoded(fields[i][2])])
=============================================================================
