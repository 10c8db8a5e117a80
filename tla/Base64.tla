------------------------------- MODULE Base64 -------------------------------
(***************************************************************************)
(* base64_encode and base64_decode of str_fields.cpp, which login cookies  *)
(* travel in, against what base64 means (RFC 4648).  A letter of the       *)
(* alphabet is the number 0 .. 63 the tables give it.                      *)
(***************************************************************************)
EXTENDS Integers, SequencesExt

CONSTANTS
    Pad,            \* '='
    Error           \* an exception

Triplet(a, b, c) ==
    <<a \div 4, (a % 4) * 16 + b \div 16, (b % 16) * 4 + c \div 64, c % 64>>

base64_encode(source) ==
    LET triplets == Len(source) \div 3
        rest == SubSeq(source, 3 * triplets + 1, Len(source))
    IN  FlattenSeq([i \in 1 .. triplets |->
            Triplet(source[3 * i - 2], source[3 * i - 1], source[3 * i])])
        \o CASE rest = <<>> -> <<>>
             [] Len(rest) = 1 -> SubSeq(Triplet(rest[1], 0, 0), 1, 2) \o <<Pad, Pad>>
             [] Len(rest) = 2 -> SubSeq(Triplet(rest[1], rest[2], 0), 1, 3) \o <<Pad>>

decoding_table(ch) == IF ch \in 0 .. 63 THEN ch ELSE 69

\* '=' at the end: two if the last but one is '=', which the last must be then
Noes(source) ==
    LET n == Len(source)
    IN  CASE source[n - 1] = Pad -> 2
          [] source[n - 1] # Pad /\ source[n] = Pad -> 1
          [] OTHER -> 0

\* the three bytes of the i-th four letters
Unpacked(source, i) ==
    LET v(k) == decoding_table(source[4 * i - 4 + k])
    IN  <<v(1) * 4 + v(2) \div 16, (v(2) % 16) * 16 + v(3) \div 4, (v(3) % 4) * 64 + v(4)>>

\* Broken: bits left over are not looked at.
WellFormed_loose(source) ==
    LET noes == Noes(source)
    IN  /\ noes = 2 => source[Len(source)] = Pad
        /\ \A i \in 1 .. Len(source) - noes : decoding_table(source[i]) < 64

\* the assertions of base64_decode
WellFormed(source) ==
    LET noes == Noes(source)
        last(k) == decoding_table(source[Len(source) - 4 + k])
    IN  /\ noes = 2 => source[Len(source)] = Pad
        /\ \A i \in 1 .. Len(source) - noes : decoding_table(source[i]) < 64
        /\ noes = 2 => last(2) % 16 = 0
        /\ noes = 1 => last(3) % 4 = 0

base64_decode(source) ==
    CASE Len(source) % 4 # 0 -> Error
      [] source = <<>> -> <<>>
      [] OTHER ->
            IF ~WellFormed(source) THEN Error
            ELSE LET quads == Len(source) \div 4
                     all == FlattenSeq([i \in 1 .. quads |-> Unpacked(source, i)])
                 IN  SubSeq(all, 1, 3 * quads - Noes(source))

-----------------------------------------------------------------------------

(* What base64 means: the same bits, cut into sixes, zeros at the end *)

Bit(value, width, i) == (value \div 2 ^ (width - i)) % 2

\* the p-th bit of values of that width
BitAt(values, width, p) ==
    Bit(values[((p - 1) \div width) + 1], width, ((p - 1) % width) + 1)

IsEncodingOf(text, bytes) ==
    \E letters \in 0 .. Len(text) :
        /\ Len(text) % 4 = 0 /\ Len(text) - letters <= 2
        /\ \A i \in 1 .. Len(text) :
            IF i <= letters THEN text[i] \in 0 .. 63 ELSE text[i] = Pad
        /\ 6 * letters \in 8 * Len(bytes) .. 8 * Len(bytes) + 5
        /\ \A p \in 1 .. 6 * letters :
            BitAt(text, 6, p) = IF p <= 8 * Len(bytes) THEN BitAt(bytes, 8, p) ELSE 0
=============================================================================
