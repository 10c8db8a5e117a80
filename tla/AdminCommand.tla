---------------------------- MODULE AdminCommand ----------------------------
(***************************************************************************)
(* The text of an administrator's command: the command line tool joins its *)
(* arguments (cli.cpp), admin_control_procedure cuts the text into the     *)
(* command and its fields (read_thing).  The README tells how to write a   *)
(* field that contains spaces or backslashes.                              *)
(***************************************************************************)
EXTENDS Integers, SequencesExt

CONSTANTS Blank, Backslash  \* the characters that matter; any isSPACE is Blank

\* README.md: "before them one has to put \"
Quote(word) ==
    FlattenSeq([i \in 1 .. Len(word) |->
        IF word[i] \in {Blank, Backslash}
        THEN <<Backslash, word[i]>> ELSE <<word[i]>>])

\* The tool's loop over argv: no newline before the first that is not empty.
Joined(argv) ==
    LET msg[n \in 0 .. Len(argv)] ==
            IF n = 0 THEN <<>>
            ELSE (IF msg[n - 1] = <<>> THEN <<>> ELSE msg[n - 1] \o <<Blank>>) \o argv[n]
    IN  msg[Len(argv)]

\* Each field is an argument of its own, or all are written in one, with
\* more blanks than needed.
Written(fields) ==
    LET argv == [i \in 1 .. Len(fields) |-> Quote(fields[i])]
    IN  {argv, <<FlattenSeq([i \in 1 .. Len(fields) |->
                    <<Blank>> \o argv[i] \o <<Blank>>])>>}

(* read_thing: its locals, and the things it has returned.  A call takes up *)
(* reading where the one before has stopped, so that all of them together   *)
(* are one pass over the text.                                              *)
Start == [things |-> <<>>, in_thing |-> FALSE, esc |-> FALSE, result |-> <<>>]

\* Broken: esc stays set.
TakeEscaped_stuck(s, ch) == [s EXCEPT !.result = Append(@, ch)]

TakeEscaped(s, ch) == [s EXCEPT !.result = Append(@, ch), !.esc = FALSE]

TakePlain(s, ch) == [s EXCEPT !.result = Append(@, ch), !.in_thing = TRUE]

TakeBackslash(s) == [s EXCEPT !.esc = TRUE, !.in_thing = TRUE]

EndThing(s) == [Start EXCEPT !.things = Append(s.things, s.result)]

TakeCharacter(s, ch) ==
    CASE s.esc                                     -> TakeEscaped(s, ch)
      [] ~s.esc /\ ch = Backslash                  -> TakeBackslash(s)
      [] ~s.esc /\ ch = Blank /\ s.in_thing        -> EndThing(s)
      [] ~s.esc /\ ch = Blank /\ ~s.in_thing       -> s
      [] ~s.esc /\ ch \notin {Blank, Backslash}    -> TakePlain(s, ch)

\* What n calls return; at the end of the text a thing is empty.
read_things(req, n) ==
    LET after[k \in 0 .. Len(req)] ==
            IF k = 0 THEN Start ELSE TakeCharacter(after[k - 1], req[k])
        s == after[Len(req)]
        things == IF s.in_thing THEN EndThing(s).things ELSE s.things
    IN  [i \in 1 .. n |-> IF i <= Len(things) THEN things[i] ELSE <<>>]
=============================================================================
