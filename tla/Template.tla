------------------------------ MODULE Template ------------------------------
(***************************************************************************)
(* new_york_transit_line, the templates pages are made of: their parser    *)
(* (parser.cpp), the renderer (rendering.cpp) and Templater.  A file is a  *)
(* sequence of items, which are characters of code, <<"char", c>>, and     *)
(* magic blocks: <<"ELDEF", name, arguments>>, <<"W", e>>, <<"RI", e>>,    *)
(* <<"PUT", e, es>>, <<"FOR", key, value, e>>, <<"REF", name, e>>,         *)
(* <<"END", "FOR", line_feed>> and the like, and <<"nothing">>, a block    *)
(* without an operator.  Characters and names are strings.  An             *)
(* expression has a root V and a chain C of <<"str", <<name>>>>,           *)
(* <<"int", n>> and <<"expr", e>>; json is <<"str", text>>, <<"int", n>>,  *)
(* <<"arr", seq>>, or <<"dict", seq>> of keys and values in the order of   *)
(* the keys; <<"el", name>> is an element, and its name a sequence of      *)
(* names.  All arguments have the type JSON.                               *)
(***************************************************************************)
EXTENDS Integers, SequencesExt

Nl == "\n"
Sp == " "
isSPACE(ch) == ch \in {Sp, "\r", "\t", Nl}

(* parser.cpp: code *)

first_nw_char(str) ==
    LET i == SelectInSeq(str, LAMBDA ch : ~isSPACE(ch))
    IN  IF i = 0 THEN Len(str) ELSE i - 1

is_space_only(str) == first_nw_char(str) = Len(str)

\* all blank lines at the start
clement_lstrip(str) ==
    LET blank == SubSeq(str, 1, first_nw_char(str))
    IN  SubSeq(str, SelectLastInSeq(blank, LAMBDA ch : ch = Nl) + 1, Len(str))

rstrip(str) == SubSeq(str, 1, SelectLastInSeq(str, LAMBDA ch : ~isSPACE(ch)))

splitIntoLines(str) ==
    FoldLeft(LAMBDA lines, ch :
                IF ch = Nl THEN Append(lines, <<>>)
                ELSE [lines EXCEPT ![Len(lines)] = Append(@, ch)], <<<<>>>>, str)

concatenateLines(lines) ==
    FoldLeft(LAMBDA str, line : str \o <<Nl>> \o line, Head(lines), Tail(lines))

\* Broken: the code before a block at the start of a line has no tab.
is_relevant_in_tab_cut_words(PN, I, LN, j, line) ==
    ~(j = 1 /\ I # 1) /\ ~is_space_only(line)

\* Line j of part I is the start of a line of the template, and not blank,
\* or a block comes next in it.
is_relevant_in_tab_cut(PN, I, LN, j, line) ==
    /\ ~(j = 1 /\ I # 1)
    /\ ~is_space_only(line) \/ (j = LN /\ I < PN)

Code(text) == [type |-> "code", lines |-> text]

Lines(parts, i) ==
    LET text == IF i = 1 THEN clement_lstrip(parts[i].lines) ELSE parts[i].lines
    IN  splitIntoLines(IF i = Len(parts) THEN rstrip(text) ELSE text)

CutTabs(PN, lines) ==
    LET Relevant(i) ==
            {j \in DOMAIN lines[i] : is_relevant_in_tab_cut(PN, i, Len(lines[i]), j, lines[i][j])}
        tab == Min(UNION {{first_nw_char(lines[i][j]) : j \in Relevant(i)} : i \in DOMAIN lines})
    IN  [i \in DOMAIN lines |-> [j \in DOMAIN lines[i] |->
            IF j \in Relevant(i) THEN SubSeq(lines[i][j], tab + 1, Len(lines[i][j]))
            ELSE lines[i][j]]]

WithLines(parts, lines) ==
    [i \in DOMAIN parts |->
        IF i \in DOMAIN lines THEN Code(concatenateLines(lines[i])) ELSE parts[i]]

\* blank lines around the block and the tab of all its lines are cut
prepare_to_depart_parts(parts) ==
    WithLines(parts, CutTabs(Len(parts),
        [i \in {k \in DOMAIN parts : parts[k].type = "code"} |-> Lines(parts, i)]))

(* parser.cpp: blocks *)

Position(vars, name) == SelectInSeq(vars, LAMBDA v : v = name)

RECURSIVE parse_expression(_, _)
parse_expression(e, local_var_names) ==
    [V |-> IF e.V \in ToSet(local_var_names)
           THEN <<"var", Position(local_var_names, e.V)>> ELSE <<"el", <<e.V>>>>,
     C |-> [i \in DOMAIN e.C |->
            IF e.C[i][1] = "expr" THEN <<"expr", parse_expression(e.C[i][2], local_var_names)>>
            ELSE e.C[i]]]

Element(n, hidden, base, parts) ==
    [is_element |-> TRUE, arguments |-> n, is_hidden |-> hidden, base |-> base, parts |-> parts]

IsElement(elems, name) == name \in DOMAIN elems /\ elems[name].is_element

\* and what the name begins with, so that it can be got at
add_new_element(elems, name, element) ==
    (name :> element) @@ elems
        @@ [pref \in {SubSeq(name, 1, i) : i \in 1 .. Len(name) - 1} |-> [is_element |-> FALSE]]

Frame(el, myself, vars) ==
    [el |-> el, myself |-> myself, vars |-> vars, parts |-> <<Code(<<>>)>>, hidden |-> 0]

Top(s) == Last(s.frames)

AddParts(s, parts) == [s EXCEPT !.frames[Len(s.frames)].parts = @ \o parts]

AddPut(s, called, arguments) ==
    AddParts(s, <<[type |-> "put", called |-> called,
                   arguments |-> [i \in DOMAIN arguments |->
                                    parse_expression(arguments[i], Top(s).vars)]],
                  Code(<<>>)>>)

Base(name) == [V |-> <<"el", <<name>>>>, C |-> <<>>]

\* a block inside of the block, as an element of its own
Descended(s, myself, part, over, vars) ==
    LET internal == Append(Top(s).el, "~" \o ToString(Top(s).hidden))
        q == AddParts(s, <<part @@ [type |-> myself, internal_element |-> internal,
                                    ref_over |-> parse_expression(over, Top(s).vars)]>>)
    IN  [q EXCEPT !.frames = Append([@ EXCEPT ![Len(@)].hidden = @ + 1],
                                    Frame(internal, myself, vars)),
                  !.elems = (internal :> Element(0, TRUE, FALSE, <<>>)) @@ @]

Thrown_(s) == [s EXCEPT !.ok = FALSE]

ReadFor(s, key, value, over) ==
    LET vars == Top(s).vars
        more == SelectSeq(<<key, value>>, LAMBDA v : v # "_")
        where == [v \in {key, value} |-> Len(vars) + Position(more, v)]
    IN  IF \/ \E i \in DOMAIN more : more[i] \in ToSet(vars)
           \/ Len(more) = 2 /\ key = value
        THEN Thrown_(s)
        ELSE Descended(s, "FOR", [keyed |-> key # "_", valued |-> value # "_", line_feed |-> TRUE,
                                  where_key_var |-> where[key], where_value_var |-> where[value]],
                       over, vars \o more)

\* local_var_names_of_nxt.emplace does nothing if there is the name
ReadRef(s, name, over) ==
    Descended(s, "REF", <<>>, over,
        IF name \in ToSet(Top(s).vars) THEN Top(s).vars ELSE Append(Top(s).vars, name))

\* the block around it goes on after it
Resumed(frames, myself, line_feed) ==
    IF frames = <<>> THEN <<>>
    ELSE [frames EXCEPT ![Len(frames)].parts =
            Append(IF myself = "FOR" THEN [@ EXCEPT ![Len(@)].line_feed = line_feed] ELSE @,
                   Code(<<>>))]

ReadEnd(s, myself, line_feed) ==
    IF Top(s).myself # myself THEN Thrown_(s)
    ELSE [s EXCEPT !.elems[Top(s).el].parts = prepare_to_depart_parts(Top(s).parts),
                   !.frames = Resumed(Front(@), myself, line_feed)]

ReadEldef(s, filename, postfix, arguments) ==
    LET name == IF postfix = "main" THEN filename ELSE Append(filename, postfix)
        named == SelectSeq(arguments, LAMBDA a : a # "_")
    IN  IF postfix = "_" \/ IsElement(s.elems, name) \/ ~IsInjective(named) THEN Thrown_(s)
        ELSE [s EXCEPT !.elems = add_new_element(@, name, Element(Len(arguments), FALSE, FALSE, <<>>)),
                       !.frames = <<Frame(name, "ELDEF", named)>>]

ReadItem(s, filename, item) ==
    LET op == item[1]
        n == Len(s.frames)
    IN  CASE ~s.ok -> s
          [] n = 0 -> IF op = "ELDEF" THEN ReadEldef(s, filename, item[2], item[3])
                      ELSE IF op = "char" /\ isSPACE(item[2]) THEN s
                      ELSE Thrown_(s)
          [] op = "char" -> [s EXCEPT !.frames[n].parts[Len(Top(s).parts)].lines = Append(@, item[2])]
          [] op = "nothing" -> AddParts(s, <<Code(<<>>)>>)
          [] op = "W" -> AddPut(s, Base("str2text"), <<item[2]>>)
          [] op = "RI" -> AddPut(s, Base("str2code"), <<item[2]>>)
          [] op = "PUT" -> AddPut(s, parse_expression(item[2], Top(s).vars), item[3])
          [] op = "FOR" -> ReadFor(s, item[2], item[3], item[4])
          [] op = "REF" -> ReadRef(s, item[2], item[3])
          [] op = "END" -> ReadEnd(s, item[2], item[3])
          [] OTHER -> Thrown_(s)

parse_special_file(s, filename, content) ==
    LET q == FoldLeft(LAMBDA r, item : ReadItem(r, filename, item), s, content)
    IN  [q EXCEPT !.ok = @ /\ q.frames = <<>>]

parse_bare_file(s, filename, text) ==
    IF IsElement(s.elems, filename) THEN Thrown_(s)
    ELSE [s EXCEPT !.elems = add_new_element(@, filename,
            Element(0, FALSE, FALSE, prepare_to_depart_parts(<<Code(text)>>)))]

\* Templater::update; a file is [name, special, content]
update(files) ==
    FoldLeft(LAMBDA s, file :
            IF ~s.ok THEN s
            ELSE IF file.special THEN parse_special_file(s, file.name, file.content)
            ELSE parse_bare_file(s, file.name, file.content),
        [ok |-> TRUE, frames |-> <<>>,
         elems |-> [name \in {<<"str2text">>, <<"str2code">>} |-> Element(1, FALSE, TRUE, <<>>)]],
        files)

-----------------------------------------------------------------------------
(* rendering.cpp *)

NoValue == <<"none">>

descend(elems, result, what) ==
    CASE result[1] = "arr" /\ what[1] = "int" ->
            IF 0 < what[2] /\ what[2] < Len(result[2]) THEN result[2][what[2] + 1] ELSE NoValue
      [] result[1] = "dict" /\ what[1] = "str" ->
            LET i == SelectInSeq(result[2], LAMBDA entry : entry[1] = what[2])
            IN  IF i = 0 THEN NoValue ELSE result[2][i][2]
      [] result[1] = "el" /\ what[1] = "str" ->
            IF result[2] \o what[2] \in DOMAIN elems THEN <<"el", result[2] \o what[2]>> ELSE NoValue
      [] OTHER -> NoValue

RECURSIVE execute_expression(_, _, _)
execute_expression(elems, local_vars, e) ==
    FoldLeft(LAMBDA v, t :
            descend(elems, v, IF t[1] = "expr" THEN execute_expression(elems, local_vars, t[2]) ELSE t),
        IF e.V[1] = "var" THEN local_vars[e.V[2]]
        ELSE IF e.V[2] \in DOMAIN elems THEN e.V ELSE NoValue,
        e.C)

(* Ditch *)

Failed(d) == [d EXCEPT !.ok = FALSE]

append(d, text, wsp_before_newlines) ==
    FoldLeft(LAMBDA q, ch :
            IF ch = Nl
            THEN [q EXCEPT !.out = (@ \o <<Nl>>) \o [i \in 1 .. wsp_before_newlines |-> Sp],
                           !.cur_line_width = wsp_before_newlines]
            ELSE [q EXCEPT !.out = Append(@, ch), !.cur_line_width = @ + 1],
        d, text)

\* html_case_espace_string; the entities have no semicolon
html_case_espace_string(inp) ==
    LET entities == ("&" :> <<"&", "a", "m", "p">>) @@ ("<" :> <<"&", "l", "t">>)
                 @@ (">" :> <<"&", "g", "t">>) @@ ("\"" :> <<"&", "q", "u", "o", "t">>)
                 @@ ("'" :> <<"&", "#", "3", "9">>)
    IN  FlattenSeq([i \in DOMAIN inp |->
            IF inp[i] \in DOMAIN entities THEN entities[inp[i]] ELSE <<inp[i]>>])

IsJson(v) == v[1] \notin {"el", "none"}

\* the local variables of one iteration
SavedArgsPlusIter(part, saved_args, key, value) ==
    LET room == saved_args \o (IF part.keyed THEN <<NoValue>> ELSE <<>>)
                           \o (IF part.valued THEN <<NoValue>> ELSE <<>>)
    IN  [i \in DOMAIN room |->
            IF part.valued /\ i = part.where_value_var THEN value
            ELSE IF part.keyed /\ i = part.where_key_var THEN key
            ELSE room[i]]

Entries(container) ==
    [i \in DOMAIN container[2] |->
        IF container[1] = "arr" THEN <<<<"int", i - 1>>, container[2][i]>>
        ELSE <<<<"str", container[2][i][1]>>, container[2][i][2]>>]

RECURSIVE RenderElement(_, _, _, _, _)

\* RFrame_OverArray, RFrame_OverDictionary: it starts where the FOR stands
RenderFor(elems, part, local_vars, container, d) ==
    LET start == d.cur_line_width
        entries == Entries(container)
    IN  FoldLeftDomain(LAMBDA q, i :
            RenderElement(elems, part.internal_element,
                SavedArgsPlusIter(part, local_vars, entries[i][1], entries[i][2]), start,
                IF i > 1 /\ part.line_feed THEN append(q, <<Nl>>, start) ELSE q),
            d, entries)

RenderPart(elems, part, local_vars, wsp_before_newlines, d) ==
    LET Value(e) == execute_expression(elems, local_vars, e) IN
    CASE ~d.ok -> d
      [] part.type = "code" -> append(d, part.lines, wsp_before_newlines)
      [] part.type = "put" ->
            LET called == Value(part.called)
                passed == [i \in DOMAIN part.arguments |-> Value(part.arguments[i])]
            IN  IF called[1] # "el" \/ NoValue \in ToSet(passed) THEN Failed(d)
                ELSE RenderElement(elems, called[2], passed, d.cur_line_width, d)
      [] part.type = "FOR" ->
            LET over == Value(part.ref_over)
            IN  IF over[1] \in {"arr", "dict"} THEN RenderFor(elems, part, local_vars, over, d)
                ELSE Failed(d)
      [] part.type = "REF" ->
            LET over == Value(part.ref_over)
            IN  IF over = NoValue THEN Failed(d)
                ELSE RenderElement(elems, part.internal_element, Append(local_vars, over),
                                   d.cur_line_width, d)

\* RFrame_OverParts
RenderElement(elems, name, passed_args, wsp_before_newlines, d) ==
    IF ~d.ok \/ ~IsElement(elems, name) THEN Failed(d)
    ELSE LET el == elems[name] IN
    CASE /\ ~el.is_hidden
         /\ Len(passed_args) # el.arguments \/ \E i \in DOMAIN passed_args : ~IsJson(passed_args[i])
            -> Failed(d)
      [] el.base ->
            IF passed_args[1][1] # "str" THEN Failed(d)
            ELSE append(d, IF name = <<"str2text">> THEN html_case_espace_string(passed_args[1][2])
                           ELSE passed_args[1][2], wsp_before_newlines)
      [] OTHER ->
            FoldLeft(LAMBDA q, part : RenderPart(elems, part, passed_args, wsp_before_newlines, q),
                     d, el.parts)

Rendered(s, element, arguments) ==
    LET d == [out |-> <<>>, cur_line_width |-> 0, ok |-> s.ok]
    IN  IF s.ok THEN RenderElement(s.elems, element, arguments, 0, d) ELSE d

\* update and then render; `ok` is FALSE if one of them throws
render(files, element, arguments) == Rendered(update(files), element, arguments)
=============================================================================
