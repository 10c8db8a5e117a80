-------------------------- MODULE TemplateMeaning --------------------------
(***************************************************************************)
(* What the author of a template means by it, and how it may be laid out   *)
(* in its file.  A body is a sequence of lines [tab, nodes], tabbed        *)
(* relative to each other; a node is <<"text", characters>>, <<"W", e>>,   *)
(* <<"RI", e>>, <<"PUT", e, es>>, <<"FOR", key, value, e, body, lf>>,      *)
(* <<"REF", name, e, body>> or <<"nothing">>, a block without an operator. *)
(* Variables have names and values here, and a column is read off what is  *)
(* printed: no slots, no widths, no parts.                                 *)
(* An element of a file is [name, arguments, body].                        *)
(***************************************************************************)
EXTENDS Template

NoPage == <<"no page">>

Spaces(n) == [i \in 1 .. n |-> Sp]

(* The file: blocks may be in one line, or on lines of their own *)

Chars(text) == [i \in DOMAIN text |-> <<"char", text[i]>>]

Deeper(layout) == [layout EXCEPT !.margin = @ + 1]

RECURSIVE Printed(_, _)

PrintedNode(node, layout) ==
    CASE node[1] = "text" -> Chars(node[2])
      [] node[1] = "FOR" -> <<SubSeq(node, 1, 4)>> \o Printed(node[5], Deeper(layout))
                                \o <<<<"END", "FOR", node[6]>>>>
      [] node[1] = "REF" -> <<SubSeq(node, 1, 3)>> \o Printed(node[4], Deeper(layout))
                                \o <<<<"END", "REF", TRUE>>>>
      [] OTHER -> <<node>>

PrintedLine(line, layout) ==
    (IF line.nodes = <<>> THEN <<>> ELSE Chars(Spaces(layout.margin + line.tab)))
        \o FlattenSeq([i \in DOMAIN line.nodes |-> PrintedNode(line.nodes[i], layout)])

\* between ELDEF, FOR or REF and its end
Printed(body, layout) ==
    LET around == IF layout.own_lines THEN Chars(<<Nl>>) ELSE <<>>
    IN  around
        \o FlattenSeq([i \in DOMAIN body |->
            (IF i = 1 THEN <<>> ELSE Chars(<<Nl>>)) \o PrintedLine(body[i], layout)])
        \o around \o Chars(Spaces(layout.margin))

PrintedFile(name, elements, layout) ==
    [name |-> name, special |-> TRUE,
     content |-> FlattenSeq([i \in DOMAIN elements |->
        <<<<"ELDEF", elements[i].name, elements[i].arguments>>>>
            \o Printed(elements[i].body, layout) \o <<<<"END", "ELDEF", TRUE>>>> \o Chars(<<Nl>>)])]

(* The page *)

Defined(file, elements) ==
    LET Full(i) == IF elements[i].name = "main" THEN file ELSE Append(file, elements[i].name)
        names == {Full(i) : i \in DOMAIN elements}
        known == UNION {{SubSeq(n, 1, k) : k \in 1 .. Len(n)} : n \in names}
    IN  [n \in known |-> IF n \in names
                         THEN <<elements[CHOOSE i \in DOMAIN elements : Full(i) = n]>>
                         ELSE <<>>]

RECURSIVE Meant(_, _, _)
Meant(defs, env, e) ==
    FoldLeft(LAMBDA v, t : descend(defs, v, IF t[1] = "expr" THEN Meant(defs, env, t[2]) ELSE t),
        IF e.V \in DOMAIN env THEN env[e.V]
        ELSE IF <<e.V>> \in DOMAIN defs THEN <<"el", <<e.V>>>> ELSE NoValue,
        e.C)

\* No block of this kind gives a second meaning to a name.
RECURSIVE NamesAreNew(_, _, _)
NamesAreNew(kind, body, names) ==
    \A i \in DOMAIN body : \A k \in DOMAIN body[i].nodes :
        LET node == body[i].nodes[k]
            new == SelectSeq(SubSeq(node, 2, IF node[1] = "FOR" THEN 3 ELSE 2),
                             LAMBDA n : n # "_")
        IN  node[1] \in {"FOR", "REF"} =>
                /\ node[1] = kind => IsInjective(new) /\ ToSet(new) \cap names = {}
                /\ NamesAreNew(kind, node[Len(node) - (IF node[1] = "FOR" THEN 1 ELSE 0)],
                               names \cup ToSet(new))

ElementsNamesAreNew(kind, elements) ==
    \A i \in DOMAIN elements :
        NamesAreNew(kind, elements[i].body, ToSet(elements[i].arguments))

Column(out) == Len(out) - SelectLastInSeq(out, LAMBDA ch : ch = Nl)

\* text printed at `out`, whose further lines begin at column m
Placed(out, text, m) ==
    out \o FlattenSeq([i \in DOMAIN text |->
        IF text[i] = Nl THEN <<Nl>> \o Spaces(m) ELSE <<text[i]>>])

RECURSIVE Page(_, _, _, _, _)

PageOfFor(defs, node, env, out) ==
    LET over == Meant(defs, env, node[4])
        entries == IF over[1] \in {"arr", "dict"} THEN Entries(over) ELSE <<>>
        m == Column(out)
        Bound(i) == [n \in {node[2], node[3]} \ {"_"} |->
                        IF n = node[3] THEN entries[i][2] ELSE entries[i][1]]
    IN  IF over[1] \notin {"arr", "dict"} THEN NoPage
        ELSE FoldLeftDomain(LAMBDA q, i :
                IF q = NoPage THEN NoPage
                ELSE Page(defs, node[5], Bound(i) @@ env, m,
                          IF i > 1 /\ node[6] THEN Placed(q, <<Nl>>, m) ELSE q),
                out, entries)

PageOfRef(defs, node, env, out) ==
    LET over == Meant(defs, env, node[3])
    IN  IF over = NoValue THEN NoPage
        ELSE Page(defs, node[4], (node[2] :> over) @@ env, Column(out), out)

PageOfPut(defs, node, env, out) ==
    LET called == Meant(defs, env, node[2])
        passed == [i \in DOMAIN node[3] |-> Meant(defs, env, node[3][i])]
    IN  IF \/ called[1] # "el" \/ \E i \in DOMAIN passed : ~IsJson(passed[i]) THEN NoPage
        ELSE IF defs[called[2]] = <<>> THEN NoPage
        ELSE LET el == defs[called[2]][1] IN
             IF Len(el.arguments) # Len(passed) THEN NoPage
             ELSE Page(defs, el.body,
                       [a \in ToSet(el.arguments) |-> passed[Position(el.arguments, a)]],
                       Column(out), out)

PageOfNode(defs, node, env, m, out) ==
    CASE out = NoPage -> NoPage
      [] node[1] = "nothing" -> out
      [] node[1] = "text" -> Placed(out, node[2], m)
      [] node[1] \in {"W", "RI"} ->
            LET v == Meant(defs, env, node[2])
            IN  IF v[1] # "str" THEN NoPage
                ELSE Placed(out, IF node[1] = "W" THEN html_case_espace_string(v[2]) ELSE v[2],
                           Column(out))
      [] node[1] = "PUT" -> PageOfPut(defs, node, env, out)
      [] node[1] = "FOR" -> PageOfFor(defs, node, env, out)
      [] node[1] = "REF" -> PageOfRef(defs, node, env, out)

\* the lines of a body, the first at `out` and the others from column m
Page(defs, body, env, m, out) ==
    FoldLeftDomain(LAMBDA q, i :
        FoldLeft(LAMBDA r, node : PageOfNode(defs, node, env, m, r),
            IF q = NoPage THEN NoPage
            ELSE Placed(q, (IF i = 1 THEN <<>> ELSE <<Nl>>), m)
                    \o (IF body[i].nodes = <<>> THEN <<>> ELSE Spaces(body[i].tab)),
            body[i].nodes),
        out, body)

PageOf(file, elements, arguments) ==
    IF ~ElementsNamesAreNew("FOR", elements) THEN NoPage
    ELSE LET defs == Defined(file, elements)
             el == defs[file][1]
         IN  IF Len(arguments) # Len(el.arguments) THEN NoPage
             ELSE Page(defs, el.body,
                       [a \in ToSet(el.arguments) |-> arguments[Position(el.arguments, a)]],
                       0, <<>>)
=============================================================================
