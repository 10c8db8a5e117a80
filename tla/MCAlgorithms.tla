---------------------------- MODULE MCAlgorithms ----------------------------
(* Short strings of bytes and letters with telling bits, fields with        *)
(* characters that are quoted, languages of one or two regions each.        *)
EXTENDS Pages

CONSTANTS Foreign, Plain, en, ru, US, GB

MCSources == BoundedSeq({0, 1, 15, 48, 64, 131, 255}, 4)

\* whole groups of four letters, and lengths that do not fit
MCEncodings ==
    LET letters == {0, 1, 4, 16, 63, Pad, Foreign}
    IN  BoundedSeq(letters, 4)
            \cup {<<63, 1, 16, 0>> \o q : q \in TupleOf(letters, 4)}
            \cup {q \o <<0, 16, Pad, Pad>> : q \in TupleOf(letters, 4)}

\* fields of up to two characters, one of them plain
MCWords == BoundedSeq({Plain, Blank, Backslash}, 2)

MCRanges == {<<>>, <<en>>, <<en, US>>, <<en, GB>>, <<ru>>, <<ru, US>>}

MCDirectories == {d \in BoundedSeq(MCRanges, 3) : IsInjective(d)}

MCWhitelists == {{<<>>}, {<<en>>}, {<<en, GB>>, <<ru>>}}

MCOrders == BoundedSeq(MCRanges, 2)

MCHeaders ==
    BoundedSeq({[lr |-> r, q |-> w] :
                    r \in {<<>>, <<en, GB>>, <<ru>>}, w \in {1, 2}}, 2)

\* up to nine numbers, all zero or none, between one colon or two, and with
\* none, one or two at either end
Colons012 == {<<>>, <<Colon>>, <<Colon, Colon>>}

Ip6Texts ==
    {l \o FlattenSeq([i \in 1 .. n |->
            IF i = n THEN <<v>> ELSE IF i \in doubled THEN <<v, Colon, Colon>> ELSE <<v, Colon>>])
       \o r : l \in Colons012, r \in Colons012, v \in {0, 1}, n \in 0 .. 9,
              doubled \in SUBSET (1 .. 8)}

MCAddressTexts ==
    {Address("inet6", text, 80) : text \in Ip6Texts}
        \cup {Address("inet6", <<Colon, Colon>>, 65536)}
        \cup {Address("inet", <<a, 0, 1, b>>, p) :
                a \in {0, 255, 256}, b \in {255, 999}, p \in {0, 65535, 65536, 99999}}
        \cup {Address("unix", path, 0) : path \in BoundedSeq({Slash, Plain, Nul}, 3)}

\* zeros and others in all places
MCAddresses ==
    {Address("inet6", [i \in 1 .. 8 |-> IF i \in zeros THEN 0 ELSE i], 80) :
        zeros \in SUBSET (1 .. 8)}
        \cup {Address("inet", <<127, 0, 0, 1>>, 80), Address("unix", <<Slash, Plain>>, 0)}

\* what is read as something else if it is not encoded, and a byte of UTF-8
MCForms ==
    BoundedSeq(BoundedSeq({97, Space, Plus, Percent}, 1)
        \X BoundedSeq({Ampersand, Equals, Plus, Percent, Space, 209}, 2), 2)

MCJars ==
    LET logins == {<<"login", [sec |-> s, nsec |-> n, nickname |-> nick, password |-> p]>> :
                    s \in {7, 1700000000}, n \in {0, 999999999}, nick \in {<<114>>, <<114, 111>>}, p \in {<<49, 50>>}}
        others == {<<"other", <<login_ \o <<59, Underscore, 52>>, <<>>>>>>,
                   <<"other", <<<<30>>, <<>>>>>>, <<"other", <<<<30>>, <<31, Pad>>>>>>}
    IN  BoundedSeq(logins \cup others, 3)

(* Templates: `d` has a name, a list, a table and a list of lists. *)

Json(text) == <<"str", text>>

MCData ==
    <<"dict", <<
        <<<<"k">>, Json(<<"l">>)>>,
        <<<<"l">>, <<"arr", <<Json(<<"<">>), Json(<<"x", Nl, "y">>)>>>>>>,
        <<<<"m">>, <<"dict", <<<<<<"p">>, Json(<<"q">>)>>, <<<<"r">>, Json(<<"s">>)>>>>>>>>,
        <<<<"n">>, <<"arr", <<<<"arr", <<Json(<<"t">>)>>>>, <<"arr", <<>>>>>>>>>> >>>>

E(name, chain) == [V |-> name, C |-> chain]
Dot(name) == <<Json(<<name>>)>>
Line(tab, nodes) == [tab |-> tab, nodes |-> nodes]
Layout(own, margin) == [own_lines |-> own, margin |-> margin, bare |-> FALSE]

Cell(body) == [name |-> "cell", arguments |-> <<"x">>, body |-> body]
ACell == Cell(<<Line(0, <<<<"text", <<"c">>>>>>), Line(1, <<<<"W", E("x", <<>>)>>>>)>>)
Main(body) == [name |-> "main", arguments |-> <<"d">>, body |-> body]
PageWith(body, layout) == <<<<"page">>, <<ACell, Main(body)>>, layout, <<MCData>>>>

\* words, a text of two lines, another found by an expression, an element
Leaves ==
    {<<"text", <<"a">>>>, <<"W", E("v", <<>>)>>,
     <<"RI", E("d", Dot("l") \o <<<<"int", 1>>>>)>>,
     <<"W", E("d", <<<<"expr", E("d", Dot("k"))>>, <<"int", 1>>>>)>>,
     <<"PUT", E("page", Dot("cell")), <<E("d", Dot("k"))>>>>}

\* a block without an operator
Nothing == <<"nothing">>

Bodies ==
    {<<Line(0, nodes)>> : nodes \in TupleOf(Leaves, 1) \cup TupleOf(Leaves, 2)}
        \cup {<<Line(i, <<l>>), Line(j, <<r>>)>> :
                l \in Leaves, r \in Leaves, i \in {0, 1}, j \in {0, 2}}
        \cup {<<Line(0, <<l>>), Line(0, <<>>), Line(1, <<l, l>>)>> : l \in Leaves}
        \cup {<<Line(0, <<Nothing, l>>), Line(1, IF blank THEN <<Nothing>> ELSE <<l, Nothing, l>>)>> :
                l \in Leaves, blank \in BOOLEAN}

IsDedented(body) == \E i \in DOMAIN body : body[i].tab = 0 /\ body[i].nodes # <<>>

\* blocks at the start of a line, after words, before words, on a second line
Around(block) ==
    LET word == <<"text", <<"w", ":">>>>
    IN  {<<Line(0, <<block>>)>>, <<Line(0, <<word, block, word>>)>>,
         <<Line(0, <<word>>), Line(2, <<block>>), Line(1, <<word>>)>>}

LaidOut ==
    {PageWith(body, layout) :
        body \in UNION {Around(<<"FOR", "_", "v", E("d", Dot("l")), inner, lf>>) :
                    inner \in {b \in Bodies : IsDedented(b)}, lf \in BOOLEAN},
        layout \in {Layout(own, margin) : own \in BOOLEAN, margin \in {0, 2}}}

\* two blocks, one in another, and the names they give
Heads ==
    ({"FOR"} \X {"_", "k"} \X {"_", "v", "d"}) \cup ({"REF"} \X {"k", "v"})

Block(head, over, node) ==
    head \o <<over, <<Line(0, <<node>>)>>>> \o (IF head[1] = "FOR" THEN <<FALSE>> ELSE <<>>)

Scoped ==
    {PageWith(<<Line(0, <<Block(h1, e1, Block(h2, e2, word))>>)>>, Layout(FALSE, 0)) :
        h1 \in Heads, h2 \in Heads,
        e1 \in {E("d", Dot("m")), E("d", Dot("n"))},
        e2 \in {E("d", Dot("l")), E("v", <<>>), E("page", <<>>)},
        word \in {<<"W", E("v", <<>>)>>, <<"W", E("k", <<>>)>>,
                  <<"W", E("d", <<<<"expr", E("k", <<>>)>>>>)>>,
                  <<"PUT", E("v", Dot("cell")), <<E("d", Dot("k"))>>>>}}

\* files without blocks
Bare ==
    {<<<<"page">>, <<[name |-> "main", arguments |-> <<>>,
                      body |-> <<Line(i, <<<<"text", <<"a">>>>>>), Line(j, <<<<"text", <<"b">>>>>>)>>]>>,
       [Layout(own, margin) EXCEPT !.bare = TRUE], <<>>>> :
        i \in {0, 1}, j \in {0}, own \in BOOLEAN, margin \in {0, 2}}

MCPages == LaidOut \cup Scoped \cup Bare
=============================================================================
