------------------------------- MODULE Pages -------------------------------
(***************************************************************************)
(* The last of the algorithms: a template is parsed and rendered           *)
(* (parser.cpp, rendering.cpp), and the page is what the template means.   *)
(* A template is <<file, elements, layout, arguments>>.                    *)
(***************************************************************************)
EXTENDS Algorithms, TemplateMeaning

FileOf(page) ==
    LET file == PrintedFile(page[1], page[2], page[3])
        text == Printed(page[2][1].body, page[3])
    IN  IF page[3].bare
        THEN [file EXCEPT !.special = FALSE, !.content = [i \in DOMAIN text |-> text[i][2]]]
        ELSE file

RenderedPage(page) == render(<<FileOf(page)>>, page[1], page[4])

\* A page is what the template's author means, however deep its blocks are and
\* however they are laid out: the lines of a block come out at the column where
\* it stands, tabbed among themselves as they were, and what is written into a
\* line keeps to its column; a name has the value of the nearest block around
\* that gives it one.  And if it means nothing, as when a FOR gives a name a second
\* time, there is no page.  It is not so for a REF that does: local_var_names gets
\* no second entry (parser.cpp:446) while passed_args does (rendering.cpp:303).
PageIsRendered ==
    Called("page") /\ result # NotYet /\ ElementsNamesAreNew("REF", call[2][2]) =>
        LET page == PageOf(call[2][1], call[2][2], call[2][4])
        IN  IF page = NoPage THEN ~result.ok ELSE result.ok /\ result.out = page
=============================================================================
