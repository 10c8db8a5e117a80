---------------------------- MODULE Localizator ----------------------------
(***************************************************************************)
(* Which translation a page is rendered with: the files found in the       *)
(* directory of languages, the configured whitelist and force-order, and   *)
(* the Accept-Language header of the request (localizator.cpp,             *)
(* accept_language.cpp).  A language range is a sequence of subtags; the   *)
(* empty one is "*".  A prefix is as long as it has subtags.               *)
(***************************************************************************)
EXTENDS Integers, SequencesExt

(* The constructor.  dir is what readdir returns, list the whitelist, order  *)
(* force-order; fs the files that are read.                                 *)

languageRangeGetPrefixes(lr) == {SubSeq(lr, 1, n) : n \in 0 .. Len(lr)}

isInWhitelist(lr, list) == languageRangeGetPrefixes(lr) \cap list # {}

collect_lang_dir_content(dir, list) ==
    LET result[n \in 0 .. Len(dir)] ==
            IF n = 0 THEN <<>>
            ELSE result[n - 1] \o (IF isInWhitelist(dir[n], list) THEN <<dir[n]>> ELSE <<>>)
    IN  result[Len(dir)]

Redundant(fs) ==
    \E i, j \in 1 .. Len(fs) :
        /\ i < j
        /\ \/ fs[j] \in languageRangeGetPrefixes(fs[i])
           \/ fs[i] \in languageRangeGetPrefixes(fs[j])

AllPrefixes(fs) == UNION {languageRangeGetPrefixes(fs[k]) : k \in 1 .. Len(fs)}

pref_to_files(fs, prefix) ==
    {k \in 1 .. Len(fs) : prefix \in languageRangeGetPrefixes(fs[k])}

inf_bad_order == 999999999

\* Broken: a shorter prefix that comes later wins.
IsBetter_last(found, prefix) == TRUE

IsBetter(found, prefix) == found.length <= Len(prefix)

\* For a file, the longest prefix of it in force_order so far, and where.
assignment(file, order) ==
    LET found[i \in 0 .. Len(order)] ==
            IF i = 0 THEN [length |-> 0, place |-> inf_bad_order]
            ELSE IF /\ order[i] \in languageRangeGetPrefixes(file)
                    /\ IsBetter(found[i - 1], order[i])
            THEN [length |-> Len(order[i]), place |-> i]
            ELSE found[i - 1]
    IN  found[Len(order)]

\* The candidate of the best place; the last of several.
bestSoFar(candidates, places) ==
    CHOOSE k \in candidates : \A l \in candidates :
        places[k].place < places[l].place
            \/ (places[k].place = places[l].place /\ k >= l)

Localizator(dir, list, order) ==
    LET fs == collect_lang_dir_content(dir, list)
        bad == \/ fs = <<>>
               \/ Redundant(fs)
               \/ Range(order) \ AllPrefixes(fs) # {}
        places == [k \in 1 .. Len(fs) |-> assignment(fs[k], order)]
    IN  [state |-> IF bad THEN "failed" ELSE "ready",   \* an exception, or none
         files |-> fs,
         prefix_to_file |->
            IF bad THEN <<>>
            ELSE [p \in AllPrefixes(fs) |->
                    bestSoFar(pref_to_files(fs, p), places)]]

-----------------------------------------------------------------------------
(* A request.  A header is a sequence of ranges and weights, [lr, q]. *)

\* Broken: the header's own order.
parse_header_unsorted(header) == {[i \in 1 .. Len(header) |-> header[i].lr]}

\* Sorted by weight; std::sort leaves equal weights in any order.
parse_header_Accept_Language(header) ==
    {[i \in 1 .. Len(header) |-> header[perm[i]].lr] :
        perm \in {p \in Bijection(1 .. Len(header), 1 .. Len(header)) :
            \A i, j \in 1 .. Len(header) :
                i < j => header[p[i]].q >= header[p[j]].q}}

get_right_locale(prefix_to_file, preferred_langs) ==
    LET known == {i \in 1 .. Len(preferred_langs) :
                    preferred_langs[i] \in DOMAIN prefix_to_file}
    IN  prefix_to_file[IF known = {} THEN <<>> ELSE preferred_langs[Min(known)]]
=============================================================================
