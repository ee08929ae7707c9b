------------------------------- MODULE LibMap -------------------------------
(***************************************************************************)
(* getLibMap (eglibc elf/dl-runtime.c): the search for libelfperf.so from  *)
(* the link map of the object whose call is being bound.  The link maps    *)
(* are numbered in list order; 1 is the main program.  Whether _dl_fixup   *)
(* redirects a call at all depends on what this search finds.              *)
(***************************************************************************)
EXTENDS Naturals, Sequences

CONSTANT MaxLibs    \* bound: length of the list of link maps

ASSUME LibMapAssumption == MaxLibs \in Nat \ {0}

VARIABLES
    matches,        \* link map -> its l_name contains libname
    l, tmp_map,
    lib_map,        \* 0 is NULL
    at

mapVars == <<matches, l, tmp_map, lib_map, at>>

LibMapInit ==
    /\ \E n \in 1..MaxLibs : matches \in [1..n -> BOOLEAN]
    /\ l \in DOMAIN matches
    /\ tmp_map = l
    /\ lib_map = 0
    /\ at = "start"

LastMap == Len(matches)

\* The tests before the loops.
Start ==
    /\ at = "start"
    /\ at' = IF matches[l] THEN "done"
             ELSE IF l > 1 THEN "prev" ELSE IF l < LastMap THEN "next" ELSE "done"
    /\ lib_map' = IF matches[l] THEN l ELSE lib_map
    /\ UNCHANGED <<matches, l, tmp_map>>

\* Faulty: the loop stops in front of the second link map.
SearchPreviousShort ==
    /\ at = "prev"
    /\ IF tmp_map > 2 /\ ~matches[tmp_map]
       THEN tmp_map' = tmp_map - 1 /\ UNCHANGED <<lib_map, at>>
       ELSE /\ lib_map' = IF tmp_map > 2 THEN tmp_map ELSE lib_map
            /\ at' = "done"
            /\ UNCHANGED tmp_map
    /\ UNCHANGED <<matches, l>>

\* Faulty: the loop leaves with the object before the one that matches.
SearchPreviousPast ==
    /\ at = "prev"
    /\ IF tmp_map > 1 /\ ~matches[tmp_map]
       THEN tmp_map' = tmp_map - 1 /\ UNCHANGED <<lib_map, at>>
       ELSE /\ lib_map' = IF tmp_map > 1 THEN tmp_map - 1 ELSE lib_map
            /\ at' = "done"
            /\ UNCHANGED tmp_map
    /\ UNCHANGED <<matches, l>>

\* while (tmp_map->l_prev != NULL): the first link map is never tested.
SearchPrevious ==
    /\ at = "prev"
    /\ IF tmp_map > 1 /\ ~matches[tmp_map]
       THEN tmp_map' = tmp_map - 1 /\ UNCHANGED <<lib_map, at>>
       ELSE /\ lib_map' = IF tmp_map > 1 THEN tmp_map ELSE lib_map
            /\ at' = "done"
            /\ UNCHANGED tmp_map
    /\ UNCHANGED <<matches, l>>

\* while (tmp_map->l_next != NULL): the last link map is never tested.
SearchNext ==
    /\ at = "next"
    /\ IF tmp_map < LastMap /\ ~matches[tmp_map]
       THEN tmp_map' = tmp_map + 1 /\ UNCHANGED <<lib_map, at>>
       ELSE /\ lib_map' = IF tmp_map < LastMap THEN tmp_map ELSE lib_map
            /\ at' = "done"
            /\ UNCHANGED tmp_map
    /\ UNCHANGED <<matches, l>>

LibMapDone == at = "done" /\ UNCHANGED mapVars

LibMapNext == Start \/ SearchPrevious \/ SearchNext \/ LibMapDone

LibMapSpec == LibMapInit /\ [][LibMapNext]_mapVars

-----------------------------------------------------------------------------
(* Properties *)

Between(a, b) == {j \in DOMAIN matches : a < j /\ j < b}

\* A result is a library of that name, and the first one met: no other lies
\* between it and the caller.
NearestFound ==
    lib_map # 0 =>
        /\ matches[lib_map]
        /\ \A j \in Between(lib_map, l) \cup Between(l, lib_map) : ~matches[j]

\* LD_PRELOAD puts libelfperf.so right after the main program.  There it is
\* found from every object, as long as it is not the last of the list.
PreloadedIsFound ==
    at = "done" /\ LastMap > 2 /\ matches[2] => lib_map # 0
=============================================================================
