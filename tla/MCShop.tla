------------------------------- MODULE MCShop -------------------------------
(* One product with two tagged images and one that may be created; two      *)
(* requests, two colour deletions, one question, the script.                *)
EXTENDS Shop

CONSTANTS p1, p2, k1, k2, k3, k4, k5, red, green, lime,
          red_family, green_family, lime_family, new_family, w1, w2, text, ad1, c1, c2

MCNewKeys == <<<<k3>>, <<k4>>>>
MCLists == {<<>>, <<k2, k5>>}
MCFirstRow == [p \in Products |-> IF p = p1 THEN [images |-> <<k1, k2>>, published |-> TRUE, category |-> c1] ELSE None]
MCFirstTags == {<<p1, k1, red>>, <<p1, k1, lime>>, <<p1, k2, green>>}
MCFirstVectors == {<<p1, k1, None>>, <<p1, k2, None>>}
MCFirstFamily == [c \in Colours |-> IF c = red THEN red_family ELSE IF c = green THEN green_family ELSE IF c = lime THEN lime_family ELSE Unassigned]
MCFirstSynonym == [t \in Terms |-> IF t = w1 THEN red ELSE None]
MCNameOf == [c \in Colours |-> IF c = red THEN 3 ELSE IF c = Sentinel THEN 1 ELSE 2]
MCSpells == [t \in Terms |-> IF t = w2 THEN {2} ELSE {}]
MCResembles == [t \in Terms |-> IF t = w2 THEN {2} ELSE {}]
MCNear == [t \in Terms |-> {t}]
MCMainFamily == [p \in Products |-> red_family]

\* The mixes of a history: two requests, a request with two deletions, with the script or
\* with a question, and so on.  Counts(2, 1, 0, 0, 0) takes six times as long.
Counts(E, D, S, R, C) == [edits : 0..E, drops : 0..D, scripts : 0..S, reads : 0..R, changes : 0..C]
MCMix == UNION {Counts(2, 0, 0, 0, 0), Counts(1, 2, 0, 0, 0), Counts(1, 0, 1, 0, 0),
                Counts(1, 0, 0, 1, 0), Counts(0, 1, 0, 1, 1)}
MCColourSets == {{red}, {green, Sentinel}}
=============================================================================
