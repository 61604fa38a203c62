------------------------------ MODULE MCDnpMap ------------------------------
(* Instances of DnpMap for TLC. *)
EXTENDS DnpMap, TLC
CONSTANTS ai, sca, orphan, mindist, d1, d2, d3, d4, x, brk

\* AI_1, AI_SCA1, AI_SCA5 without its AI_5, and MINDIST.
MCPointOf ==
  LET P(kind, index, mod) == [kind |-> kind, index |-> index, mod |-> mod]
  IN  (ai :> P("AI", 1, "none")) @@ (sca :> P("AI", 1, "SCA"))
      @@ (orphan :> P("AI", 5, "SCA")) @@ (mindist :> NoPoint)

Header(shape, name) == [shape |-> shape, key |-> NoKey, quotes |-> 0, body |-> name]
Pair(k, quotes, body) == [shape |-> "pair", key |-> k, quotes |-> quotes, body |-> body]
\* A file as QuickSet writes it, one line of it twice; one whose section name is
\* taken, with a setting that is not quoted, a value in quotes of its own, and a
\* line in [INFO] that looks like a point; one that falls back to a name that is
\* taken, too; and an empty one.
MCTexts ==
  << <<Header("info", x), Header("section", d3), Pair(ai, 1, x), Pair(sca, 1, x),
       Pair(ai, 1, x), Header("other", x)>>,
     <<Header("info", x), Pair(ai, 1, x), Header("section", d3), Pair(ai, 0, x),
       Pair(orphan, 1, x), Pair(mindist, 2, x)>>,
     <<Header("section", d3)>>,
     <<>> >>
MCStem == <<d1, d2, d3, d4>>
=============================================================================
