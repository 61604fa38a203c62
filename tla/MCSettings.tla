----------------------------- MODULE MCSettings -----------------------------
(* Instances of SettingsModel for TLC: file 1 holds logic, file 2 the reports, *)
(* file 3 is a second spelling of the name of file 1, file 4 is in no catalogue. *)
EXTENDS SettingsModel


K(stem, digits, sfx) == [stem |-> stem, digits |-> digits, sfx |-> sfx]
MCNoKey == K("", "", "")
W1 == K("W", "1", "")
W2 == K("W", "01", "")
V(looks) == [looks |-> looks, lhs |-> MCNoKey, bit |-> MCNoKey, na |-> FALSE]
Assign(lhs) == [V("text") EXCEPT !.lhs = lhs]
Bit(bit) == [V("enum") EXCEPT !.bit = bit]
NA == [V("enum") EXCEPT !.bit = K("NA", "", ""), !.na = TRUE]
Pair(key, v) == [shape |-> "pair", key |-> key, value |-> v]
Shape(shape, key) == [shape |-> shape, key |-> key, value |-> V("blank")]

MCGroupOf ==
  [f \in Family |-> [n \in FileName |->
     CASE n \in {1, 3} -> [key |-> "L1", has_logic |-> TRUE]
       [] n = 2 -> [key |-> IF f = "4xx" THEN "R1" ELSE "R", has_logic |-> FALSE]
       [] n = 4 -> NoGroup]]

Headers == {Shape("info", MCNoKey), Shape("section", W1)}
Logic3xx == {Pair(K("SET", "1", ""), V("both")), Pair(K("RST", "01", ""), V("symbolic")),
             Pair(K("SV", "1", ""), V("symbolic")), Pair(K("SV", "1", "PU"), V("number")),
             Pair(K("SV", "01", "DO"), V("number")), Pair(K("LT", "1", ""), V("number"))}
Logic4xx == {Pair(K("PROTSEL", "1", ""), Assign(K("PLT", "01", "S"))),
             Pair(K("AUTO_", "1", ""), Assign(K("PCT", "01", "PU"))),
             Pair(K("PROTSEL", "01", ""), Assign(K("PCN", "01", "R"))),
             Pair(K("PROTSEL", "1", ""), Assign(K("PCN", "01", "CU"))),
             Pair(K("PROTSEL", "1", ""), Assign(K("PSV", "01", ""))),
             Pair(K("PROTSEL", "1", ""), Assign(K("PLT", "01", ""))),
             Pair(K("PROTSEL", "1", ""), V("blank"))}
Logic7xx == {Pair(K("RST", "1", ""), V("keyword")), Pair(K("SV", "01", ""), V("both")),
             Pair(K("SV", "1", "PU"), V("number")), Pair(K("OUT", "1", ""), V("enum")),
             Pair(K("OUT", "1", "FS"), V("enum")), Pair(K("SC", "1", "CU"), V("enum")),
             Pair(K("MV", "1", ""), V("text")),
             Pair(K("TMB", "1", "A"), V("enum")), Pair(K("LT", "01", ""), V("number"))}
Reports4xx == {Pair(K("SITM", "1", ""), Bit(W1)), Pair(K("SITM", "01", ""), Bit(W2)),
               Pair(K("SNAME", "1", ""), V("text")), Pair(K("SITM", "2", ""), Bit(W1)),
               Pair(K("SHMI", "2", ""), V("enum")), Pair(K("SITM", "2", ""), V("blank"))}
Reports7xx == {Pair(K("SER", "1", ""), V("text")), Pair(K("ALIAS", "1", ""), Bit(W1)),
               Pair(K("ALIAS", "01", ""), Bit(K("SER", "1", ""))),
               Pair(K("ALIAS", "1", ""), NA), Pair(W1, V("number"))}

MCTextsOf ==
  [f \in Family |-> [n \in FileName |->
     CASE n = 1 -> Headers \cup (CASE f = "3xx" -> Logic3xx [] f = "4xx" -> Logic4xx
                                   [] f = "7xx" -> Logic7xx)
       [] n = 2 -> Headers \cup {Shape("other", MCNoKey)} \cup (IF f = "4xx" THEN Reports4xx ELSE Reports7xx)
       [] OTHER -> {Shape("info", MCNoKey), Shape("section", W2), Shape("relaytype", W2),
                    Pair(K("LER", "", ""), V("number"))}]]
MCKey == {K("W", "1", ""), K("W", "01", ""), K("NA", "", ""), K("LER", "", "")}
         \cup (UNION {UNION {{t.key, t.value.lhs} : t \in MCTextsOf[f][n]} :
                        f \in Family, n \in FileName} \ {MCNoKey})
MCValue == UNION {{t.value : t \in MCTextsOf[f][n]} : f \in Family, n \in FileName}
=============================================================================
