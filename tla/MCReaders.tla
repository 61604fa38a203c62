----------------------------- MODULE MCReaders -----------------------------
(* Instances of Readers for TLC, and what its readers of SELogic are to do *)
(* by the grammar.                                                         *)
EXTENDS Readers, SelogicGrammar

CONSTANTS MaxLexemes, MaxAttributes

-----------------------------------------------------------------------------
(* The calls *)

Spelled == ("a" :> "A") @@ ("b" :> "B") @@ ("plt" :> "PLT") @@ ("latch" :> "LATCH") @@ ("ias" :> "IAS")
           @@ ("p5" :> "P5") @@ ("ip" :> "IP") @@ ("rid" :> "RID") @@ ("w" :> "W") @@ ("na" :> "NA")
           @@ ("rb1" :> "RB1") @@ ("x" :> "X")
Names0 == {"", "A", "B", "PLT", "LATCH", "AND", "IAS", "MV", "P5", "IP", "RID", "W", "NA", "OFF",
           "RB1", "X", "5", "10", "10/24", "5/24", "0", "1", "IPADDR"}
MCUpper == [n \in (DOMAIN Spelled) \cup Names0 |-> IF n \in DOMAIN Spelled THEN Spelled[n] ELSE n]

Lexemes(dialect) ==
  IF dialect = "symbolic" THEN {"(", ")", "*", "+", "!", "/", "A", "AND", "1"}
  ELSE {"(", ")", "AND", "OR", "NOT", "R_TRIG", "A", "and", "2"}
Dialects == {"symbolic", "keyword"}
Calculating == {"*", "+", "!", "OR", "NOT"} \cup {"(", ")", "AND", "A"}
MCParseCalls ==
  UNION {[job : {"parse"}, dialect : {d},
          src : [1..n -> IF n < MaxLexemes THEN Lexemes(d) ELSE Lexemes(d) \cap Calculating]] :
           d \in Dialects, n \in 0..MaxLexemes}

Raw(text, layout) == [text |-> text, layout |-> layout]
Equations ==
  {Raw(t, "loose") : t \in
     {<<"A">>, <<"A", "#", "x">>, <<"A", "#", "y">>, <<"B">>, <<"1">>, <<"0">>,
      <<"A", "OR", "1">>, <<"A", "AND", "NOT", "A">>, <<"A", "AND">>, <<>>,
      <<"A", "AND", "B">>, <<"B", "AND", "A">>, <<"A", "OR", "B">>, <<"A", "AND", "A">>,
      <<"NOT", "NOT", "A">>, <<"NOT", "(", "NOT", "A", "OR", "NOT", "B", ")">>,
      <<"A", "AND", "B", "OR", "A">>, <<"A", "AND", "(", "B", "OR", "A", ")">>,
      <<"(", "A", "AND", "B", ")", "AND", "C">>, <<"A", "AND", "(", "C", "AND", "B", ")">>,
      <<"A", "OR", "(", "A", "AND", "C", ")">>, <<"A", "OR", "B", "AND", "C">>,
      <<"(", "A", "OR", "B", ")", "AND", "(", "A", "OR", "C", ")">>,
      <<"A", "OR", "A", "AND", "C">>, <<"R_TRIG", "A">>, <<"F_TRIG", "A">>}}
  \cup {Raw(<<"B", "AND", "A">>, "tight"), Raw(<<"A", "AND">>, "tight")}
Numbers ==
  {[text |-> t, class |-> "num", num |-> n] :
     <<t, n>> \in {<<"0", 0>>, <<"0.0", 0>>, <<"1", 1>>, <<"2", 2>>, <<"9", 9>>, <<"11", 11>>}}
  \cup {[text |-> "OFF", class |-> "text", num |-> 0], [text |-> "inf", class |-> "inf", num |-> 1],
        [text |-> "INF", class |-> "inf", num |-> 1], [text |-> "nan", class |-> "nan", num |-> 0]}
Lists == {[text |-> t] : t \in UNION {[1..n -> {"A", "B"}] : n \in 0..3}}
Small == {v \in Equations : Len(v.text) <= 5}
Together(job, values, kinds) == [job : {job}, values : values, kind : kinds, dialect : {"keyword"}]
MCCompareCalls ==
  Together("compare", [1..2 -> Equations], {"logic"})
  \cup Together("compare_n", [1..3 -> Small] \cup [1..1 -> Small], {"logic"})
  \cup Together("compare_n", [1..3 -> Numbers], {"number"})
  \cup Together("compare_n", [1..3 -> Lists], {"set_list", "string"})

\* Addresses and points.
Sa(names, marked, tail) == [prefix |-> "db:", names |-> names, marked |-> marked, tail |-> tail]
NoAddress == [prefix |-> "", names |-> <<"A">>, marked |-> FALSE, tail |-> <<>>]
NameLists == {<<"A">>, <<"a">>, <<"A", "B">>, <<"B", "A">>, <<"A", "">>, <<"A", "A">>}
MCShortAddresses ==
  [prefix : {"db:"}, names : NameLists, marked : {TRUE},
   tail : UNION {[1..n -> {0, 1, 2, 3, Junk}] : n \in {1, 2, 4}}]
  \cup {NoAddress, Sa(<<"A">>, FALSE, <<>>)}
Points ==
  {[s_addr |-> sa, do |-> "Pos", da |-> da] :
     sa \in {Sa(<<"A">>, FALSE, <<>>), Sa(<<"A", "B">>, TRUE, <<0, 1, 2, 3>>),
             Sa(<<"b">>, TRUE, <<1, 2>>), Sa(<<"B">>, TRUE, <<1>>), NoAddress},
     da \in {<<"stVal">>, <<"dirGeneral">>, <<"Oper", "ctlVal">>, <<"instMag", "f">>}}
Ied(attrs, private, ext_refs) ==
  [resolves |-> TRUE, attrs |-> attrs, private |-> private, ext_refs |-> ext_refs]
Declared == [bit : {"VB1", "VB2", NoBit}, key : {"pub1", "pub2"}]
ExtRefs ==
  [service_type : {"GOOSE"}, source_key : {"pub1", "pub2", NoKey}, int_addr : {"x"}]
  \cup [service_type : {"SMV"}, source_key : {"pub1"}, int_addr : {"x"}]
MCGooseDocs ==
  {[n \in {"R1", "R2"} |-> IF n = "R1" THEN Ied(<<>>, p, e)
                           ELSE [Ied(<<>>, p, e) EXCEPT !.resolves = FALSE]] :
     p \in UNION {[1..n -> Declared] : n \in 0..3}, e \in UNION {[1..n -> ExtRefs] : n \in 0..2}}
MCPointDocs ==
  {[r \in {"R1"} |-> Ied(walk, <<>>, <<>>)] : walk \in UNION {[1..n -> Points] : n \in 0..MaxAttributes}}

\* Profiles of relays.
Pattern(shape) == [shape |-> shape, text |-> "p"]
Absent == [type |-> "absent", items |-> <<>>]
Labels == [type |-> "list", items |-> <<"S", NoLabel>>]
RawBlocks ==
  {[key |-> k, xml_types |-> x, pattern |-> p, sublabels |-> l, output_sublabels |-> Absent] :
     k \in {"PLT", "plt", "LATCH"}, x \in {<<>>, <<"LATCH">>, <<"plt", "LATCH">>, <<"">>},
     p \in {Pattern("template"), Pattern(Identity), Pattern("none")}, l \in {Absent, Labels}}
MCBlockCalls ==
  [job : {"block"}, raws : {<<b>> : b \in RawBlocks} \cup
                           {<<b, c>> : b \in {x \in RawBlocks : x.sublabels = Absent},
                                       c \in {x \in RawBlocks : x.sublabels = Labels}},
   type : {"PLT", "plt", "LATCH", "latch", "AND", ""}, instance : {0, 3}]
Rule(compiles, template, names) ==
  [regex |-> [compiles |-> compiles, matches |-> names], template |-> template,
   stem |-> [n \in names |-> "I"], letter |-> [n \in names |-> IF n = "IAS" THEN "S" ELSE ""]]
Rules == {Rule(c, t, n) : c \in BOOLEAN, t \in {"", "+", "broken"}, n \in {{"IAS"}, {"IAS", "MV"}}}
Group(key, pats) == [key |-> key, patterns |-> pats]
Pat(compiles, names) == [compiles |-> compiles, matches |-> names]
MCAnalogCalls ==
  [job : {"analog"}, name : {"ias", "MV", "IAS"},
   rules : {<<r, q>> : r \in Rules, q \in Rules},
   windings : {"S" :> "1"},
   groups : {<<Group("K", <<p>>), Group(k, <<Pat(TRUE, {"MV"})>>)>> :
               k \in {"", "M"}, p \in {Pat(c, n) : c \in BOOLEAN, n \in {{"IAS"}, {"MV", "IAS"}}}}]
Source(file, key) == [kind |-> "source", file |-> file, key |-> key]
SettingsFile(name, text) == [name |-> name, readable |-> TRUE, text |-> text]
Line(key, value) == <<key, Comma>> \o value \o <<LineEnd>>
\* One source, and every text of a line or none and up to MaxLexemes lexemes.
FirstLines == {<<>>, <<"rid", Comma, "P5", LineEnd>>, <<"IP", Comma, LineEnd>>,
               <<Space, "ip", Space, Comma, Space>>}
SettingTexts ==
  {a \o b : a \in FirstLines,
            b \in UNION {[1..n -> {"IP", "10", Space, LineEnd, Comma, Quote}] : n \in 0..MaxLexemes}}
\* Every profile, and directories of up to two files of that name.
SettingFiles ==
  {SettingsFile(n, Line(k, v)) : n \in {"p5", "P5"}, k \in {"ip", "IPADDR", "rid"},
                                v \in {<<"10/24">>, <<Quote, "10", Space, "5", Quote>>, <<>>}}
  \cup {[SettingsFile("P5", Line("IP", <<"10">>)) EXCEPT !.readable = FALSE],
        SettingsFile("P5", Line("IPADDR", <<"10", Space, "5/24", "5">>) \o Line("rid", <<Space>>)),
        SettingsFile("P5", Line("rid", <<"10/24">>) \o Line("ip", <<"5">>) \o Line("ip", <<"10">>)),
        SettingsFile("RID", Line("ip", <<"5">>))}
MCIdentifierCalls ==
  [job : {"identifiers"},
   raw : [ip : {Source("", "IP"), Source("P5", "IP"), Source("P5", "")},
          relay_id : {NoneYet, Source("P5", "RID"), Source("P5", "")},
          mac_address : {NoneYet, Source("p5", "IP")}],
   dir : {<<>>} \cup {<<f>> : f \in SettingFiles} \cup {<<f, g>> : f \in SettingFiles, g \in SettingFiles}]
  \cup [job : {"identifiers"},
        raw : {[ip |-> Source("P5", "IP"), relay_id |-> NoneYet, mac_address |-> NoneYet]},
        dir : {<<SettingsFile("p5", t)>> : t \in SettingTexts}]

\* Files of a registry, the first of them the overlay's.
Model(parts) == [sel |-> FALSE, parts |-> parts]
Plain411 == Model(<<"411L">>)
Models == {Plain411, Model(<<"411L", "A">>), Model(<<"751">>), [sel |-> TRUE, parts |-> <<"411L">>]}
Files == [model : Models, aliases : {<<>>, <<Plain411>>, <<Model(<<"411L", "A">>)>>}]
MCLookupCalls ==
  [job : {"lookup"}, files : [1..3 -> Files], registry : {"relay_models", "wordbits"},
   relaytype : Models \cup {[sel |-> TRUE, parts |-> <<"411L", "A">>]}]

\* Word bits and device profiles.
Of(bi, bo, ao) == [k \in Kinds |-> CASE k = "BI" -> bi [] k = "BO" -> bo [] k = "AO" -> ao [] OTHER -> {}]
Entries ==
  [model : {Plain411.parts}, model_aliases : {{}}, always_valid : {{}, {"OFF"}},
   check_kinds : {{"undeclared"}, {"BI", "BO", "AO"}},
   kinds : {Of({}, {}, {}), Of({"W"}, {"RB1"}, {"X"})}, bits : {{}, {"W"}}, patterns : {{}, {"X"}}]
Values0 == {<<"w">>, <<"NA">>, <<"na">>, <<"">>, <<"OFF">>, <<"RB1", "NA">>, <<"NA", "NA">>,
            <<"X", "5">>, <<"5">>}
MCCheckCalls ==
  [job : {"check"}, wbs : {LoadEntry(e) : e \in Entries} \cup {None}, kind : Kinds,
   values : {<<v, w>> : v \in Values0, w \in Values0}]
Doc(damage, root, points, models) ==
  [damage |-> damage, root |-> root, points |-> points, models |-> models, id |-> <<damage, points, models>>]
ProfileRoot == "DNP3DeviceProfileDocument"
Docs == {Doc("none", ProfileRoot, Of({}, {"rb1"}, {}), <<<<"411L", "A">>, <<"411L">>>>),
         Doc("none", ProfileRoot, Of({"W"}, {}, {"x", ""}), <<<<"411L", "2">>>>),
         Doc("none", ProfileRoot, Of({}, {}, {""}), <<<<"411L">>>>),
         Doc("none", "schema", Of({"W"}, {}, {}), <<<<"411L">>>>),
         Doc("malformed", ProfileRoot, Of({"W"}, {}, {}), <<<<"411L">>>>),
         Doc("foreign", ProfileRoot, Of({"W"}, {}, {}), <<<<"411L">>>>)}
Members(n) == [order : {n}, role : {"dnpdp", "other", "schema"}, oversized : BOOLEAN, doc : Docs]
Archives ==
  {[zip |-> TRUE, members |-> {m, n}] : m \in Members(1), n \in Members(2)}
  \cup {[zip |-> FALSE, members |-> {[order |-> 1, role |-> "other", oversized |-> FALSE, doc |-> d]}] :
          d \in Docs} \cup {[zip |-> TRUE, members |-> {}]}
MCImportCalls ==
  [job : {"import"}, data : Archives, existing : {e \in Entries : e.patterns = {}}, merge_kinds : BOOLEAN,
   values : {Values0}]

MCCidr == ("10/24" :> <<"10">>) @@ ("5/24" :> <<"5">>)

-----------------------------------------------------------------------------
(* Properties of the readers of SELogic *)

\* selogic/parser.py: a text is read as its grammar and precedences say, or not
\* at all, and neither the tree nor its canonical form changes its value.
ParserReadsTheGrammar ==
  Answered("parse") => ReadsTheGrammar(Tokens(call.src, call.dialect), answer, Canonicalize(answer))

\* compare_logic: two equations are equivalent or better only if they are one
\* text or one function of the bits, and always so within the truth table's limit.
VerdictIsFunction ==
  Answered("compare") =>
    LET a == call.values[1]
        b == call.values[2]
        bits == TableBits(a, b, call.dialect)
    IN  VerdictIsTheFunction(a, b, bits,
          SameFunction(Tokens(Body(a), call.dialect), Tokens(Body(b), call.dialect), bits),
          answer.verdict, CompareLogic(b, a, call.dialect).verdict)
=============================================================================
