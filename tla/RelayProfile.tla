---------------------------- MODULE RelayProfile ----------------------------
(***************************************************************************)
(* models/relay_models.py: one relay profile -- what its JSON is loaded    *)
(* into and what a viewer asks it: the block of an XML type, the label of  *)
(* a pin, the bit derived from an output, the group and the Fast Meter     *)
(* name of an analogue, the identifiers of a relay -- and the profile of a *)
(* RELAYTYPE.  A regular expression is the set of the names it matches.    *)
(***************************************************************************)
EXTENDS Naming

NoneYet == [kind |-> "none"]        \* Python's None, for a record
NoLabel == "none"
Identity == "IDENTITY"

-----------------------------------------------------------------------------
(* Blocks: _parse_block, the index of _load_one, and what asks for them *)

\* gle_xml_type: absent, a name, or a list whose blanks do not count.
XmlTypes(key, raw) ==
  LET named == Those(raw.xml_types, {t \in ToSet(raw.xml_types) : Upper[t] /= ""})
  IN  IF named = <<>> THEN <<key>> ELSE named
\* _parse_sublabels: a list, whose nulls are pins without a glyph, or nothing.
Sublabels(raw) ==
  IF raw.type /= "list" THEN NoneYet
  ELSE [kind |-> "labels",
        of |-> [i \in DOMAIN raw.items |-> IF raw.items[i] = NoLabel THEN "" ELSE raw.items[i]]]
ParseBlock(raw) ==
  [kind |-> "block", key |-> raw.key, xml_types |-> XmlTypes(raw.key, raw),
   pattern |-> raw.pattern, input |-> Sublabels(raw.sublabels),
   output |-> Sublabels(raw.output_sublabels)]

\* blocks and blocks_by_xml_type: the last block of a name wins in both.
Blocks(raws) ==
  FoldLeft(LAMBDA f, raw : With(f, Upper[raw.key], ParseBlock(raw)), Empty, raws)
Registered(by_xml, raw) ==
  FoldLeft(LAMBDA f, t : With(f, Upper[t], ParseBlock(raw)), by_xml, XmlTypes(raw.key, raw))
ByXmlType(raws) == FoldLeft(Registered, Empty, raws)

BlockForXmlType(profile, t) ==
  LET keys == <<t, Upper[t]>>
      k == FirstIn(keys, DOMAIN profile.by_xml)
      m == FirstIn(keys, DOMAIN profile.blocks)
  IN  CASE t = "" -> NoneYet
        [] t /= "" /\ k > 0 -> profile.by_xml[keys[k]]
        [] t /= "" /\ k = 0 /\ m > 0 -> profile.blocks[keys[m]]
        [] OTHER -> NoneYet

\* Indices count from 0.  "" is a pin that carries no glyph.
PortLabel(profile, t, side, index) ==
  LET block == BlockForXmlType(profile, t)
      labels == IF side = "input" THEN block.input ELSE block.output
  IN  CASE block = NoneYet -> NoLabel
        [] block /= NoneYet /\ labels = NoneYet -> NoLabel
        [] OTHER -> IF index + 1 \in DOMAIN labels.of THEN labels.of[index + 1] ELSE NoLabel

\* The lookup of derived_bit_for.
DerivedBlock(profile, t) ==
  CASE t \in DOMAIN profile.by_xml -> profile.by_xml[t]
    [] t \notin DOMAIN profile.by_xml /\ t \in DOMAIN profile.blocks -> profile.blocks[t]
    [] OTHER -> NoneYet
\* derived_bit_for: the pattern with the instance in it.
DerivedBit(profile, t, instance) ==
  LET block == DerivedBlock(profile, t)
  IN  IF block = NoneYet THEN NoneYet
      ELSE IF block.pattern.shape /= "template" \/ instance <= 0 THEN NoneYet
      ELSE [kind |-> "bit", pattern |-> block.pattern, instance |-> instance]

-----------------------------------------------------------------------------
(* Analogues *)

\* _parse_analog_groups: patterns that do not compile are dropped, and so is
\* a group with none left or without a key.
ParseAnalogGroups(raws) ==
  LET Compiled(g) == Those(g.patterns, {p \in ToSet(g.patterns) : p.compiles})
      parsed == [i \in DOMAIN raws |-> [key |-> raws[i].key, patterns |-> Compiled(raws[i])]]
  IN  Those(parsed, {g \in ToSet(parsed) : g.key /= "" /\ g.patterns /= <<>>})
\* analog_group_for: the first group, none for a digital bit.
AnalogGroupFor(profile, name) ==
  LET g == SelectInSeq(profile.analog_groups,
             LAMBDA grp : \E i \in DOMAIN grp.patterns : Upper[name] \in grp.patterns[i].matches)
  IN  IF name = "" \/ g = 0 THEN NoneYet ELSE profile.analog_groups[g]

\* _parse_analog_name_aliases: a rule needs a regex that compiles and a
\* template; the winding map is shared by all of them.
ParseAliasRules(raw) ==
  Those(raw.rules, {r \in ToSet(raw.rules) : r.regex.compiles /\ r.template /= ""})
\* AnalogAliasRule.apply: the template filled with the stem the regex caught and
\* the winding its letter stands for, unless it asks for what was not caught.
Made(rule, windings, name) ==
  [kind |-> "made", template |-> rule.template, stem |-> rule.stem[name],
   winding |-> IF rule.letter[name] \in DOMAIN windings THEN windings[rule.letter[name]]
               ELSE rule.letter[name]]
Apply(rule, windings, name) ==
  IF name \notin rule.regex.matches \/ rule.template = "broken" THEN NoneYet
  ELSE Made(rule, windings, name)
ResolveAnalogName(profile, name) ==
  LET r == SelectInSeq(profile.rules,
                       LAMBDA rule : Apply(rule, profile.windings, Upper[name]) /= NoneYet)
  IN  IF name = "" \/ r = 0 THEN [kind |-> "name", text |-> Upper[name]]
      ELSE Apply(profile.rules[r], profile.windings, Upper[name])

-----------------------------------------------------------------------------
(* Identifiers *)

\* _parse_identifier: both halves, or none.
ParseIdentifier(raw) ==
  IF raw = NoneYet \/ "" \in {raw.file, raw.key} THEN NoneYet ELSE raw
\* identifier_sources, in the order of the code.
IdentifierSources(raw) ==
  LET ip == IF raw.ip.file = "" THEN NoneYet
            ELSE [raw.ip EXCEPT !.key = IF @ = "" THEN "IPADDR" ELSE @]
      all == [ip |-> ip, rid |-> ParseIdentifier(raw.relay_id),
              mac |-> ParseIdentifier(raw.mac_address)]
  IN  [k \in {m \in DOMAIN all : all[m] /= NoneYet} |-> all[k]]

\* The text of a SET_*.TXT file is a sequence of words and of these four:
\* read_text leaves one line end of all of them, strip() takes what is Space.
LineEnd == "line end"
Space == "space"
Comma == "comma"
Quote == "quote"
Stops == {Quote, Comma, LineEnd}        \* no value has one: [^",\r\n]+
Blanks == {Space, LineEnd}              \* \s*
BlankBetween(text, i, j) == \A k \in (i + 1)..(j - 1) : text[k] \in Blanks

\* _SETTING_RE_TEMPLATE up to the key, ^\s*KEY: where the key may stand.
KeysAt(text, key) ==
  {q \in DOMAIN text :
     /\ text[q] \notin Stops \cup Blanks /\ Upper[text[q]] = Upper[key]
     /\ \E s \in 0..(q - 1) : (s = 0 \/ text[s] = LineEnd) /\ BlankBetween(text, s, q)}
\* The rest of it, \s*,\s*"?([^",\r\n]+): where the value of a key may begin.
Opens(text, q, g) ==
  \E c \in DOMAIN text, e \in DOMAIN text :
    /\ q < c /\ BlankBetween(text, q, c) /\ text[c] = Comma
    /\ c < e /\ BlankBetween(text, c, e)
    /\ e = g \/ (e = g - 1 /\ text[e] = Quote)
ValuesAt(text, q) == {g \in DOMAIN text : text[g] \notin Stops /\ Opens(text, q, g)}
Matched(text, g) ==
  SubSeq(text, g, Min({j \in g..Len(text) : text[j] \in Stops} \cup {Len(text) + 1}) - 1)
\* strip()
Trimmed(value) ==
  LET kept == {i \in DOMAIN value : value[i] /= Space}
  IN  IF kept = {} THEN <<>> ELSE SubSeq(value, Min(kept), Max(kept))

Setting(value) == [kind |-> "setting", text |-> value]
\* Mutant: the first line of the key, whether it has a value or not.
SettingInFirstLine(text, key) ==
  LET keys == KeysAt(text, key)
  IN  IF keys = {} THEN NoneYet
      ELSE IF ValuesAt(text, Min(keys)) = {} THEN NoneYet
      ELSE Setting(Trimmed(Matched(text, Max(ValuesAt(text, Min(keys))))))
\* pattern.search: the first key that has a value, and the value a greedy \s*
\* and a greedy "? come to first.
SettingIn(text, key) ==
  LET found == {q \in KeysAt(text, key) : ValuesAt(text, q) /= {}}
  IN  IF found = {} THEN NoneYet
      ELSE Setting(Trimmed(Matched(text, Max(ValuesAt(text, Min(found))))))
\* _read_setting: in the first file of that name as the directory lists them,
\* where it can be read.
ReadSetting(dir, src) ==
  LET f == SelectInSeq(dir, LAMBDA file : Upper[file.name] = Upper[src.file])
  IN  CASE f = 0 -> NoneYet
        [] f > 0 -> IF dir[f].readable THEN SettingIn(dir[f].text, src.key) ELSE NoneYet
\* value.split("/", 1)[0].strip(): cidr has the words with a slash in them.
WithoutCidr(value, cidr) ==
  LET cut == {i \in DOMAIN value : value[i] \in DOMAIN cidr}
      i == Min(cut)
  IN  IF cut = {} THEN value ELSE Trimmed(SubSeq(value, 1, i - 1) \o cidr[value[i]])
Identified(kind, found, cidr) ==
  IF kind = "ip" /\ found /= NoneYet THEN Setting(WithoutCidr(found.text, cidr)) ELSE found
\* read_identifiers: every declared source has an entry, found or not.
ReadIdentifiers(dir, raw, cidr) ==
  LET sources == IdentifierSources(raw)
  IN  [k \in DOMAIN sources |-> Identified(k, ReadSetting(dir, sources[k]), cidr)]

-----------------------------------------------------------------------------
(* The profile of a RELAYTYPE.  A model name is its prefix and its parts, *)
(* SEL-411L-A is SEL and <<411L, A>>; options are parts of one character. *)

CONSTANT Option

BaseParts(parts) ==
  LET ends == {n \in DOMAIN parts : \A i \in (n + 1)..Len(parts) : parts[i] \in Option}
  IN  SubSeq(parts, 1, Min(ends))
Prefixed(name) == [name EXCEPT !.sel = ~@]
\* relay_models._key_variants, in the order they are looked up.  A variant that
\* comes twice is left out of the code's list, which finds nothing else.
KeyVariants(name) ==
  LET base == [name EXCEPT !.parts = BaseParts(@)]
  IN  <<name, Prefixed(name), base, Prefixed(base)>>
\* wordbits._key_variants: one part off at a time.
WordbitKeyVariants(name) ==
  LET n == Len(name.parts)
      Cut(k, sel) == [sel |-> sel, parts |-> SubSeq(name.parts, 1, k)]
      shorter == [i \in 1..(2 * (n - 1)) |-> Cut(n - (i + 1) \div 2, i % 2 = 0)]
  IN  <<Cut(n, FALSE), name>> \o shorter

\* Mutant: the last file of a name.
IndexLastWins(keys) ==
  FoldLeft(LAMBDA f, i : [k \in DOMAIN f \cup keys[i] |-> IF k \in keys[i] THEN i ELSE f[k]],
           Empty, [i \in DOMAIN keys |-> i])

\* load_relay_models, _load_all: the files of the overlay, then those of the
\* package; a key is the first file's that has it.  keys[i] are those of file i.
Index(keys) ==
  FoldLeft(LAMBDA f, i : [k \in DOMAIN f \cup keys[i] |-> IF k \in DOMAIN f THEN f[k] ELSE i],
           Empty, [i \in DOMAIN keys |-> i])
\* relay_models takes the names as they are, wordbits each with its variants.
NamesOf(file) == {file.model} \cup ToSet(file.aliases)
KeysOf(file, registry) ==
  IF registry = "relay_models" THEN NamesOf(file)
  ELSE UNION {ToSet(WordbitKeyVariants(n)) : n \in NamesOf(file)}
VariantsOf(relaytype, registry) ==
  IF registry = "relay_models" THEN KeyVariants(relaytype) ELSE WordbitKeyVariants(relaytype)
\* lookup: the file that answers, 0 for none.
Lookup(files, relaytype, registry) ==
  LET index == Index([i \in DOMAIN files |-> KeysOf(files[i], registry)])
      variants == VariantsOf(relaytype, registry)
      k == FirstIn(variants, DOMAIN index)
  IN  IF k = 0 THEN 0 ELSE index[variants[k]]

-----------------------------------------------------------------------------
(* Properties *)

\* Whatever blocks a profile lists, an XML type two of them claim goes to the
\* later one, by the type before by a block's own name, and the bit derived
\* from an element is of the block its pins are labelled for -- where the type
\* is spelled in upper case.  derived_bit_for does not look for it otherwise.
BlockAnswersAgree(raws, t, instance, bit) ==
  LET profile == [blocks |-> Blocks(raws), by_xml |-> ByXmlType(raws)]
      block == BlockForXmlType(profile, t)
      Claims(i, u) == \E n \in DOMAIN XmlTypes(raws[i].key, raws[i]) :
                        Upper[XmlTypes(raws[i].key, raws[i])[n]] = u
      claiming == {i \in DOMAIN raws : Claims(i, Upper[t])}
  IN  /\ claiming /= {} /\ t /= "" => block = ParseBlock(raws[Max(claiming)])
      /\ claiming = {} /\ block /= NoneYet => Upper[block.key] = Upper[t]
      /\ bit /= NoneYet => t = Upper[t] /\ instance > 0
      /\ bit /= NoneYet /\ t /= "" => bit.pattern = block.pattern
      /\ t = Upper[t] /\ t /= "" /\ instance > 0 /\ block /= NoneYet =>
           (block.pattern.shape = "template" <=> bit /= NoneYet)

\* A file of the overlay (those up to n) stands before a packaged one of the
\* same model: the packaged one answers only where one of its aliases leads
\* and the overlay's file does not name -- aliases are first come, and what an
\* overlay leaves out stays with the package.  A name an overlay gives itself
\* is always the overlay's; a model's file answers for it unless an earlier
\* one took its name, as the file of 411L-2 takes 411L in wordbits.
OverlayDecides(files, n, relaytype, registry, found) ==
  LET variants == ToSet(VariantsOf(relaytype, registry))
      Own(i) == NamesOf(files[i])
  IN  /\ (\E o \in 1..n : relaytype \in Own(o)) => found \in 1..n
      /\ \A o \in 1..n : found > n /\ files[o].model = files[found].model =>
           \E a \in Own(found) \ Own(o) :
             variants \cap KeysOf([model |-> a, aliases |-> <<>>], registry) /= {}
      /\ \A i \in DOMAIN files : files[i].model = relaytype => found \in 1..i

\* A rule that does not compile, has no template, or asks its template for what
\* its regex did not catch, stands in no other's way: the first rule that serves
\* makes the name, and one no rule is left for keeps its spelling in upper case.
\* An analogue is of the first group with a key and a pattern for it that
\* compiles, whatever became of the others.
AnalogAnswered(rules, groups, windings, name, answer) ==
  LET Serves(r) == name /= "" /\ r.regex.compiles /\ r.template \notin {"", "broken"}
                   /\ Upper[name] \in r.regex.matches
      Shows(g) == name /= "" /\ g.key /= "" /\ \E i \in DOMAIN g.patterns :
                    g.patterns[i].compiles /\ Upper[name] \in g.patterns[i].matches
      serving == {i \in DOMAIN rules : Serves(rules[i])}
      showing == {i \in DOMAIN groups : Shows(groups[i])}
  IN  /\ answer.name = IF serving = {} THEN [kind |-> "name", text |-> Upper[name]]
                       ELSE Made(rules[Min(serving)], windings, Upper[name])
      /\ showing = {} <=> answer.group = NoneYet
      /\ showing /= {} => answer.group.key = groups[Min(showing)].key

\* What the line of a key says: a comma on that line, then a value up to the
\* next quote, comma or end of the line, with or without a quote before it.  A
\* line that has only spaces after its comma says that the setting is empty.
After(text, i) == Min({j \in (i + 1)..Len(text) : text[j] /= Space} \cup {Len(text) + 1})
LineValue(text, q) ==
  LET c == After(text, q)
      n == After(text, c)
      g == IF n \in DOMAIN text /\ text[n] = Quote THEN n + 1 ELSE n
  IN  CASE c \notin DOMAIN text -> NoneYet
        [] c \in DOMAIN text ->
             IF text[c] /= Comma THEN NoneYet
             ELSE IF g \in DOMAIN text /\ text[g] \notin Stops THEN Setting(Trimmed(Matched(text, g)))
             ELSE IF n > c + 1 THEN Setting(<<>>) ELSE NoneYet
Says(text, key) == {q \in KeysAt(text, key) : LineValue(text, q) /= NoneYet}
ByLine(text, key) ==
  IF Says(text, key) = {} THEN NoneYet ELSE LineValue(text, Min(Says(text, key)))
\* A line that ends after its key or after its comma: \s* reads on.
RunsOver(text, q) ==
  LET Ends(i) == i \in DOMAIN text /\ text[i] = LineEnd
      c == After(text, q)
  IN  Ends(c) \/ (c \in DOMAIN text /\ text[c] = Comma /\ Ends(After(text, c)))
Overrun(text, key) ==
  \E r \in KeysAt(text, key) : RunsOver(text, r) /\ \A q \in Says(text, key) : r <= q

SourceFor(raw, k) ==
  CASE k = "ip" -> raw.ip [] k = "rid" -> raw.relay_id [] k = "mac" -> raw.mac_address
KeyFor(raw, k) ==
  IF k = "ip" /\ SourceFor(raw, k).key = "" THEN "IPADDR" ELSE SourceFor(raw, k).key
\* The text of the first file of that name, none that can be read.
TextFor(dir, raw, k) ==
  LET named == {i \in DOMAIN dir : Upper[dir[i].name] = Upper[SourceFor(raw, k).file]}
  IN  IF named = {} THEN <<>> ELSE IF dir[Min(named)].readable THEN dir[Min(named)].text ELSE <<>>

\* A relay has an answer for each identifier its profile gives a file and a key
\* for -- also where there is no such file, unlike what the docstring says.  It
\* is what the first line of that key says that says anything, in the first
\* file of that name and never in a later one, and it is none where no line or
\* no readable file says any -- unless, before such a line, one of the key's
\* ends after its key or its comma: the pattern reads on into the lines after
\* it.  Not even then does an identifier a line gives stay unanswered.
IdentifiersAnswered(dir, raw, cidr, answer) ==
  LET declared == {k \in {"ip", "rid", "mac"} :
                     /\ SourceFor(raw, k) /= NoneYet /\ SourceFor(raw, k).file /= ""
                     /\ k = "ip" \/ SourceFor(raw, k).key /= ""}
      Text(k) == TextFor(dir, raw, k)
      Key(k) == KeyFor(raw, k)
  IN  /\ DOMAIN answer = declared
      /\ \A k \in declared : ~Overrun(Text(k), Key(k)) =>
           answer[k] = Identified(k, ByLine(Text(k), Key(k)), cidr)
      /\ \A k \in declared : answer[k] = NoneYet => Says(Text(k), Key(k)) = {}

=============================================================================
