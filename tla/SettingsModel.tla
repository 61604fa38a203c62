--------------------------- MODULE SettingsModel ---------------------------
(***************************************************************************)
(* settings.py and selogic/model.py: the SET_*.TXT files of one relay,     *)
(* read line by line into key and value, and the lines of each file then   *)
(* filed, one by one, under the variables of its group.  normalize_relay   *)
(* goes through the files in the order of their names.                     *)
(*                                                                         *)
(* A key or a name is a stem, digits and a suffix: PSV01 is PSV, 01, none. *)
(***************************************************************************)
EXTENDS Naturals, Sequences

CONSTANTS
  Family,              \* 3xx, 4xx, 7xx
  FileName, Directory, \* names are numbers, in their order; sets of them
  Key, NoKey,
  Value,               \* what follows the comma: looks, lhs, bit, na
  GroupOf, NoGroup,    \* catalog.py: GroupOf[family][file], case ignored
  TextsOf,             \* the physical lines a file of a group may be made of
  MaxLines             \* bound: physical lines of one relay

Looks == {"blank", "number", "enum", "both", "symbolic", "keyword", "text"}
Shapes == {"info", "section", "relaytype", "pair", "other"}
AllTexts == UNION {TextsOf[f][n] : f \in Family, n \in FileName}
ASSUME SettingsAssumption ==
  /\ Family \subseteq {"3xx", "4xx", "7xx"}
  /\ FileName \subseteq Nat \ {0} /\ Directory \subseteq SUBSET FileName
  /\ NoKey \notin Key /\ MaxLines \in Nat
  /\ Key \subseteq [stem : STRING, digits : STRING, sfx : STRING]
  /\ Value \subseteq [looks : Looks, lhs : Key \cup {NoKey},
                      bit : Key \cup {NoKey}, na : BOOLEAN]
  /\ AllTexts \subseteq [shape : Shapes, key : Key \cup {NoKey}, value : Value]
  /\ \A t \in AllTexts : t.shape = "section" => t.key \in Key

VARIABLES
  family,    \* given by the caller
  left,      \* files still to read
  at,        \* the file being read, 0 between two
  text,      \* the physical lines of that file, as far as they were read
  ps,        \* ParsedSettings, with current_section and in_info of its reader
  filed,     \* how many of ps.lines are filed
  variables,     \* GroupModel.variables: name to kind and fields
  slots,     \* sitm_slots: the slots of a 4xx report in the order they began
  groups,    \* RelayModel.groups: group key to file and variables
  relaytype, \* RelayModel.relaytype
  read,      \* physical lines so far
  phase
vars == <<family, left, at, text, ps, filed, variables, slots, groups, relaytype, read, phase>>

-----------------------------------------------------------------------------
(* Helpers *)

Nothing == [n \in {} |-> {}]
Put(f, k, v) == [x \in DOMAIN f \cup {k} |-> IF x = k THEN v ELSE f[x]]
EmptyPs == [section |-> NoKey, current |-> NoKey, in_info |-> FALSE,
            relaytype |-> NoKey, lines |-> <<>>]
Group == GroupOf[family][at]
IsReport == Group.key \in {"R", "R1"}
Dialect == IF family = "3xx" THEN "symbolic" ELSE "keyword"

Named(stem, digits) == [stem |-> stem, digits |-> digits, sfx |-> ""]
\* f"{int(n)}" and f"{int(n):02d}".
Short(digits) == IF digits = "01" THEN "1" ELSE digits
Padded(digits) == IF digits = "1" THEN "01" ELSE digits

\* _infer_kind: text that parses in the dialect of the relay is logic.
InferKind(v, dialect) ==
  CASE v.looks = "blank" -> "string"
    [] v.looks \in {"number", "enum"} -> v.looks
    [] v.looks \in {"both", dialect} -> "logic"
    [] OTHER -> "string"
KindOfVariable(kind) == IF kind = "logic" THEN "direct" ELSE kind

\* What a line does: the variable it goes to, the role and kind of its field,
\* and how: "append" to a variable that may be there, "refill" its fields,
\* "replace" it.
Entry(name, kind, role, fieldKind, how) ==
  [name |-> name, kind |-> kind, role |-> role, field |-> fieldKind, how |-> how]
Dropped == Entry(NoKey, "none", "none", "none", "none")
Plain(key, v, dialect) ==
  Entry(key, KindOfVariable(InferKind(v, dialect)), "value",
        InferKind(v, dialect), "replace")

Numeric(role) == role \in {"pickup", "dropout", "preset"}
RoleKind(role) == IF Numeric(role) THEN "number" ELSE "logic"
LatchRole(tag) == IF tag \in {"SET", "S"} THEN "set" ELSE "reset"
TimerRole(tag) ==
  CASE tag = "PU" -> "pickup" [] tag = "DO" -> "dropout" [] OTHER -> "input"
CounterRole(tag) ==
  CASE tag = "CU" -> "count_up" [] tag = "CD" -> "count_down" [] tag = "LD" -> "load"
    [] tag = "PV" -> "preset" [] tag = "R" -> "reset" [] tag = "IN" -> "input"
Latch(base, tag) == Entry(base, "latch", LatchRole(tag), "logic", "append")
Timer(base, tag) ==
  Entry(base, "timer", TimerRole(tag), RoleKind(TimerRole(tag)), "append")
Counter(base, tag) ==
  Entry(base, "counter", CounterRole(tag), RoleKind(CounterRole(tag)), "append")

CounterTags == {"CU", "CD", "LD", "PV", "R", "IN"}
Is(key, stems, suffixes) ==
  key.stem \in stems /\ key.digits /= "" /\ key.sfx \in suffixes

-----------------------------------------------------------------------------
(* What each family makes of a line *)

\* Mutant: any suffix R is a latch's.
RoleOf4xxLatchFirst(lhs) ==
  LET base == Named(lhs.stem, lhs.digits) IN
  CASE lhs.digits /= "" /\ lhs.sfx \in {"S", "R"} -> Latch(base, lhs.sfx)
    [] Is(lhs, {"PCT", "CT", "ACT"}, {"IN", "PU", "DO"}) -> Timer(base, lhs.sfx)
    [] Is(lhs, {"PCN", "CN", "ACN"}, CounterTags) -> Counter(base, lhs.sfx)
    [] OTHER -> Entry(lhs, "direct", "value", "logic", "append")

\* _4xx_role_of, of the left side of LHS := RHS.
RoleOf4xx(lhs) ==
  LET base == Named(lhs.stem, lhs.digits) IN
  CASE Is(lhs, {"PLT", "ALT"}, {"S", "R"}) -> Latch(base, lhs.sfx)
    [] Is(lhs, {"PCT", "CT", "ACT"}, {"IN", "PU", "DO"}) -> Timer(base, lhs.sfx)
    [] Is(lhs, {"PCN", "CN", "ACN"}, CounterTags) -> Counter(base, lhs.sfx)
    [] OTHER -> Entry(lhs, "direct", "value", "logic", "append")

\* _4xx_normalize_section: a free-form line, or a key of its own.
Entry4xx(key, v) ==
  IF Is(key, {"PROTSEL", "AUTO_"}, {""}) /\ Group.has_logic
  THEN IF v.lhs = NoKey THEN Dropped ELSE RoleOf4xx(v.lhs)
  ELSE Plain(key, v, "keyword")

\* _7xx_normalize_section.
Entry7xx(key, v) ==
  IF ~Group.has_logic THEN Plain(key, v, "keyword") ELSE
  CASE Is(key, {"SET", "RST"}, {""}) -> Latch(Named("LT", Padded(key.digits)), key.stem)
    [] Is(key, {"SV"}, {"", "PU", "DO"}) ->
         Timer(Named("SV", Padded(key.digits)), key.sfx)
    [] Is(key, {"MV"}, {""}) ->
         Entry(Named("MV", Padded(key.digits)), "math", "value", "logic", "replace")
    [] Is(key, {"SC"}, {"CU", "CD", "LD", "PV"}) ->
         Counter(Named("SC", Padded(key.digits)), key.sfx)
    [] Is(key, {"OUT"}, {""}) -> Entry(key, "direct", "value", "logic", "append")
    [] Is(key, {"OUT"}, {"FS"}) ->
         Entry(Named("OUT", key.digits), "direct", "fail_safe", "enum", "append")
    [] Is(key, {"TMB"}, {"A", "B"}) -> Entry(key, "direct", "value", "logic", "replace")
    [] OTHER -> Plain(key, v, "keyword")

\* _3xx_normalize_section: SV1 itself is a key like any other.
Entry3xx(key, v) ==
  CASE Group.has_logic /\ Is(key, {"SET", "RST"}, {""}) ->
         Latch(Named("LT", Short(key.digits)), key.stem)
    [] Group.has_logic /\ Is(key, {"SV"}, {"PU", "DO"}) ->
         Timer(Named("SV", Short(key.digits)), key.sfx)
    [] OTHER -> Plain(key, v, "symbolic")

\* _reports_normalize, but for the slots of a 4xx.
SlotRoles == <<"SITM", "SNAME", "SSET", "SCLR", "SHMI">>
IsSlotPart(key) ==
  family = "4xx" /\ Is(key, {SlotRoles[i] : i \in DOMAIN SlotRoles}, {""})
EntryReport(key, v) ==
  CASE Is(key, {"SER"}, {""}) -> Entry(key, "ser_list", "value", "set_list", "replace")
    [] family = "7xx" /\ Is(key, {"ALIAS"}, {""}) ->
         IF v.na \/ v.bit = NoKey THEN Dropped
         ELSE Entry(v.bit, "ser_item", "alias", "string", "refill")
    [] OTHER -> Plain(key, v, Dialect)

EntryOf(i) ==
  LET key == text[i].key
      v   == text[i].value
  IN  IF IsReport THEN EntryReport(key, v)
      ELSE CASE family = "3xx" -> Entry3xx(key, v)
             [] family = "4xx" -> Entry4xx(key, v)
             [] family = "7xx" -> Entry7xx(key, v)

-----------------------------------------------------------------------------
(* parse_settings_file *)

Init ==
  /\ family \in Family
  /\ left \in Directory
  /\ at = 0 /\ text = <<>> /\ ps = EmptyPs /\ filed = 0
  /\ variables = Nothing /\ slots = <<>> /\ groups = Nothing
  /\ relaytype = NoKey /\ read = 0 /\ phase = "files"

OpenFile ==
  /\ phase = "files"
  /\ \E f \in left :
       /\ \A g \in left : f <= g
       /\ at' = f /\ left' = left \ {f}
  /\ text' = <<>> /\ ps' = EmptyPs /\ phase' = "reading"
  /\ filed' = 0 /\ variables' = Nothing /\ slots' = <<>>
  /\ UNCHANGED <<family, groups, relaytype, read>>

\* The next line is t; what it leaves of the parser is ps1.
Read(t, ps1) ==
  /\ text' = Append(text, t) /\ ps' = ps1 /\ read' = read + 1
  /\ UNCHANGED <<family, left, at, filed, variables, slots, groups, relaytype, phase>>
Texts == TextsOf[family][at]
Reading == phase = "reading" /\ read < MaxLines

ReadInfoHeader ==
  /\ Reading
  /\ \E t \in Texts : t.shape = "info" /\ Read(t, [ps EXCEPT !.in_info = TRUE])

\* Mutant: a section does not end [INFO].
ReadSectionInsideInfo ==
  /\ Reading
  /\ \E t \in Texts :
       /\ t.shape = "section"
       /\ Read(t, [ps EXCEPT !.current = t.key,
                             !.section = IF @ = NoKey THEN t.key ELSE @])

ReadSection ==
  /\ Reading
  /\ \E t \in Texts :
       /\ t.shape = "section"
       /\ Read(t, [ps EXCEPT !.in_info = FALSE, !.current = t.key,
                             !.section = IF @ = NoKey THEN t.key ELSE @])

\* RELAYTYPE=...; other pairs of [INFO] are carried and not asked for.
ReadInfoPair ==
  /\ Reading
  /\ \E t \in Texts :
       /\ t.shape = "relaytype" /\ ps.in_info
       /\ Read(t, [ps EXCEPT !.relaytype = t.key])

\* A line is kept as its number; key and value are those of the text.
ReadData ==
  /\ Reading
  /\ \E t \in Texts :
       /\ t.shape = "pair" /\ ~ps.in_info /\ ps.current /= NoKey
       /\ Read(t, [ps EXCEPT !.lines = Append(@, Len(text) + 1)])

SkipLine ==
  /\ Reading
  /\ \E t \in Texts :
       /\ \/ t.shape = "other"
          \/ t.shape = "relaytype" /\ ~ps.in_info
          \/ t.shape = "pair" /\ (ps.in_info \/ ps.current = NoKey)
       /\ Read(t, ps)

\* The file ends; the driver looks for its group.
EndOfFile ==
  /\ phase = "reading"
  /\ relaytype' = IF relaytype = NoKey THEN ps.relaytype ELSE relaytype
  /\ phase' = IF Group = NoGroup THEN "files" ELSE "filing"
  /\ UNCHANGED <<family, left, at, text, ps, filed, variables, slots, groups, read>>

-----------------------------------------------------------------------------
(* normalize_relay and the loop of each normaliser *)

Field(e, i) == [role |-> e.role, kind |-> e.field, line |-> i]

\* Mutant: each line makes the variable anew.
FileAsNew(e, i) ==
  IF e.name = NoKey THEN variables
  ELSE Put(variables, e.name, [kind |-> e.kind, fields |-> <<Field(e, i)>>])

FileUnder(e, i) ==
  LET known == e.name \in DOMAIN variables
  IN  IF e.name = NoKey THEN variables ELSE
      CASE known /\ e.how = "append" ->
             [variables EXCEPT ![e.name].fields = Append(@, Field(e, i))]
        [] known /\ e.how = "refill" ->
             [variables EXCEPT ![e.name].fields = <<Field(e, i)>>]
        [] OTHER -> Put(variables, e.name, [kind |-> e.kind, fields |-> <<Field(e, i)>>])

NextLine == ps.lines[filed + 1]
IsSlotLine(i) == IsReport /\ IsSlotPart(text[i].key)

FileLine ==
  /\ phase = "filing" /\ filed < Len(ps.lines)
  /\ ~IsSlotLine(NextLine)
  /\ variables' = FileUnder(EntryOf(NextLine), NextLine)
  /\ filed' = filed + 1
  /\ UNCHANGED <<family, left, at, text, ps, slots, groups, relaytype, read, phase>>

\* Mutant: the slot as it is spelled, SITM01 apart from SITM1.
SlotAsSpelled(key) == key.digits
SlotNumber(key) == Short(key.digits)
SlotAt(n) == {j \in DOMAIN slots : slots[j].slot = n}
\* sitm_slots.setdefault(slot, {})[role] = (value, source).
BufferSlotPart ==
  /\ phase = "filing" /\ filed < Len(ps.lines)
  /\ IsSlotLine(NextLine)
  /\ LET key == text[NextLine].key
         n   == SlotNumber(key)
     IN  slots' =
           IF SlotAt(n) = {}
           THEN Append(slots, [slot |-> n, parts |-> Put(Nothing, key.stem, NextLine)])
           ELSE [j \in DOMAIN slots |->
                   IF j \in SlotAt(n)
                   THEN [slots[j] EXCEPT !.parts = Put(@, key.stem, NextLine)]
                   ELSE slots[j]]
  /\ filed' = filed + 1
  /\ UNCHANGED <<family, left, at, text, ps, variables, groups, relaytype, read, phase>>

\* The slots, once the lines are through: one variable for a word bit.
SlotField(parts, part, role, kind) ==
  IF part \in DOMAIN parts THEN <<[role |-> role, kind |-> kind, line |-> parts[part]]>>
  ELSE <<>>
SlotFields(parts) ==
  SlotField(parts, "SITM", "wordbit", "enum")
    \o SlotField(parts, "SNAME", "alias_nome", "string")
    \o SlotField(parts, "SSET", "alias_set", "string")
    \o SlotField(parts, "SCLR", "alias_clear", "string")
    \o SlotField(parts, "SHMI", "hmi_alarm", "enum")
    \o SlotField(parts, "SITM", "slot", "number")
RegroupSlot ==
  /\ phase = "filing" /\ filed = Len(ps.lines) /\ slots /= <<>>
  /\ LET parts == Head(slots).parts
         bit   == text[parts["SITM"]].value.bit
     IN  variables' =
           IF "SITM" \notin DOMAIN parts THEN variables
           ELSE IF bit = NoKey THEN variables
           ELSE Put(variables, bit, [kind |-> "ser_item", fields |-> SlotFields(parts)])
  /\ slots' = Tail(slots)
  /\ UNCHANGED <<family, left, at, text, ps, filed, groups, relaytype, read, phase>>

\* groups[group.key] = gm.
StoreGroup ==
  /\ phase = "filing" /\ filed = Len(ps.lines) /\ slots = <<>>
  /\ groups' = Put(groups, Group.key, [file |-> at, variables |-> variables])
  /\ phase' = "files"
  /\ UNCHANGED <<family, left, at, text, ps, filed, variables, slots, relaytype, read>>

Next ==
  \/ OpenFile \/ ReadInfoHeader \/ ReadSection \/ ReadInfoPair \/ ReadData
  \/ SkipLine \/ EndOfFile \/ FileLine \/ BufferSlotPart \/ RegroupSlot \/ StoreGroup
Spec == Init /\ [][Next]_vars

-----------------------------------------------------------------------------
(* Properties *)

\* What is kept of a file is every KEY,VALUE line whose last header is not
\* [INFO], in the order of the file, whatever sections come between; the file
\* is named for the first of them.
Headed(i) ==
  \E h \in 1..(i - 1) : /\ text[h].shape = "section"
                        /\ \A m \in (h + 1)..(i - 1) : text[m].shape /= "info"
LinesOfRealSections ==
  /\ \A k, m \in DOMAIN ps.lines : k < m => ps.lines[k] < ps.lines[m]
  /\ {ps.lines[k] : k \in DOMAIN ps.lines} =
       {i \in DOMAIN text : text[i].shape = "pair" /\ Headed(i)}
  /\ \A i \in DOMAIN text :
       text[i].shape = "section" /\ (\A h \in 1..(i - 1) : text[h].shape /= "section")
         => ps.section = text[i].key

\* The lines filed so far that go to name n; where its fields begin, and where
\* its kind comes from.
Filed(n) == {k \in 1..filed : ~IsSlotLine(ps.lines[k]) /\ EntryOf(ps.lines[k]).name = n}
Since(n, hows) ==
  LET cuts == {k \in Filed(n) : EntryOf(ps.lines[k]).how \in hows}
  IN  IF cuts = {} THEN CHOOSE k \in Filed(n) : \A m \in Filed(n) : k <= m
      ELSE CHOOSE k \in cuts : \A m \in cuts : m <= k

\* Filing lines one by one loses none but what a later line of the same name
\* replaces: a variable holds the fields of all its lines since the last
\* that replaced it, in their order, and its kind is that of the line it was
\* made by.  (SV1 after SV1PU replaces it in a 3xx; an ALIAS keeps the kind.)
FieldsSinceLastReplace ==
  phase = "filing" /\ ~(family = "4xx" /\ IsReport) =>
    /\ DOMAIN variables = {EntryOf(ps.lines[k]).name : k \in 1..filed} \ {NoKey}
    /\ \A n \in DOMAIN variables :
         LET fields == variables[n].fields
             kept   == {k \in Filed(n) : k >= Since(n, {"replace", "refill"})}
         IN  /\ variables[n].kind = EntryOf(ps.lines[Since(n, {"replace"})]).kind
             /\ {fields[j] : j \in DOMAIN fields} =
                  {Field(EntryOf(ps.lines[k]), ps.lines[k]) : k \in kept}
             /\ \A j, m \in DOMAIN fields : j < m => fields[j].line < fields[m].line

\* The table of roles at the head of model.py, for every variable a file can
\* make, however its lines are mixed: latches, timers and counters never meet
\* under one name.  What may come between is a key -- in a 4xx a left side, too
\* -- that is spelled like the variable of a latch or counter, or SVn in a 3xx,
\* where the equation is a key like any other: the parts that follow it are put
\* under its kind.  So is the alias of a 7xx word bit spelled like a key.
RolesOf(kind) ==
  CASE kind = "latch" -> {"set", "reset"}
    [] kind = "timer" -> {"input", "pickup", "dropout"}
    [] kind = "counter" -> {"input", "count_up", "count_down", "load", "preset", "reset"}
    [] kind = "ser_item" -> {"alias", "wordbit", "alias_nome", "alias_set",
                             "alias_clear", "hmi_alarm", "slot"}
    [] kind = "direct" -> {"value", "fail_safe"}
    [] OTHER -> {"value"}
PartStems ==
  CASE family = "3xx" -> {"LT", "SV"}
    [] family = "4xx" -> {"PLT", "ALT", "PCT", "CT", "ACT", "PCN", "CN", "ACN"}
    [] family = "7xx" -> {"LT", "SC"}
Roles(n) == {variables[n].fields[j].role : j \in DOMAIN variables[n].fields}
KindAgreesWithRoles ==
  \A n \in DOMAIN variables :
    \/ Roles(n) \subseteq RolesOf(variables[n].kind)
    \/ /\ Group.has_logic /\ n.stem \in PartStems /\ "value" \in Roles(n)
       /\ family /= "4xx" => variables[n].kind \notin {"latch", "timer", "counter"}
    \/ family = "7xx" /\ IsReport /\ Roles(n) = {"alias"}

\* "ONE row per recorded word bit" of a 4xx report: whatever slots name a word
\* bit, in whatever order their lines come, its variable shows one slot only,
\* with the last line of each part, and no recorded word bit is without one.
\* Of two slots it is the one whose first line comes last.
PartLines(slot, part) ==
  {i \in {ps.lines[k] : k \in DOMAIN ps.lines} :
     IsSlotLine(i) /\ Short(text[i].key.digits) = slot /\ text[i].key.stem = part}
LastOf(S) == CHOOSE i \in S : \A j \in S : j <= i
FirstOf(S) == CHOOSE i \in S : \A j \in S : i <= j
Records(slot, bit) ==
  PartLines(slot, "SITM") /= {} /\ text[LastOf(PartLines(slot, "SITM"))].value.bit = bit
Began(slot) == FirstOf(UNION {PartLines(slot, SlotRoles[r]) : r \in DOMAIN SlotRoles})
SlotNumbers == {Short(text[i].key.digits) : i \in DOMAIN text}
OneSlotPerWordBit ==
  phase = "filing" /\ filed = Len(ps.lines) /\ slots = <<>> /\ IsReport /\ family = "4xx" =>
    \A bit \in Key : \A slot \in SlotNumbers :
      /\ Records(slot, bit)
      /\ \A other \in SlotNumbers : Records(other, bit) => Began(other) <= Began(slot)
      => /\ bit \in DOMAIN variables /\ variables[bit].kind = "ser_item"
         /\ {variables[bit].fields[j].line : j \in DOMAIN variables[bit].fields} =
              {LastOf(PartLines(slot, SlotRoles[r])) :
                 r \in {p \in DOMAIN SlotRoles : PartLines(slot, SlotRoles[p]) /= {}}}
=============================================================================
