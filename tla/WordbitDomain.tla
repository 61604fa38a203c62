--------------------------- MODULE WordbitDomain ---------------------------
(***************************************************************************)
(* models/wordbits.py and dnp_profile.py: the names a relay model accepts  *)
(* in each block of its DNP map, how a value is judged by them, and how a  *)
(* vendor's device profile is read out of its zip and merged into the file *)
(* of the model.                                                           *)
(***************************************************************************)
EXTENDS Naming

CONSTANTS Numeric      \* the fragments that are numbers
Kinds == {"BI", "BO", "AI", "AO", "CO"}
DefaultAlwaysValid == {"", "NA", "0", "1"}
None == [model |-> <<>>]

-----------------------------------------------------------------------------
(* A value of a map.  It is the sequence of what ":" separates.            *)

Whole(value) == IF Len(value) = 1 THEN Upper[value[1]] ELSE "a:b"
\* names_in: BO holds a pair, the others one name and its scales.
NamesIn(kind, value) ==
  LET parts == [i \in DOMAIN value |-> Upper[value[i]]]
      kept == IF kind = "BO" THEN parts ELSE SubSeq(parts, 1, 1)
  IN  {kept[i] : i \in DOMAIN kept} \ (Numeric \cup {""})

Domain(wbs, kind) ==
  wbs.kinds[kind] \cup (IF kind \in {"BI", "BO"} THEN wbs.bits ELSE {})

\* Mutant: the placeholders are only those the file lists.
AlwaysValidListed(wbs) == IF wbs = None THEN DefaultAlwaysValid ELSE wbs.always_valid

\* always_valid_for
AlwaysValidFor(wbs) ==
  IF wbs = None THEN DefaultAlwaysValid ELSE DefaultAlwaysValid \cup wbs.always_valid

\* WordbitSet.check: TRUE for "ok".
Check(wbs, value, kind) ==
  LET allowed == AlwaysValidFor(wbs)
      accepted == allowed \cup Domain(wbs, kind) \cup wbs.patterns
  IN  \/ kind \notin wbs.check_kinds
      \/ Whole(value) \in allowed
      \/ NamesIn(kind, value) \subseteq accepted

\* duplicates, of the values of one block.
Duplicates(values, skip) ==
  LET Judged(v) == Whole(v) \notin skip \cup {""}
      Text(v) == [i \in DOMAIN v |-> Upper[v[i]]]
  IN  {Text(values[i]) : i \in {j \in DOMAIN values :
         Judged(values[j]) /\ \E k \in 1..(j - 1) : Text(values[k]) = Text(values[j])}}

-----------------------------------------------------------------------------
(* dnp_profile.py: a document is what its bytes turn out to be            *)

\* _parse_xml: the profile, or the error it raises.  "foreign" stands for what
\* is not a DnpProfileError: a DTD that is refused, a member that is damaged.
Raised(error) == [error |-> error, profile |-> None]
ParseXml(doc) ==
  IF doc.damage = "foreign" THEN Raised("foreign")
  ELSE IF \/ doc.damage = "malformed" \/ doc.root /= "DNP3DeviceProfileDocument"
          \/ (\A k \in Kinds : doc.points[k] \ {""} = {}) \/ doc.models = <<>>
       THEN Raised("profile")
       ELSE [error |-> "", profile |->
               [model |-> doc.models[1], models |-> doc.models, doc |-> doc.id,
                kinds |-> [k \in Kinds |-> {Upper[n] : n \in doc.points[k]} \ {""}]]]

\* The candidates of parse_zip, and which of them it tries before which: dnpDP,
\* then by name.  A member's order is its place among the names.
Candidates(members) == {m \in members : m.role \in {"dnpdp", "other"}}
\* Mutant: the last name first.
BeforeByLastName(m, o) ==
  \/ m.role = "dnpdp" /\ o.role /= "dnpdp"
  \/ (m.role = "dnpdp" <=> o.role = "dnpdp") /\ m.order > o.order
Before(m, o) ==
  \/ m.role = "dnpdp" /\ o.role /= "dnpdp"
  \/ (m.role = "dnpdp" <=> o.role = "dnpdp") /\ m.order < o.order

Attempt(m) == IF m.oversized THEN Raised("profile") ELSE ParseXml(m.doc)
\* parse_zip: the first that reads; an error that is no DnpProfileError ends it.
ParseZip(members) ==
  LET ends == {m \in Candidates(members) : Attempt(m).error \in {"", "foreign"}}
  IN  IF ends = {} THEN Raised("profile")
      ELSE Attempt(CHOOSE m \in ends : \A o \in ends \ {m} : Before(m, o))

\* parse: a zip, or the document itself.
ParseProfile(data) ==
  IF data.zip THEN ParseZip(data.members) ELSE ParseXml((CHOOSE m \in data.members : TRUE).doc)

-----------------------------------------------------------------------------
(* entry_from_profiles.  A model key is its parts: 411L-A is <<411L, A>>.  *)

BaseModel(profile) == SubSeq(profile.models[1], 1, 1)
\* _profile_keys: each model and its base, once.
ProfileKeys(profile) == UNION {{m, SubSeq(m, 1, 1)} : m \in ToSet(profile.models)}

\* check_kinds_for: AI is never judged.
CheckKindsFor(kinds, bits) ==
  (IF bits /= {} THEN {"BI"} ELSE {}) \cup {k \in {"BO", "AO", "CO"} : kinds[k] /= {}}

KindsMerged(profile, existing, merge_kinds) ==
  [k \in Kinds |-> profile.kinds[k] \cup (IF merge_kinds THEN existing.kinds[k] ELSE {})]

EntryFromProfiles(profile, existing, merge_kinds) ==
  LET kinds == KindsMerged(profile, existing, merge_kinds)
      always == existing.always_valid
  IN  [model |-> BaseModel(profile),
       model_aliases |-> ProfileKeys(profile) \ {BaseModel(profile)},
       always_valid |-> IF always = {} THEN DefaultAlwaysValid ELSE always,
       check_kinds |-> CheckKindsFor(kinds, existing.bits),
       kinds |-> kinds, bits |-> existing.bits, patterns |-> existing.patterns]
\* _load_one, of a file of this schema: a model is needed.  A file that does
\* not name its check_kinds judges BI, a schema of before.
LoadEntry(entry) ==
  IF entry.model = <<>> THEN None
  ELSE [entry EXCEPT !.check_kinds = IF @ = {"undeclared"} THEN {"BI"} ELSE @ \cap Kinds]

-----------------------------------------------------------------------------
(* Properties *)

\* A free slot is never warned about, in a relay with a file or without: what
\* is a placeholder is no unknown name and no duplicate, and neither is a BO
\* pair of them unknown.  As a pair it is a duplicate of another such pair.
FreeSlotsAreQuiet(wbs, kind, values) ==
  LET free == {i \in DOMAIN values : ToSet([n \in DOMAIN values[i] |-> Upper[values[i][n]]])
                                       \subseteq DefaultAlwaysValid}
  IN  \A i \in free :
        /\ wbs /= None => Check(wbs, values[i], kind)
        /\ Len(values[i]) = 1 =>
             <<Upper[values[i][1]]>> \notin Duplicates(values, AlwaysValidFor(wbs))

\* The members of a zip that parse_zip may not pass: those that read, and those
\* that fail with an error it does not know.  Where none of the latter is there,
\* a zip reads if and only if a member does; and what is read is the first of
\* the members that read -- dnpDP.xml before the others, then by name -- with
\* no member of the other kind before it.
ReadsFirst(members, result) ==
  LET tried == {m \in members : m.role \in {"dnpdp", "other"} /\ ~m.oversized}
      good == {m \in tried : ParseXml(m.doc).error = ""}
      foreign == {m \in tried : ParseXml(m.doc).error = "foreign"}
      Leads(m, o) == /\ o.role = "dnpdp" => m.role = "dnpdp"
                     /\ o.role = m.role => m.order <= o.order
  IN  /\ foreign = {} => (result.error = "" <=> good /= {})
      /\ result.error = "" =>
           \E m \in good : /\ m.doc.id = result.profile.doc
                          /\ \A o \in good \cup foreign : Leads(m, o)

\* What the import of a profile that was read leaves as it was: the bits, patterns
\* and placeholders of the file; with merge_kinds also every point name, so that
\* a value accepted before is accepted in every block that was judged before.
\* Without merge_kinds the point names are the profile's and no other, and a
\* block that nobody judged before may reject what it holds.  BI is judged only
\* by a file with Relay Word bits.  What goes in any case is the aliases the
\* profile does not name.
ImportKeeps(existing, merge_kinds, values, result) ==
  LET entry == EntryFromProfiles(result.profile, existing, merge_kinds)
      before == LoadEntry(existing)
      after == LoadEntry(entry)
  IN  result.error = "" =>
        /\ after.bits = before.bits /\ after.patterns = before.patterns
        /\ AlwaysValidFor(after) = AlwaysValidFor(before)
        /\ merge_kinds => \A k \in Kinds : before.kinds[k] \subseteq after.kinds[k]
        /\ ~merge_kinds => after.kinds = result.profile.kinds
        /\ merge_kinds => \A k \in before.check_kinds : \A v \in values :
             Check(before, v, k) => Check(after, v, k)
        /\ "BI" \in after.check_kinds => after.bits /= {}
        /\ {after.model} \cup after.model_aliases
             = UNION {{m, <<m[1]>>} : m \in ToSet(result.profile.models)}
=============================================================================
