------------------------------ MODULE Readers ------------------------------
(***************************************************************************)
(* The pure readers of sellib: one call of one of them, and its answer.    *)
(* What may be asked is a constant, the calls of a host.                   *)
(***************************************************************************)
EXTENDS ScdPoints, RelayProfile, WordbitDomain, SelogicCompare

CONSTANTS
  ShortAddresses,                     \* sAddrs as they are in a file
  Attribute, PointDocs,               \* of sel_short_addresses
  Declaration, ExtRef, GooseDocs,     \* of sel_goose_subscriptions
  BlockCalls, AnalogCalls, IdentifierCalls, Cidr,
  LookupCalls, CheckCalls, ImportCalls,
  ParseCalls, CompareCalls            \* of SELOGIC equations; of settings

Pieces == Seq(DOMAIN Upper)
IsList(s) == Len(s) \in Nat /\ DOMAIN s = 1..Len(s)
\* The file and the key of an identifier, or no such identifier.
IsSource(s) == s = NoneYet \/ s = [kind |-> "source", file |-> s.file, key |-> s.key]
\* A name of a model has a part, its number.
IsModelName(name) == name.sel \in BOOLEAN /\ name.parts \in Seq(STRING) \ {<<>>}
\* An address names a bit, or the two of a Dbpos.
IsSaddr(sa) ==
  /\ sa.names \in Pieces /\ Len(sa.names) \in 1..2
  /\ sa.marked \in BOOLEAN /\ sa.tail \in Seq(Int)
\* A zip tells its members apart; what is no zip is one document.
IsData(data) ==
  /\ \A m, o \in data.members : m /= o => m.order /= o.order
  /\ \A m \in data.members :
       /\ m.order \in Nat /\ m.oversized \in BOOLEAN
       /\ m.doc.models \in Seq(Seq(STRING) \ {<<>>})
  /\ ~data.zip => \E m \in data.members : data.members = {m} /\ m.role = "other" /\ ~m.oversized

ASSUME ReadersAssumption ==
  /\ \A sa \in ShortAddresses : IsSaddr(sa)
  /\ \A t \in Attribute : t.s_addr.names \in Pieces /\ t.s_addr.tail \in Seq(Int)
                          /\ t.s_addr.marked \in BOOLEAN
  /\ \A d \in PointDocs : \A r \in DOMAIN d :
       d[r].resolves \in BOOLEAN /\ d[r].attrs \in Seq(Attribute)
  /\ \A d \in GooseDocs : \A r \in DOMAIN d :
       /\ d[r].resolves \in BOOLEAN
       /\ d[r].private \in Seq(Declaration) /\ d[r].ext_refs \in Seq(ExtRef)
  /\ \A c \in LookupCalls :
       /\ c.job = "lookup" /\ c.registry \in {"relay_models", "wordbits"}
       /\ IsModelName(c.relaytype)
       /\ IsList(c.files)
       /\ \A i \in DOMAIN c.files : \A n \in NamesOf(c.files[i]) : IsModelName(n)
  /\ \A c \in CheckCalls : c.job = "check" /\ c.values \in Seq(Pieces \ {<<>>})
  /\ \A c \in ImportCalls :
       /\ c.job = "import" /\ IsData(c.data) /\ c.merge_kinds \in BOOLEAN
       /\ c.existing.model /= <<>>
       /\ c.existing = [model |-> c.existing.model, model_aliases |-> c.existing.model_aliases,
                        always_valid |-> c.existing.always_valid,
                        check_kinds |-> c.existing.check_kinds, kinds |-> c.existing.kinds,
                        bits |-> c.existing.bits, patterns |-> c.existing.patterns]
  /\ \A c \in BlockCalls :
       /\ c.job = "block" /\ c.type \in DOMAIN Upper /\ c.instance \in Int
       /\ IsList(c.raws)
       /\ \A i \in DOMAIN c.raws : c.raws[i].key \in DOMAIN Upper /\ c.raws[i].xml_types \in Pieces
  /\ \A c \in AnalogCalls :
       /\ c.job = "analog" /\ IsList(c.rules) /\ IsList(c.groups)
       /\ \A i \in DOMAIN c.groups : IsList(c.groups[i].patterns)
  /\ \A c \in IdentifierCalls :
       /\ c.job = "identifiers" /\ IsList(c.dir)
       /\ \A i \in DOMAIN c.dir : IsList(c.dir[i].text) /\ c.dir[i].readable \in BOOLEAN
       /\ c.raw.ip /= NoneYet /\ \A s \in {c.raw.ip, c.raw.relay_id, c.raw.mac_address} : IsSource(s)
  /\ \A c \in ParseCalls : c.job = "parse"
  /\ \A c \in CompareCalls :
       /\ c.job \in {"compare", "compare_n"} /\ IsList(c.values)
       /\ c.kind \in {"logic", "number", "set_list", "string", "enum"}
       /\ c.job = "compare" => c.kind = "logic" /\ Len(c.values) = 2

VARIABLES call, done, answer
vars == <<call, done, answer>>

-----------------------------------------------------------------------------
Waiting == done = FALSE /\ answer = NoneYet
IsReaderCall ==
  \/ call \in [job : {"address"}, sa : ShortAddresses]
  \/ call \in [job : {"points"}, doc : PointDocs]
  \/ call \in [job : {"goose"}, doc : GooseDocs]
  \/ call \in BlockCalls \/ call \in AnalogCalls \/ call \in IdentifierCalls
  \/ call \in LookupCalls \/ call \in CheckCalls \/ call \in ImportCalls
  \/ call \in ParseCalls \/ call \in CompareCalls
Init == Waiting /\ IsReaderCall

Answer(job) == ~done /\ call.job = job /\ done' = TRUE /\ UNCHANGED call
ReadAddress == Answer("address") /\ answer' = ParseSaddr(call.sa)
ReadPoints == Answer("points") /\ answer' = SelShortAddresses(call.doc)
ReadSubscriptions == Answer("goose") /\ answer' = SelGooseSubscriptions(call.doc)
Profile == [blocks |-> Blocks(call.raws), by_xml |-> ByXmlType(call.raws)]
AskBlock ==
  /\ Answer("block")
  /\ answer' = [bit |-> DerivedBit(Profile, call.type, call.instance),
                label |-> PortLabel(Profile, call.type, "input", 0)]
AnalogProfile ==
  [rules |-> ParseAliasRules([rules |-> call.rules]), windings |-> call.windings,
   analog_groups |-> ParseAnalogGroups(call.groups)]
AskAnalog ==
  /\ Answer("analog")
  /\ answer' = [group |-> AnalogGroupFor(AnalogProfile, call.name),
                name |-> ResolveAnalogName(AnalogProfile, call.name)]
AskIdentifiers ==
  Answer("identifiers") /\ answer' = ReadIdentifiers(call.dir, call.raw, Cidr)
AskLookup ==
  Answer("lookup") /\ answer' = Lookup(call.files, call.relaytype, call.registry)
JudgeValues ==
  /\ Answer("check")
  /\ answer' = [ok |-> call.wbs = None \/ \A i \in DOMAIN call.values : Check(call.wbs, call.values[i], call.kind),
                twice |-> Duplicates(call.values, AlwaysValidFor(call.wbs))]
ImportProfile == Answer("import") /\ answer' = ParseProfile(call.data)
ReadEquation == Answer("parse") /\ answer' = Parse(call.src, call.dialect)
CompareTwo ==
  Answer("compare") /\ answer' = CompareLogic(call.values[1], call.values[2], call.dialect)
CompareMany == Answer("compare_n") /\ answer' = CompareN(call.values, call.kind, call.dialect)
Next ==
  \/ ReadAddress \/ ReadPoints \/ ReadSubscriptions \/ AskBlock \/ AskAnalog
  \/ AskIdentifiers \/ AskLookup \/ JudgeValues \/ ImportProfile
  \/ ReadEquation \/ CompareTwo \/ CompareMany
Spec == Init /\ [][Next]_vars

-----------------------------------------------------------------------------
(* Properties: what each answer has to do with its call *)

Answered(job) == call.job = job /\ done

\* decode_bit and sel_short_addresses: what an address encodes is decoded as the
\* bits that were set, and each bit is read where it tells its state best.
BitsAtTheirState ==
  /\ Answered("address") => ReadsBackTheBits(call.sa)
  /\ Answered("points") =>
       \A r \in DOMAIN call.doc :
         call.doc[r].resolves => ReadAtItsState(call.doc[r].attrs, answer[r])

\* sel_goose_subscriptions: a health bit is shown for its own publisher only, and
\* an IED that does not resolve has no subscriptions.
HealthOfPublisher ==
  Answered("goose") =>
    /\ \A r \in DOMAIN answer : call.doc[r].resolves
    /\ \A r \in DOMAIN call.doc : call.doc[r].resolves =>
         HealthOfItsPublisher(call.doc[r], IF r \in DOMAIN answer THEN answer[r] ELSE <<>>)

\* RelayModel: the block that labels a pin is the one its bit is derived from, and no
\* entry of a profile stands in another's way.
ModelAnswers ==
  /\ Answered("block") => BlockAnswersAgree(call.raws, call.type, call.instance, answer.bit)
  /\ Answered("analog") =>
       AnalogAnswered(call.rules, call.groups, call.windings, call.name, answer)

\* read_identifiers: an identifier is what the first line that says it says, in the
\* first file of its name, unless a line that ends after its key or its comma comes
\* before; and what a line says is never left out.
IdentifiersRead ==
  Answered("identifiers") => IdentifiersAnswered(call.dir, call.raw, Cidr, answer)
\* What a relay profile is asked is answered by the right entry of it, and what it
\* says to read of the relay by the right line of the right file.
ProfileAnswers == ModelAnswers /\ IdentifiersRead

\* lookup of both model registries: however many of the files are the overlay's, one
\* of those stands before the package's wherever it names what is asked for.
OverlayFirst ==
  Answered("lookup") =>
    \A n \in DOMAIN call.files :
      OverlayDecides(call.files, n, call.relaytype, call.registry, answer)

\* WordbitSet.check and duplicates: a free slot is never warned about.
FreeSlotsQuiet == Answered("check") => FreeSlotsAreQuiet(call.wbs, call.kind, call.values)

\* dnp_profile.parse: the profile of a zip is its first member that reads, dnpDP.xml
\* before the others, whatever members before it do not.
FirstMemberReads == Answered("import") => ReadsFirst(call.data.members, answer)

\* entry_from_profiles: importing a profile takes no bit, pattern or placeholder away,
\* and when it merges no name that was accepted where it was judged before.
NamesAreKept ==
  Answered("import") => ImportKeeps(call.existing, call.merge_kinds, call.values, answer)
\* An import loses neither the profile in a zip nor what the file had.
ImportLosesNothing == FirstMemberReads /\ NamesAreKept

\* compare_n: the worst verdict of any pair is not hidden from the pivot, but for
\* tolerances that add up and truth tables too large to make.
PivotIsWorst ==
  Answered("compare_n") => PivotSeesWorst(call.values, call.kind, call.dialect, answer)
=============================================================================
