------------------------------- MODULE DnpMap -------------------------------
(***************************************************************************)
(* dnp_map: the SET_D<n>.TXT files of one relay, parsed into lines, edited *)
(* and written back.  These bytes go into a protection relay.  A text is   *)
(* one physical line; what it holds is a body between so many pairs of     *)
(* quotes.  The editor is the host's: it checks a value before set_value.  *)
(***************************************************************************)
EXTENDS Naturals, Sequences

CONSTANTS
  Session,   \* the files of the relay, in the order discover() sorts them
  Key, NoKey,
  PointOf,   \* PointOf[k]: kind, index and modifier, where k is a point's key
  Body, Name,\* what a value holds; what a section is called
  Cut,       \* what is left of a body broken off by a control character
  Forbidden, \* bodies that check_value refuses
  Texts,     \* Texts[s]: the file as QuickSet wrote it
  Stem,      \* Stem[s]: the session name its file name gives, set_d<n>.txt
  NoName,
  MaxQuotes  \* bound: pairs of quotes around a value that is written

Contents == Body \cup Name \cup {Cut}
NoPoint == [kind |-> "none", index |-> 0, mod |-> "none"]
Value == [quotes : 0..(MaxQuotes + 1), body : Contents]
\* A line that is not KEY,VALUE has no key; one that is, has.
Text ==
  {t \in [shape : {"info", "section", "pair", "other"}, key : Key \cup {NoKey},
          quotes : 0..(MaxQuotes + 1), body : Contents] :
     t.shape = "pair" <=> t.key /= NoKey}
Line == [raw : Text, key : Key \cup {NoKey}, value : Value,
         quoted : BOOLEAN, edited : BOOLEAN]

ASSUME DnpAssumption ==
  /\ Session \in Nat /\ MaxQuotes \in Nat /\ NoName \notin Contents
  /\ NoKey \notin Key /\ Cut \notin Body \cup Name /\ Forbidden \subseteq Body
  /\ PointOf \in [Key -> [kind : STRING, index : Nat, mod : {"none", "SCA", "DBD"}]]
  /\ Texts \in [1..Session -> Seq(Text)]
  /\ Stem \in [1..Session -> Name]
  /\ \A s \in 1..Session : \A i \in DOMAIN Texts[s] : Texts[s][i].body /= Cut

VARIABLES
  disk,   \* disk[s]: the file, as it is now
  lines,  \* lines[s]: SetDnpFile.lines, or empty while it is not open
  opened  \* history: the file as it was parsed
vars == <<disk, lines, opened>>

-----------------------------------------------------------------------------
(* RawLine, parse, serialize *)

\* The last header before line i is [INFO]: its pairs are not settings.
InInfo(file, i) ==
  \E j \in 1..(i - 1) :
    /\ file[j].shape = "info"
    /\ \A m \in (j + 1)..(i - 1) : file[m].shape /= "section"

\* KEY,"VALUE" loses one pair of quotes; anything else is carried as it is.
ParsedLine(text, info) ==
  LET keyed  == text.shape = "pair" /\ ~info
      quoted == keyed /\ text.quotes > 0
  IN  [raw |-> text,
       key |-> IF keyed THEN text.key ELSE NoKey,
       value |-> [quotes |-> IF quoted THEN text.quotes - 1 ELSE text.quotes,
                  body |-> text.body],
       quoted |-> quoted,
       edited |-> FALSE]

Parse(file) == [i \in DOMAIN file |-> ParsedLine(file[i], InInfo(file, i))]

\* Mutant: the quotes forgotten.
EmitBare(l) ==
  IF ~l.edited THEN l.raw
  ELSE [shape |-> "pair", key |-> l.key, quotes |-> l.value.quotes, body |-> l.value.body]

\* raw, until the line is edited.  Of a body check_value refuses, the file gets
\* what stands before the control character, or nothing: encode() raises.
Emit(l) ==
  IF ~l.edited THEN l.raw
  ELSE IF l.value.body \in Forbidden
    THEN [shape |-> "pair", key |-> l.key, quotes |-> 0, body |-> Cut]
    ELSE [shape |-> "pair", key |-> l.key,
          quotes |-> l.value.quotes + (IF l.quoted THEN 1 ELSE 0),
          body |-> l.value.body]

Serialize(ls) == [i \in DOMAIN ls |-> Emit(ls[i])]

\* The lines of a key; index_of takes the first.
LinesOf(ls, k) == {i \in DOMAIN ls : ls[i].key = k}
IndexOf(ls, k) == CHOOSE i \in LinesOf(ls, k) : \A j \in LinesOf(ls, k) : i <= j
GetValue(ls, k) == ls[IndexOf(ls, k)].value
\* index_of raises KeyError for "" and for a key the file lacks.
HasKey(ls, k) == k /= NoKey /\ LinesOf(ls, k) /= {}

\* Mutant: no check.
CheckNothing(v) == TRUE

\* check_value: no CR, LF or 0x1C, and Latin-1 throughout.
CheckValue(v) == v.body \notin Forbidden

-----------------------------------------------------------------------------
(* points(), extras() *)

PointAt(ls, i) == IF ls[i].key = NoKey THEN NoPoint ELSE PointOf[ls[i].key]
IsPoint(ls, i) == PointAt(ls, i) /= NoPoint
\* The rows of the editor, each at the line of its base key.
Bases(ls) == {i \in DOMAIN ls : IsPoint(ls, i) /\ PointAt(ls, i).mod = "none"}
\* The line of a row's SCA or DBD column: the last one wins.
Column(ls, b, mod) ==
  LET p == PointAt(ls, b)
      candidates == {i \in DOMAIN ls :
                       PointAt(ls, i) = [kind |-> p.kind, index |-> p.index, mod |-> mod]}
  IN  {i \in candidates : \A j \in candidates : j <= i}
Columns(ls) == UNION {Column(ls, b, mod) : b \in Bases(ls), mod \in {"SCA", "DBD"}}
PointKeys(ls) == {ls[i].key : i \in Bases(ls) \cup Columns(ls)}
\* Mutant: orphans left out.
ExtrasNotPoints(ls) == {i \in DOMAIN ls : ls[i].key /= NoKey /\ ~IsPoint(ls, i)}

\* Shown read-only: keys that are no point's, and modifiers without their point.
Extras(ls) ==
  {i \in DOMAIN ls :
     /\ ls[i].key /= NoKey
     /\ \/ ~IsPoint(ls, i)
        \/ /\ PointAt(ls, i).mod /= "none"
           /\ ~ \E b \in Bases(ls) : /\ PointAt(ls, b).kind = PointAt(ls, i).kind
                                     /\ PointAt(ls, b).index = PointAt(ls, i).index}

-----------------------------------------------------------------------------
(* discover(): the name of each session *)

\* The first section that is not [INFO].
SectionOf(file) ==
  LET headers == {i \in DOMAIN file : file[i].shape = "section"}
  IN  IF headers = {} THEN NoName
      ELSE file[CHOOSE i \in headers : \A j \in headers : i <= j].body

\* Mutant: no fallback for a name that is taken.
NamesOfSections(files) ==
  [s \in 1..Session |-> IF SectionOf(files[s]) = NoName THEN Stem[s]
                        ELSE SectionOf(files[s])]

\* The section's name; the file's where there is none, or it is taken.
SessionNames(files) ==
  LET name[s \in 1..Session] ==
        LET section == SectionOf(files[s])
        IN  IF section = NoName \/ \E t \in 1..(s - 1) : name[t] = section
              THEN Stem[s] ELSE section
  IN  name

-----------------------------------------------------------------------------
Init ==
  /\ disk = Texts
  /\ lines = [s \in 1..Session |-> <<>>]
  /\ opened = [s \in 1..Session |-> <<>>]

Open(s) ==
  /\ lines[s] = <<>>
  /\ lines' = [lines EXCEPT ![s] = Parse(disk[s])]
  /\ opened' = [opened EXCEPT ![s] = disk[s]]
  /\ UNCHANGED disk

\* The host has the value checked; set_value keeps raw and quoted.
SetValue(s, k, v) ==
  /\ HasKey(lines[s], k)
  /\ CheckValue(v)
  /\ GetValue(lines[s], k) /= v
  /\ lines' = [lines EXCEPT ![s][IndexOf(lines[s], k)] =
                  [@ EXCEPT !.value = v, !.edited = TRUE]]
  /\ UNCHANGED <<disk, opened>>

\* The host writes serialize() back, and forgets what it parsed.
Save(s) ==
  /\ lines[s] /= <<>>
  /\ disk' = [disk EXCEPT ![s] = Serialize(lines[s])]
  /\ lines' = [lines EXCEPT ![s] = <<>>]
  /\ UNCHANGED opened

Next == \E s \in 1..Session :
          \/ Open(s) \/ Save(s)
          \/ \E k \in Key \cup {NoKey}, v \in [quotes : 0..MaxQuotes, body : Body] :
               SetValue(s, k, v)
Spec == Init /\ [][Next]_vars

-----------------------------------------------------------------------------
(* Properties *)

\* Types of the variables.
DnpTypeOK ==
  /\ disk \in [1..Session -> Seq(Text)] /\ opened \in [1..Session -> Seq(Text)]
  /\ lines \in [1..Session -> Seq(Line)]

\* The contract of the module, under edits: however often values are set, a
\* line whose value is what it was when the file was opened, and a line that is
\* no setting, is written back exactly as it was read.
UntouchedLineKept ==
  \A s \in 1..Session : \A i \in DOMAIN lines[s] :
    \/ lines[s][i].key = NoKey
    \/ lines[s][i].value = Parse(opened[s])[i].value
    => Serialize(lines[s])[i] = opened[s][i]

\* What is written is read back: the same keys in the same lines, each with
\* the value that was set.  A value that is itself in quotes, on a line without
\* quotes, is the exception: it would come back without them.
ReadsBack ==
  \A s \in 1..Session :
    LET again == Parse(Serialize(lines[s]))
    IN  \A i \in DOMAIN lines[s] :
          /\ again[i].key = lines[s][i].key
          /\ lines[s][i].quoted \/ lines[s][i].value.quotes = 0
               => again[i].value = lines[s][i].value

\* The editor shows every setting, and in one place: as a row, as a column of
\* a row, or among the extras -- unless the file has two keys for one point.
ShownOnce ==
  \A s \in 1..Session :
    LET ls == lines[s]
        twin(i) == \E j \in DOMAIN ls \ {i} :
                     IsPoint(ls, i) /\ PointAt(ls, i) = PointAt(ls, j)
    IN  \A i \in DOMAIN ls :
          /\ ls[i].key /= NoKey /\ ~twin(i) =>
               i \in Bases(ls) \cup Columns(ls) \cup Extras(ls)
          /\ i \in Extras(ls) => ls[i].key \notin PointKeys(ls)

\* discover() gives two sessions one name only where the later one falls back to
\* the name of its file, its section missing or taken, and that is what the
\* section or the file name of the other says.  A host keys its edits by that
\* name: one of the two would be lost.
DistinctNames ==
  LET names == SessionNames(disk)
      FallsBack(t) ==
        SectionOf(disk[t]) \in {NoName} \cup {names[r] : r \in 1..(t - 1)}
  IN  \A t \in 1..Session : \A s \in 1..(t - 1) :
        names[s] = names[t] =>
          FallsBack(t) /\ Stem[t] \in {SectionOf(disk[s]), Stem[s]}
=============================================================================
