---------------------------- MODULE DnpMapProofs ----------------------------
(***************************************************************************)
(* Proofs about DnpMap, for any files, keys and edits: the round trip,     *)
(* what the editor shows, and the names of the sessions.                   *)
(***************************************************************************)
EXTENDS DnpMap, NumberLemmas

\* Files with the same shapes line by line are in [INFO] at the same lines.
LEMMA SameShapesSameInfo ==
  ASSUME NEW f, NEW g, NEW n \in Nat, NEW i \in 1..n,
         \A j \in 1..n : f[j].shape = g[j].shape
  PROVE  InInfo(f, i) <=> InInfo(g, i)
  <1>1. \A j \in 1..(i - 1) : j \in 1..n
    OBVIOUS
  <1>2. \A j \in 1..(i - 1) : \A m \in (j + 1)..(i - 1) : m \in 1..n
    OBVIOUS
  <1> QED
    BY <1>1, <1>2 DEF InInfo

LEMMA ParsedLineType ==
  ASSUME NEW t \in Text, NEW info \in BOOLEAN
  PROVE  ParsedLine(t, info) \in Line
  <1>1. t.quotes \in 0..(MaxQuotes + 1) /\ MaxQuotes \in Nat
    BY DnpAssumption DEF Text
  <1>2. t.quotes > 0 => t.quotes - 1 \in 0..(MaxQuotes + 1)
    BY <1>1
  <1>3. t.body \in Contents /\ t.key \in Key \cup {NoKey}
    BY DEF Text
  <1>4. ParsedLine(t, info).value \in Value
    BY <1>1, <1>2, <1>3 DEF ParsedLine, Value
  <1> QED
    BY <1>3, <1>4 DEF ParsedLine, Line

LEMMA ParseType ==
  ASSUME NEW f \in Seq(Text)
  PROVE  Parse(f) \in Seq(Line) /\ DOMAIN Parse(f) = DOMAIN f
  <1>1. \A i \in DOMAIN f : ParsedLine(f[i], InInfo(f, i)) \in Line
    <2> TAKE i \in DOMAIN f
    <2>1. f[i] \in Text
      OBVIOUS
    <2>2. InInfo(f, i) \in BOOLEAN
      BY DEF InInfo
    <2> QED
      BY <2>1, <2>2, ParsedLineType
  <1>2. DOMAIN f = 1..Len(f) /\ Len(f) \in Nat
    OBVIOUS
  <1> QED
    BY <1>1, <1>2 DEF Parse

-----------------------------------------------------------------------------
(* The invariant *)

\* A line of an open file against the line as it was parsed: what is written
\* back from it has what it needs, and only a setting was ever edited, to a
\* value that was checked.
Keeps(l, p) ==
  /\ l.raw = p.raw /\ l.key = p.key /\ l.quoted = p.quoted
  /\ ~l.edited => l.value = p.value
  /\ l.edited => /\ l.key /= NoKey
                 /\ l.value \in [quotes : 0..MaxQuotes, body : Body \ Forbidden]
LinesInv ==
  \A s \in 1..Session : \A i \in DOMAIN lines[s] :
    i \in DOMAIN opened[s] /\ Keeps(lines[s][i], Parse(opened[s])[i])
DnpInv == DnpTypeOK /\ LinesInv

\* What such a line is written as.
LEMMA EmitKeeps ==
  ASSUME NEW t \in Text, NEW info \in BOOLEAN, NEW l \in Line,
         Keeps(l, ParsedLine(t, info))
  PROVE  /\ Emit(l) \in Text /\ Emit(l).shape = t.shape
         /\ l.key = NoKey \/ l.value = ParsedLine(t, info).value => Emit(l) = t
         /\ ParsedLine(Emit(l), info).key = l.key
         /\ l.quoted \/ l.value.quotes = 0 => ParsedLine(Emit(l), info).value = l.value
  <1> DEFINE p == ParsedLine(t, info)
  <1>1. /\ l.raw = t /\ l.key = p.key /\ l.quoted = p.quoted
        /\ t.quotes \in 0..(MaxQuotes + 1) /\ MaxQuotes \in Nat
        /\ NoKey \notin Key /\ Cut \notin Body
        /\ t.shape = "pair" <=> t.key /= NoKey
    BY DnpAssumption DEF Keeps, ParsedLine, Text
  <1>2. CASE ~l.edited
    <2>1. Emit(l) = t /\ l.value = p.value
      BY <1>1, <1>2 DEF Emit, Keeps
    <2> QED
      BY <1>1, <2>1 DEF ParsedLine
  <1>3. CASE l.edited
    <2>1. /\ l.key /= NoKey /\ l.value.quotes \in 0..MaxQuotes
          /\ l.value.body \in Body \ Forbidden
          /\ l.value = [quotes |-> l.value.quotes, body |-> l.value.body]
      BY <1>3 DEF Keeps
    <2>2. t.shape = "pair" /\ ~info /\ l.key = t.key /\ (l.quoted <=> t.quotes > 0)
      BY <1>1, <2>1 DEF ParsedLine
    <2>3. Emit(l) = [shape |-> "pair", key |-> t.key,
                     quotes |-> l.value.quotes + (IF t.quotes > 0 THEN 1 ELSE 0),
                     body |-> l.value.body]
      BY <1>3, <2>1, <2>2 DEF Emit
    <2>4. Emit(l).quotes \in 0..(MaxQuotes + 1)
      BY <1>1, <2>1, <2>3
    <2>5. Emit(l) \in Text
      BY <1>1, <2>1, <2>2, <2>3, <2>4 DEF Text, Contents
    <2>6. ASSUME l.value = p.value PROVE Emit(l) = t
      <3>1. /\ l.value.body = t.body
            /\ l.value.quotes = IF t.quotes > 0 THEN t.quotes - 1 ELSE t.quotes
        BY <2>2, <2>6 DEF ParsedLine
      <3>2. l.value.quotes + (IF t.quotes > 0 THEN 1 ELSE 0) = t.quotes
        BY <1>1, <3>1
      <3>3. t = [shape |-> t.shape, key |-> t.key, quotes |-> t.quotes, body |-> t.body]
        BY DEF Text
      <3> QED
        BY <2>2, <2>3, <3>1, <3>2, <3>3
    <2>7. ParsedLine(Emit(l), info).key = l.key
      BY <2>2, <2>3 DEF ParsedLine
    <2>8. ASSUME l.quoted \/ l.value.quotes = 0
          PROVE  ParsedLine(Emit(l), info).value = l.value
      <3>1. CASE l.quoted
        <4>1. Emit(l).quotes > 0 /\ Emit(l).quotes - 1 = l.value.quotes
          BY <2>1, <2>2, <2>3, <3>1
        <4> QED
          BY <2>1, <2>2, <2>3, <4>1 DEF ParsedLine
      <3>2. CASE ~l.quoted
        <4>1. Emit(l).quotes = 0 /\ l.value.quotes = 0
          BY <2>1, <2>2, <2>3, <2>8, <3>2
        <4> QED
          BY <2>1, <2>2, <2>3, <4>1 DEF ParsedLine
      <3> QED
        BY <3>1, <3>2
    <2> QED
      BY <2>1, <2>2, <2>3, <2>5, <2>6, <2>7, <2>8
  <1> QED
    BY <1>2, <1>3

\* The same, of a line of an open file.
LEMMA LineEmitted ==
  ASSUME DnpInv, NEW s \in 1..Session, NEW i \in DOMAIN lines[s]
  PROVE  LET l == lines[s][i]
             t == opened[s][i]
             p == ParsedLine(t, InInfo(opened[s], i))
         IN  /\ i \in DOMAIN opened[s] /\ t \in Text /\ l \in Line
             /\ p = Parse(opened[s])[i] /\ Keeps(l, p)
  <1>1. lines[s] \in Seq(Line) /\ opened[s] \in Seq(Text)
    BY DEF DnpInv, DnpTypeOK
  <1>2. i \in DOMAIN opened[s] /\ Keeps(lines[s][i], Parse(opened[s])[i])
    BY DEF DnpInv, LinesInv
  <1>3. opened[s][i] \in Text /\ lines[s][i] \in Line
    BY <1>1, <1>2
  <1>4. ParsedLine(opened[s][i], InInfo(opened[s], i)) = Parse(opened[s])[i]
    BY <1>2 DEF Parse
  <1> QED
    BY <1>2, <1>3, <1>4

-----------------------------------------------------------------------------
LEMMA InitDnpInv == Init => DnpInv
  BY DnpAssumption DEF Init, DnpInv, DnpTypeOK, LinesInv

LEMMA IndexOfIsALine ==
  ASSUME NEW ls \in Seq(Line), NEW k, HasKey(ls, k)
  PROVE  IndexOf(ls, k) \in DOMAIN ls /\ ls[IndexOf(ls, k)].key = k
  <1>1. LinesOf(ls, k) \in SUBSET Nat /\ LinesOf(ls, k) /= {}
    BY DEF HasKey, LinesOf
  <1>2. \E i \in LinesOf(ls, k) : \A j \in LinesOf(ls, k) : i <= j
    BY <1>1, SmallestExists
  <1>3. IndexOf(ls, k) \in LinesOf(ls, k)
    BY <1>2 DEF IndexOf
  <1> QED
    BY <1>3 DEF LinesOf

\* A parsed line keeps itself.
LEMMA OpenDnpInv ==
  ASSUME DnpInv, NEW s \in 1..Session, Open(s)
  PROVE  DnpInv'
  <1>1. disk[s] \in Seq(Text)
    BY DEF DnpInv, DnpTypeOK
  <1>2. /\ lines' = [lines EXCEPT ![s] = Parse(disk[s])]
        /\ opened' = [opened EXCEPT ![s] = disk[s]] /\ disk' = disk
    BY DEF Open
  <1>3. Parse(disk[s]) \in Seq(Line) /\ DOMAIN Parse(disk[s]) = DOMAIN disk[s]
    BY <1>1, ParseType
  <1>4. DnpTypeOK'
    BY <1>1, <1>2, <1>3 DEF DnpInv, DnpTypeOK
  <1>5. \A i \in DOMAIN disk[s] : Keeps(Parse(disk[s])[i], Parse(disk[s])[i])
    BY DEF Keeps, Parse, ParsedLine
  <1>6. LinesInv'
    <2> SUFFICES ASSUME NEW u \in 1..Session, NEW i \in DOMAIN lines'[u]
                 PROVE  i \in DOMAIN opened'[u] /\ Keeps(lines'[u][i], Parse(opened'[u])[i])
      BY DEF LinesInv
    <2>1. CASE u = s
      BY <1>2, <1>3, <1>5, <2>1 DEF DnpInv, DnpTypeOK
    <2>2. CASE u /= s
      BY <1>2, <2>2 DEF DnpInv, DnpTypeOK, LinesInv
    <2> QED
      BY <2>1, <2>2
  <1> QED
    BY <1>4, <1>6 DEF DnpInv

\* set_value leaves raw, key and quoted of its line, and every other line.
LEMMA SetValueDnpInv ==
  ASSUME DnpInv, NEW s \in 1..Session, NEW k \in Key \cup {NoKey},
         NEW v \in [quotes : 0..MaxQuotes, body : Body], SetValue(s, k, v)
  PROVE  DnpInv'
  <1>1. lines[s] \in Seq(Line) /\ lines \in [1..Session -> Seq(Line)]
    BY DEF DnpInv, DnpTypeOK
  <1>2. PICK n : n = IndexOf(lines[s], k)
    OBVIOUS
  <1>3. n \in DOMAIN lines[s] /\ lines[s][n].key = k /\ k /= NoKey
    BY <1>1, <1>2, IndexOfIsALine DEF SetValue, HasKey
  <1> DEFINE l == lines[s][n]
             m == [l EXCEPT !.value = v, !.edited = TRUE]
  <1>4. lines' = [lines EXCEPT ![s] = [lines[s] EXCEPT ![n] = m]]
        /\ opened' = opened /\ disk' = disk
    BY <1>2 DEF SetValue
  <1>5. v \in Value /\ v \in [quotes : 0..MaxQuotes, body : Body \ Forbidden]
    <2>1. v.quotes \in 0..(MaxQuotes + 1)
      BY DnpAssumption
    <2>2. v.body \in Body \ Forbidden
      BY DEF SetValue, CheckValue
    <2> QED
      BY <2>1, <2>2 DEF Value, Contents
  <1>6. l \in Line
    BY <1>1, <1>3
  <1>7. m \in Line
    BY <1>5, <1>6 DEF Line
  <1>8. [lines[s] EXCEPT ![n] = m] \in Seq(Line)
    BY <1>1, <1>3, <1>7
  <1>9. DnpTypeOK'
    BY <1>4, <1>8 DEF DnpInv, DnpTypeOK
  <1>10. /\ m.raw = l.raw /\ m.key = k /\ m.quoted = l.quoted
         /\ m.value = v /\ m.edited = TRUE
    BY <1>3, <1>6 DEF Line
  <1>11. n \in DOMAIN opened[s] /\ Keeps(l, Parse(opened[s])[n])
    BY <1>3 DEF DnpInv, LinesInv
  <1>12. Keeps(m, Parse(opened[s])[n])
    BY <1>3, <1>5, <1>10, <1>11 DEF Keeps
  <1>13. LinesInv'
    <2> SUFFICES ASSUME NEW u \in 1..Session, NEW i \in DOMAIN lines'[u]
                 PROVE  i \in DOMAIN opened[u] /\ Keeps(lines'[u][i], Parse(opened[u])[i])
      BY <1>4 DEF LinesInv
    <2>1. CASE u = s /\ i = n
      <3>1. lines'[u][i] = m
        BY <1>1, <1>3, <1>4, <2>1
      <3> QED
        BY <1>11, <1>12, <2>1, <3>1
    <2>2. CASE ~(u = s /\ i = n)
      <3>1. i \in DOMAIN lines[u] /\ lines'[u][i] = lines[u][i]
        BY <1>1, <1>3, <1>4, <2>2
      <3> QED
        BY <3>1 DEF DnpInv, LinesInv
    <2> QED
      BY <2>1, <2>2
  <1> QED
    BY <1>9, <1>13 DEF DnpInv

\* What is saved is a file again.
LEMMA SaveDnpInv ==
  ASSUME DnpInv, NEW s \in 1..Session, Save(s)
  PROVE  DnpInv'
  <1>1. \A i \in DOMAIN lines[s] : Emit(lines[s][i]) \in Text
    <2> TAKE i \in DOMAIN lines[s]
    <2>1. InInfo(opened[s], i) \in BOOLEAN
      BY DEF InInfo
    <2> QED
      BY <2>1, LineEmitted, EmitKeeps
  <1>2. lines[s] \in Seq(Line)
    BY DEF DnpInv, DnpTypeOK
  <1>3. DOMAIN lines[s] = 1..Len(lines[s]) /\ Len(lines[s]) \in Nat
    BY <1>2
  <1>4. Serialize(lines[s]) \in Seq(Text)
    BY <1>1, <1>3 DEF Serialize
  <1>5. /\ disk' = [disk EXCEPT ![s] = Serialize(lines[s])]
        /\ lines' = [lines EXCEPT ![s] = <<>>] /\ opened' = opened
    BY DEF Save
  <1>6. DnpTypeOK'
    BY <1>4, <1>5 DEF DnpInv, DnpTypeOK
  <1>7. LinesInv'
    BY <1>5 DEF DnpInv, DnpTypeOK, LinesInv
  <1> QED
    BY <1>6, <1>7 DEF DnpInv

LEMMA NextDnpInv == DnpInv /\ [Next]_vars => DnpInv'
  <1>1. DnpInv /\ UNCHANGED vars => DnpInv'
    BY DEF vars, DnpInv, DnpTypeOK, LinesInv
  <1> QED
    BY <1>1, OpenDnpInv, SetValueDnpInv, SaveDnpInv DEF Next

-----------------------------------------------------------------------------
(* The theorems *)

\* The files and the parsed lines keep their types.
THEOREM DnpTyped == Spec => []DnpTypeOK
  <1>1. DnpInv => DnpTypeOK
    BY DEF DnpInv
  <1> QED
    BY <1>1, InitDnpInv, NextDnpInv, PTL DEF Spec

\* Whatever was edited, and edited back, a line whose value is the one that was
\* read is written byte for byte as it was read; so is every line that is no
\* setting.
THEOREM RoundTrip == Spec => []UntouchedLineKept
  <1>1. DnpInv => UntouchedLineKept
    <2> SUFFICES ASSUME DnpInv, NEW s \in 1..Session, NEW i \in DOMAIN lines[s],
                        \/ lines[s][i].key = NoKey
                        \/ lines[s][i].value = Parse(opened[s])[i].value
                 PROVE  Serialize(lines[s])[i] = opened[s][i]
      BY DEF UntouchedLineKept
    <2>1. InInfo(opened[s], i) \in BOOLEAN
      BY DEF InInfo
    <2>2. Emit(lines[s][i]) = opened[s][i]
      BY <2>1, LineEmitted, EmitKeeps
    <2> QED
      BY <2>2 DEF Serialize
  <1> QED
    BY <1>1, InitDnpInv, NextDnpInv, PTL DEF Spec

\* What is written is read back with the same keys and the values that were
\* set, but for a value in quotes on a line without.
THEOREM WhatIsWrittenIsRead == Spec => []ReadsBack
  <1>1. DnpInv => ReadsBack
    <2> SUFFICES ASSUME DnpInv, NEW s \in 1..Session, NEW i \in DOMAIN lines[s]
                 PROVE  LET again == Parse(Serialize(lines[s]))
                        IN  /\ again[i].key = lines[s][i].key
                            /\ lines[s][i].quoted \/ lines[s][i].value.quotes = 0
                                 => again[i].value = lines[s][i].value
      BY DEF ReadsBack
    <2>1. \A j \in DOMAIN lines[s] : Serialize(lines[s])[j].shape = opened[s][j].shape
      <3> TAKE j \in DOMAIN lines[s]
      <3>1. InInfo(opened[s], j) \in BOOLEAN
        BY DEF InInfo
      <3> QED
        BY <3>1, LineEmitted, EmitKeeps DEF Serialize
    <2>2. DOMAIN lines[s] = 1..Len(lines[s]) /\ Len(lines[s]) \in Nat
      BY DEF DnpInv, DnpTypeOK
    <2>3. InInfo(Serialize(lines[s]), i) <=> InInfo(opened[s], i)
      BY <2>1, <2>2, SameShapesSameInfo
    <2>4. InInfo(opened[s], i) \in BOOLEAN /\ InInfo(Serialize(lines[s]), i) \in BOOLEAN
      BY DEF InInfo
    <2>5. Parse(Serialize(lines[s]))[i]
            = ParsedLine(Emit(lines[s][i]), InInfo(opened[s], i))
      BY <2>3, <2>4 DEF Parse, Serialize
    <2> QED
      BY <2>4, <2>5, LineEmitted, EmitKeeps
  <1> QED
    BY <1>1, InitDnpInv, NextDnpInv, PTL DEF Spec

-----------------------------------------------------------------------------
(* The editor's rows *)

\* A line that no other line shares its point with is the only candidate, and
\* so the last, for its place in a row.
LEMMA ColumnOfOne ==
  ASSUME NEW ls \in Seq(Line), NEW i \in DOMAIN ls, NEW b \in DOMAIN ls,
         \A j \in DOMAIN ls \ {i} : PointAt(ls, j) /= PointAt(ls, i),
         PointAt(ls, i).kind = PointAt(ls, b).kind,
         PointAt(ls, i).index = PointAt(ls, b).index,
         PointAt(ls, i) = [kind |-> PointAt(ls, i).kind, index |-> PointAt(ls, i).index,
                           mod |-> PointAt(ls, i).mod]
  PROVE  i \in Column(ls, b, PointAt(ls, i).mod)
  <1> DEFINE candidates ==
        {j \in DOMAIN ls : PointAt(ls, j) = [kind |-> PointAt(ls, b).kind,
                                             index |-> PointAt(ls, b).index,
                                             mod |-> PointAt(ls, i).mod]}
  <1>1. i \in candidates /\ \A j \in candidates : j = i
    OBVIOUS
  <1>2. i \in Nat
    OBVIOUS
  <1> QED
    BY <1>1, <1>2 DEF Column

\* The points of a file's lines are points.
LEMMA PointOfALine ==
  ASSUME NEW ls \in Seq(Line), NEW i \in DOMAIN ls, ls[i].key /= NoKey
  PROVE  /\ PointAt(ls, i) = PointOf[ls[i].key] /\ ls[i].key \in Key
         /\ PointAt(ls, i).mod \in {"none", "SCA", "DBD"}
         /\ PointAt(ls, i) = [kind |-> PointAt(ls, i).kind, index |-> PointAt(ls, i).index,
                              mod |-> PointAt(ls, i).mod]
  <1>1. ls[i] \in Line
    OBVIOUS
  <1>2. ls[i].key \in Key
    BY <1>1 DEF Line
  <1>3. PointOf[ls[i].key] \in [kind : STRING, index : Nat, mod : {"none", "SCA", "DBD"}]
    BY <1>2, DnpAssumption
  <1> QED
    BY <1>2, <1>3 DEF PointAt

\* Nothing an extra has is in a row: not its line, nor its key.
LEMMA ExtraIsNoPoint ==
  ASSUME NEW ls \in Seq(Line), NEW i \in Extras(ls), NEW j \in Bases(ls) \cup Columns(ls)
  PROVE  ls[i].key /= ls[j].key
  <1> SUFFICES ASSUME ls[i].key = ls[j].key PROVE FALSE
    OBVIOUS
  <1>1. i \in DOMAIN ls /\ ls[i].key /= NoKey
    BY DEF Extras
  <1>2. PICK b \in Bases(ls) :
          \/ j = b
          \/ \E mod \in {"SCA", "DBD"} : j \in Column(ls, b, mod)
    BY DEF Columns
  <1>3. b \in DOMAIN ls /\ IsPoint(ls, b) /\ PointAt(ls, b).mod = "none"
    BY <1>2 DEF Bases
  <1>4. j \in DOMAIN ls
    BY <1>2, <1>3 DEF Column
  <1>5. PointAt(ls, i) = PointAt(ls, j)
    BY <1>1, <1>4 DEF PointAt
  <1>6. CASE j = b
    BY <1>3, <1>5, <1>6 DEF Extras, IsPoint
  <1>7. CASE \E mod \in {"SCA", "DBD"} : j \in Column(ls, b, mod)
    <2>1. PICK mod \in {"SCA", "DBD"} :
            PointAt(ls, j) = [kind |-> PointAt(ls, b).kind,
                              index |-> PointAt(ls, b).index, mod |-> mod]
      BY <1>7 DEF Column
    <2>2. PointAt(ls, i).mod = mod /\ mod /= "none"
      BY <1>5, <2>1
    <2>3. PointAt(ls, i) /= NoPoint
      BY <2>2 DEF NoPoint
    <2> QED
      BY <1>2, <1>5, <2>1, <2>2, <2>3 DEF Extras, IsPoint
  <1> QED
    BY <1>2, <1>6, <1>7

\* Whatever the keys of a file and their points: no setting is missing from the
\* editor but one of two for the same point, and none is shown twice.
THEOREM EverySettingIsShown == Spec => []ShownOnce
  <1>1. DnpTypeOK => ShownOnce
    <2> SUFFICES ASSUME NEW ls \in Seq(Line), NEW i \in DOMAIN ls
                 PROVE  /\ /\ ls[i].key /= NoKey
                           /\ ~ \E j \in DOMAIN ls \ {i} :
                                  IsPoint(ls, i) /\ PointAt(ls, i) = PointAt(ls, j)
                           => i \in Bases(ls) \cup Columns(ls) \cup Extras(ls)
                        /\ i \in Extras(ls) => ls[i].key \notin PointKeys(ls)
      BY DEF DnpTypeOK, ShownOnce
    <2>1. ASSUME ls[i].key /= NoKey, i \notin Extras(ls), i \notin Bases(ls),
                 \A j \in DOMAIN ls \ {i} : PointAt(ls, i) /= PointAt(ls, j)
          PROVE  i \in Columns(ls)
      <3>1. /\ PointAt(ls, i).mod \in {"SCA", "DBD"}
            /\ PointAt(ls, i) = [kind |-> PointAt(ls, i).kind, index |-> PointAt(ls, i).index,
                                 mod |-> PointAt(ls, i).mod]
        BY <2>1, PointOfALine DEF Extras, Bases
      <3>2. PICK b \in Bases(ls) : /\ PointAt(ls, b).kind = PointAt(ls, i).kind
                                   /\ PointAt(ls, b).index = PointAt(ls, i).index
        BY <2>1, <3>1 DEF Extras
      <3>3. i \in Column(ls, b, PointAt(ls, i).mod)
        BY <2>1, <3>1, <3>2, ColumnOfOne DEF Bases
      <3> QED
        BY <3>1, <3>2, <3>3 DEF Columns
    <2>2. i \in Extras(ls) => ls[i].key \notin PointKeys(ls)
      BY ExtraIsNoPoint DEF PointKeys
    <2>3. ls[i].key /= NoKey /\ i \notin Extras(ls) => IsPoint(ls, i)
      BY DEF Extras
    <2> QED
      BY <2>1, <2>2, <2>3
  <1> QED
    BY <1>1, DnpTyped, PTL

-----------------------------------------------------------------------------
(* discover() *)

\* The name a file gets, after the names given before it.
NameAfter(files, names, s) ==
  LET section == SectionOf(files[s])
  IN  IF section = NoName \/ \E t \in 1..(s - 1) : names[t] = section
        THEN Stem[s] ELSE section
NamesUpTo(files, names, n) == names = [s \in 1..n |-> NameAfter(files, names, s)]

\* There is such a function for any number of files, so it is the one
\* SessionNames chooses.
LEMMA NamesExist ==
  ASSUME NEW files
  PROVE  \A n \in Nat : \E names : NamesUpTo(files, names, n)
  <1> DEFINE S == {n \in Nat : \E names : NamesUpTo(files, names, n)}
  <1>1. 0 \in S
    <2>1. NamesUpTo(files, [s \in 1..0 |-> NoName], 0)
      BY DEF NamesUpTo
    <2> QED
      BY <2>1
  <1>2. \A n \in Nat : n \in S => n + 1 \in S
    <2> SUFFICES ASSUME NEW n \in Nat, NEW names, NamesUpTo(files, names, n)
                 PROVE  \E more : NamesUpTo(files, more, n + 1)
      OBVIOUS
    <2> DEFINE more == [s \in 1..(n + 1) |-> IF s <= n THEN names[s]
                                             ELSE NameAfter(files, names, s)]
    <2>1. \A t \in 1..n : more[t] = names[t]
      OBVIOUS
    <2> HIDE DEF more
    <2>2. \A s \in 1..(n + 1) : NameAfter(files, more, s) = NameAfter(files, names, s)
      <3> TAKE s \in 1..(n + 1)
      <3>1. \A t \in 1..(s - 1) : more[t] = names[t]
        BY <2>1
      <3> QED
        BY <3>1 DEF NameAfter
    <2>3. \A s \in 1..n : names[s] = NameAfter(files, names, s)
      BY DEF NamesUpTo
    <2>4. more = [s \in 1..(n + 1) |-> NameAfter(files, more, s)]
      BY <2>2, <2>3 DEF more
    <2> QED
      BY <2>4 DEF NamesUpTo
  <1> HIDE DEF S
  <1>3. \A n \in Nat : n \in S
    BY <1>1, <1>2, NatInductionSet
  <1> QED
    BY <1>3 DEF S

LEMMA NamesUnfold ==
  ASSUME NEW files
  PROVE  NamesUpTo(files, SessionNames(files), Session)
  <1>1. SessionNames(files) = CHOOSE names : NamesUpTo(files, names, Session)
    BY DEF SessionNames, NamesUpTo, NameAfter
  <1> QED
    BY <1>1, NamesExist, DnpAssumption

\* Two sessions of one relay have one name only where the later one fell back to
\* the name of its file: discover().
THEOREM NamesCollideByFallback == Spec => []DistinctNames
  <1>1. DistinctNames
    <2> DEFINE names == SessionNames(disk)
    <2>1. \A s \in 1..Session : names[s] = NameAfter(disk, names, s)
      BY NamesUnfold DEF NamesUpTo
    <2> HIDE DEF names
    <2> SUFFICES ASSUME NEW t \in 1..Session, NEW s \in 1..(t - 1), names[s] = names[t]
                 PROVE  /\ SectionOf(disk[t]) \in {NoName} \cup {names[r] : r \in 1..(t - 1)}
                        /\ Stem[t] \in {SectionOf(disk[s]), Stem[s]}
      BY DEF DistinctNames, names
    <2>2. s \in 1..Session
      BY DnpAssumption
    <2>3. names[s] \in {SectionOf(disk[s]), Stem[s]}
      BY <2>1, <2>2 DEF NameAfter
    <2>4. names[s] \in {names[r] : r \in 1..(t - 1)}
      OBVIOUS
    <2>5. CASE SectionOf(disk[t]) = NoName \/ \E r \in 1..(t - 1) : names[r] = SectionOf(disk[t])
      BY <2>1, <2>3, <2>5 DEF NameAfter
    <2>6. CASE ~ (SectionOf(disk[t]) = NoName \/ \E r \in 1..(t - 1) : names[r] = SectionOf(disk[t]))
      <3>1. names[t] = SectionOf(disk[t])
        BY <2>1, <2>6 DEF NameAfter
      <3> QED
        BY <2>6, <3>1
    <2> QED
      BY <2>5, <2>6
  <1> QED
    BY <1>1, PTL
=============================================================================
