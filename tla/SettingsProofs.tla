--------------------------- MODULE SettingsProofs ---------------------------
(***************************************************************************)
(* Proofs about SettingsModel, whatever headers and pairs the files of a   *)
(* relay are made of and however long they are: which lines of a file are  *)
(* kept; how the fields of a variable come from the lines filed under it;  *)
(* how the slots of a report become one variable for each word bit; and    *)
(* that the kind of a variable and the roles of its fields agree.          *)
(***************************************************************************)
EXTENDS SettingsModel, NumberLemmas

PsType ==
  [section : Key \cup {NoKey}, current : Key \cup {NoKey}, in_info : BOOLEAN,
   relaytype : Key \cup {NoKey}, lines : Seq(Nat)]

\* Where each part of the reader's state is while a file is read.
ReaderType ==
  /\ family \in Family
  /\ left \subseteq FileName
  /\ phase = "reading" => at \in FileName
  /\ text \in Seq(AllTexts)
  /\ ps \in PsType /\ ps.lines \in Seq(1..Len(text))

\* What the two flags of the loop mean for the next line, and what the section
\* of the file is named for.
HeaderInv ==
  /\ ~ps.in_info /\ ps.current /= NoKey <=> Headed(Len(text) + 1)
  /\ ps.current = NoKey <=> \A i \in DOMAIN text : text[i].shape /= "section"
  /\ ps.section = NoKey <=> ps.current = NoKey

ReaderInv == ReaderType /\ HeaderInv /\ LinesOfRealSections

LEMMA InitReaderInv == Init => ReaderInv
  <1> SUFFICES ASSUME Init PROVE ReaderInv
    OBVIOUS
  <1>1. /\ text = <<>> /\ ps.lines = <<>> /\ ps.current = NoKey /\ ps.section = NoKey
        /\ ps \in PsType /\ family \in Family /\ left \in Directory /\ phase = "files"
    BY DEF Init, EmptyPs, PsType
  <1>2. left \subseteq FileName
    BY <1>1, SettingsAssumption
  <1>3. ReaderType
    BY <1>1, <1>2 DEF ReaderType
  <1>4. HeaderInv
    BY <1>1 DEF HeaderInv, Headed
  <1>5. LinesOfRealSections
    BY <1>1 DEF LinesOfRealSections
  <1> QED
    BY <1>3, <1>4, <1>5 DEF ReaderInv

\* One more line: what came before it is as it was.
LEMMA ReadKeepsText ==
  ASSUME ReaderInv, Reading, NEW t \in Texts, NEW ps1, Read(t, ps1)
  PROVE  /\ t \in AllTexts /\ Len(text) \in Nat
         /\ ps' = ps1 /\ text' = Append(text, t)
         /\ Len(text') = Len(text) + 1 /\ DOMAIN text' = 1..(Len(text) + 1)
         /\ text' \in Seq(AllTexts) /\ text'[Len(text) + 1] = t
         /\ \A i \in 1..Len(text) : text'[i] = text[i]
         /\ \A i \in 1..(Len(text) + 1) : Headed(i)' <=> Headed(i)
         /\ family' \in Family /\ left' \subseteq FileName
         /\ phase' = "reading" /\ at' \in FileName
  <1>1. /\ family \in Family /\ at \in FileName /\ phase = "reading" /\ text \in Seq(AllTexts)
        /\ left \subseteq FileName
    BY DEF ReaderInv, ReaderType, Reading
  <1>2. t \in AllTexts
    BY <1>1 DEF Texts, AllTexts
  <1>3. /\ ps' = ps1 /\ text' = Append(text, t) /\ family' = family /\ left' = left
        /\ phase' = phase /\ at' = at
    BY DEF Read
  <1>4. /\ Len(text) \in Nat /\ Len(text') = Len(text) + 1 /\ DOMAIN text' = 1..(Len(text) + 1)
        /\ text' \in Seq(AllTexts) /\ text'[Len(text) + 1] = t
        /\ \A i \in 1..Len(text) : text'[i] = text[i]
    BY <1>1, <1>2, <1>3
  <1>5. ASSUME NEW i \in 1..(Len(text) + 1) PROVE Headed(i)' <=> Headed(i)
    <2>1. i - 1 \in 0..Len(text)
      BY <1>4
    <2>2. \A h \in 1..(i - 1) : text'[h] = text[h]
      BY <1>4, <2>1
    <2>3. \A h \in 1..(i - 1) : \A m \in (h + 1)..(i - 1) : text'[m] = text[m]
      <3> TAKE h \in 1..(i - 1)
      <3> TAKE m \in (h + 1)..(i - 1)
      <3>1. m \in 1..(i - 1)
        BY <2>1
      <3> QED
        BY <2>2, <3>1
    <2> QED
      BY <2>2, <2>3 DEF Headed
  <1> QED
    BY <1>1, <1>2, <1>3, <1>4, <1>5

\* A header, or a line of none of the shapes that are kept.
LEMMA HeaderReaderInv ==
  ASSUME ReaderInv, Reading, NEW t \in Texts, NEW ps1, Read(t, ps1),
         ps1 \in PsType, ps1.lines = ps.lines,
         t.shape = "section" =>
           ~ps1.in_info /\ ps1.current = t.key
           /\ ps1.section = (IF ps.section = NoKey THEN t.key ELSE ps.section),
         t.shape /= "section" => ps1.current = ps.current /\ ps1.section = ps.section,
         t.shape = "info" => ps1.in_info,
         t.shape \notin {"info", "section"} => ps1.in_info = ps.in_info,
         t.shape = "pair" => ~Headed(Len(text) + 1)
  PROVE  ReaderInv'
  <1>0. PICK L \in Nat : L = Len(text)
    BY ReadKeepsText
  <1>1. /\ t \in AllTexts /\ L \in Nat /\ ps' = ps1 /\ Len(text') = L + 1
        /\ DOMAIN text' = 1..(L + 1) /\ text' \in Seq(AllTexts) /\ text'[L + 1] = t
        /\ \A i \in 1..L : text'[i] = text[i]
        /\ \A i \in 1..(L + 1) : Headed(i)' <=> Headed(i)
    BY <1>0, ReadKeepsText
  <1>2. t.shape = "section" => t.key /= NoKey
    BY <1>1, SettingsAssumption
  <1>3. text \in Seq(AllTexts) /\ DOMAIN text = 1..L /\ ps.lines \in Seq(1..L)
    BY <1>0 DEF ReaderInv, ReaderType
  <1>4. ReaderType'
    <2>1. ps1.lines \in Seq(1..(L + 1))
      BY <1>1, <1>3
    <2> QED
      BY <1>1, <2>1, ReadKeepsText DEF ReaderType
  <1>5. Headed(L + 2)' <=> \/ t.shape = "section"
                           \/ t.shape /= "info" /\ Headed(L + 1)
    <2>1. Headed(L + 2)' <=>
            \E h \in 1..(L + 1) : /\ text'[h].shape = "section"
                                  /\ \A m \in (h + 1)..(L + 1) : text'[m].shape /= "info"
      BY <1>1 DEF Headed
    <2>2. CASE t.shape = "section"
      BY <1>1, <2>1, <2>2
    <2>3. CASE t.shape = "info"
      BY <1>1, <2>1, <2>3
    <2>4. CASE t.shape \notin {"section", "info"}
      <3>1. Headed(L + 1) <=>
              \E h \in 1..L : text[h].shape = "section" /\ \A m \in (h + 1)..L : text[m].shape /= "info"
        BY DEF Headed
      <3> QED
        BY <1>1, <2>1, <2>4, <3>1
    <2> QED
      BY <2>2, <2>3, <2>4
  <1>6. HeaderInv'
    <2>1. ~ps1.in_info /\ ps1.current /= NoKey <=> Headed(L + 2)'
      BY <1>0, <1>2, <1>5 DEF ReaderInv, HeaderInv
    <2>2. ps1.current = NoKey <=> \A i \in 1..(L + 1) : text'[i].shape /= "section"
      <3>1. ps.current = NoKey <=> \A i \in 1..L : text[i].shape /= "section"
        BY <1>3 DEF ReaderInv, HeaderInv
      <3> QED
        BY <1>1, <1>2, <3>1
    <2>3. ps1.section = NoKey <=> ps1.current = NoKey
      BY <1>2 DEF ReaderInv, HeaderInv
    <2> QED
      BY <1>1, <2>1, <2>2, <2>3 DEF HeaderInv
  <1>7. LinesOfRealSections'
    <2>1. {i \in 1..(L + 1) : text'[i].shape = "pair" /\ Headed(i)'}
            = {i \in 1..L : text[i].shape = "pair" /\ Headed(i)}
      BY <1>0, <1>1
    <2>2. \A i \in 1..(L + 1) :
            text'[i].shape = "section" /\ (\A h \in 1..(i - 1) : text'[h].shape /= "section")
              => ps1.section = text'[i].key
      <3> SUFFICES ASSUME NEW i \in 1..(L + 1), text'[i].shape = "section",
                          \A h \in 1..(i - 1) : text'[h].shape /= "section"
                   PROVE  ps1.section = text'[i].key
        OBVIOUS
      <3>1. CASE i = L + 1
        <4>1. \A h \in 1..L : text[h].shape /= "section"
          BY <1>1, <3>1
        <4> QED
          BY <1>1, <1>3, <3>1, <4>1 DEF ReaderInv, HeaderInv
      <3>2. CASE i \in 1..L
        <4>1. /\ text[i].shape = "section" /\ ps.section = text[i].key
          <5>1. \A h \in 1..(i - 1) : text[h] = text'[h]
            BY <1>1, <3>2
          <5> QED
            BY <1>1, <1>3, <3>2, <5>1 DEF ReaderInv, LinesOfRealSections
        <4>2. ps.section /= NoKey
          BY <1>3, <3>2, <4>1 DEF ReaderInv, HeaderInv
        <4> QED
          BY <1>1, <3>2, <4>1, <4>2
      <3> QED
        BY <1>1, <3>1, <3>2
    <2>3. ps'.lines = ps.lines
      BY <1>1
    <2>4. /\ \A k, m \in DOMAIN ps'.lines : k < m => ps'.lines[k] < ps'.lines[m]
          /\ {ps'.lines[k] : k \in DOMAIN ps'.lines} =
               {i \in 1..L : text[i].shape = "pair" /\ Headed(i)}
      BY <1>3, <2>3 DEF ReaderInv, LinesOfRealSections
    <2> QED
      BY <1>1, <2>1, <2>2, <2>4 DEF LinesOfRealSections
  <1> QED
    BY <1>4, <1>6, <1>7 DEF ReaderInv

\* A pair that counts: its number goes behind the others.
LEMMA DataReaderInv == ReaderInv /\ ReadData => ReaderInv'
  <1> SUFFICES ASSUME ReaderInv, ReadData PROVE ReaderInv'
    OBVIOUS
  <1> DEFINE longer == [ps EXCEPT !.lines = Append(@, Len(text) + 1)]
  <1>1. PICK t \in Texts : /\ t.shape = "pair" /\ ~ps.in_info /\ ps.current /= NoKey
                           /\ Read(t, longer) /\ Reading
    BY DEF ReadData
  <1>2. PICK L \in Nat : L = Len(text)
    BY DEF ReaderInv, ReaderType
  <1>3. /\ t \in AllTexts /\ ps' = longer /\ Len(text') = L + 1
        /\ DOMAIN text' = 1..(L + 1) /\ text' \in Seq(AllTexts) /\ text'[L + 1] = t
        /\ \A i \in 1..L : text'[i] = text[i]
        /\ \A i \in 1..(L + 1) : Headed(i)' <=> Headed(i)
    BY <1>1, <1>2, ReadKeepsText
  <1>4. text \in Seq(AllTexts) /\ DOMAIN text = 1..L /\ ps.lines \in Seq(1..L)
    BY <1>2 DEF ReaderInv, ReaderType
  <1>5. Headed(L + 1)
    BY <1>1, <1>2 DEF ReaderInv, HeaderInv
  <1>6. /\ longer.lines = Append(ps.lines, L + 1) /\ longer.in_info = ps.in_info
        /\ longer.current = ps.current /\ longer.section = ps.section
        /\ longer \in PsType
    <2>1. ps \in PsType /\ ps.lines \in Seq(Nat)
      BY DEF ReaderInv, ReaderType, PsType
    <2>2. Append(ps.lines, L + 1) \in Seq(Nat)
      BY <2>1
    <2>3. longer = [ps EXCEPT !.lines = Append(ps.lines, L + 1)]
      BY <1>2
    <2> QED
      BY <2>1, <2>2, <2>3 DEF PsType
  <1>7. ReaderType'
    BY <1>1, <1>2, <1>3, <1>4, <1>6, ReadKeepsText DEF ReaderType
  <1>8. Headed(L + 2)'
    <2>1. PICK h \in 1..L : text[h].shape = "section" /\ \A m \in (h + 1)..L : text[m].shape /= "info"
      BY <1>5 DEF Headed
    <2>2. \A m \in (h + 1)..(L + 1) : text'[m].shape /= "info"
      BY <1>1, <1>3, <2>1
    <2>3. h \in 1..(L + 2 - 1) /\ text'[h].shape = "section"
      BY <1>3, <2>1
    <2>4. L + 2 - 1 = L + 1
      OBVIOUS
    <2> QED
      BY <2>2, <2>3, <2>4 DEF Headed
  <1>9. HeaderInv'
    <2>1. \E i \in DOMAIN text' : text'[i].shape = "section"
      BY <1>3, <1>8 DEF Headed
    <2> QED
      BY <1>1, <1>3, <1>6, <1>8, <2>1 DEF ReaderInv, HeaderInv
  <1>10. LinesOfRealSections'
    <2>0. PICK K \in Nat : /\ DOMAIN ps.lines = 1..K
                           /\ DOMAIN ps'.lines = 1..(K + 1) /\ ps'.lines[K + 1] = L + 1
                           /\ \A k \in 1..K : ps'.lines[k] = ps.lines[k] /\ ps.lines[k] \in 1..L
      <3>1. ps'.lines = Append(ps.lines, L + 1) /\ ps.lines \in Seq(1..L)
        BY <1>3, <1>4, <1>6
      <3> DEFINE K == Len(ps.lines)
      <3>2. /\ K \in Nat /\ DOMAIN ps.lines = 1..K
            /\ \A k \in 1..K : ps.lines[k] \in 1..L
        BY <3>1
      <3>3. /\ DOMAIN ps'.lines = 1..(K + 1) /\ ps'.lines[K + 1] = L + 1
            /\ \A k \in 1..K : ps'.lines[k] = ps.lines[k]
        BY <3>1
      <3> QED
        BY <3>2, <3>3
    <2>1. \A k, m \in DOMAIN ps'.lines : k < m => ps'.lines[k] < ps'.lines[m]
      <3>1. \A k, m \in 1..K : k < m => ps.lines[k] < ps.lines[m]
        BY <2>0 DEF ReaderInv, LinesOfRealSections
      <3> SUFFICES ASSUME NEW k \in 1..(K + 1), NEW m \in 1..(K + 1), k < m
                   PROVE  ps'.lines[k] < ps'.lines[m]
        BY <2>0
      <3>2. k \in 1..K /\ ps'.lines[k] = ps.lines[k] /\ ps.lines[k] \in 1..L
        BY <2>0
      <3>3. CASE m = K + 1
        BY <2>0, <3>2, <3>3
      <3>4. CASE m \in 1..K
        BY <2>0, <3>1, <3>2, <3>4
      <3> QED
        BY <3>3, <3>4
    <2>2. {ps'.lines[k] : k \in DOMAIN ps'.lines} = {ps.lines[k] : k \in DOMAIN ps.lines} \cup {L + 1}
      <3>1. DOMAIN ps'.lines = (DOMAIN ps.lines) \cup {K + 1}
        BY <2>0
      <3> QED
        BY <2>0, <3>1
    <2>3. {ps.lines[k] : k \in DOMAIN ps.lines} = {i \in 1..L : text[i].shape = "pair" /\ Headed(i)}
      BY <1>4 DEF ReaderInv, LinesOfRealSections
    <2>4. {i \in 1..(L + 1) : text'[i].shape = "pair" /\ Headed(i)'}
            = {i \in 1..L : text[i].shape = "pair" /\ Headed(i)} \cup {L + 1}
      BY <1>1, <1>3, <1>5
    <2>5. \A i \in 1..(L + 1) :
            text'[i].shape = "section" /\ (\A h \in 1..(i - 1) : text'[h].shape /= "section")
              => ps'.section = text'[i].key
      <3> SUFFICES ASSUME NEW i \in 1..(L + 1), text'[i].shape = "section",
                          \A h \in 1..(i - 1) : text'[h].shape /= "section"
                   PROVE  ps'.section = text'[i].key
        OBVIOUS
      <3>1. i \in 1..L
        BY <1>1, <1>3
      <3>2. text'[i] = text[i] /\ \A h \in 1..(i - 1) : text'[h] = text[h]
        BY <1>3, <3>1
      <3>3. ps.section = text[i].key
        BY <1>4, <3>1, <3>2 DEF ReaderInv, LinesOfRealSections
      <3> QED
        BY <1>3, <1>6, <3>2, <3>3
    <2> QED
      BY <1>3, <2>1, <2>2, <2>3, <2>4, <2>5 DEF LinesOfRealSections
  <1> QED
    BY <1>7, <1>9, <1>10 DEF ReaderInv

\* Everything else leaves the text and what was read of it alone.
LEMMA SameReaderInv ==
  ASSUME ReaderInv, text' = text, ps' = ps, family' = family, left' \subseteq FileName,
         phase' = "reading" => phase = "reading" /\ at' = at
  PROVE  ReaderInv'
  <1>1. ReaderType'
    BY DEF ReaderInv, ReaderType
  <1>2. \A i : Headed(i)' <=> Headed(i)
    BY DEF Headed
  <1>3. HeaderInv'
    <2>1. PICK n : n = Len(text) + 1
      OBVIOUS
    <2>2. Headed(n)' <=> Headed(n)
      BY <1>2
    <2> QED
      BY <2>1, <2>2 DEF ReaderInv, HeaderInv
  <1>4. LinesOfRealSections'
    BY <1>2 DEF ReaderInv, LinesOfRealSections
  <1> QED
    BY <1>1, <1>3, <1>4 DEF ReaderInv

LEMMA NextReaderInv == ReaderInv /\ [Next]_vars => ReaderInv'
  <1> SUFFICES ASSUME ReaderInv, [Next]_vars PROVE ReaderInv'
    OBVIOUS
  <1>1. CASE OpenFile
    <2>1. /\ text' = <<>> /\ ps'.lines = <<>> /\ ps'.current = NoKey /\ ps'.section = NoKey
          /\ ps' \in PsType /\ family' = family /\ left' \subseteq left /\ at' \in left
      BY <1>1 DEF OpenFile, EmptyPs, PsType
    <2>2. ReaderType'
      BY <2>1 DEF ReaderInv, ReaderType
    <2>3. HeaderInv'
      BY <2>1 DEF HeaderInv, Headed
    <2>4. LinesOfRealSections'
      BY <2>1 DEF LinesOfRealSections
    <2> QED
      BY <2>2, <2>3, <2>4 DEF ReaderInv
  <1>2. CASE ReadInfoHeader
    <2>1. PICK t \in Texts :
            /\ t.shape = "info" /\ Reading
            /\ Read(t, [ps EXCEPT !.in_info = TRUE])
      BY <1>2 DEF ReadInfoHeader
    <2>2. ps \in PsType /\ t.key \in Key \cup {NoKey}
      BY <2>1, ReadKeepsText, SettingsAssumption DEF ReaderInv, ReaderType
    <2>3. PICK ps1 : ps1 = [ps EXCEPT !.in_info = TRUE]
      OBVIOUS
    <2>4. ps1 \in PsType /\ ps1.lines = ps.lines
      BY <2>2, <2>3 DEF PsType
    <2> QED
      BY <2>1, <2>2, <2>3, <2>4, HeaderReaderInv DEF PsType
  <1>3. CASE ReadSection
    <2>1. PICK t \in Texts :
            /\ t.shape = "section" /\ Reading
            /\ Read(t, [ps EXCEPT !.in_info = FALSE, !.current = t.key,
                                                !.section = IF @ = NoKey THEN t.key ELSE @])
      BY <1>3 DEF ReadSection
    <2>2. ps \in PsType /\ t.key \in Key \cup {NoKey}
      BY <2>1, ReadKeepsText, SettingsAssumption DEF ReaderInv, ReaderType
    <2>3. PICK ps1 : ps1 = [ps EXCEPT !.in_info = FALSE, !.current = t.key,
                                                !.section = IF @ = NoKey THEN t.key ELSE @]
      OBVIOUS
    <2>4. ps1 \in PsType /\ ps1.lines = ps.lines
      BY <2>2, <2>3 DEF PsType
    <2> QED
      BY <2>1, <2>2, <2>3, <2>4, HeaderReaderInv DEF PsType
  <1>4. CASE ReadInfoPair
    <2>1. PICK t \in Texts :
            /\ t.shape = "relaytype" /\ Reading
            /\ Read(t, [ps EXCEPT !.relaytype = t.key])
      BY <1>4 DEF ReadInfoPair
    <2>2. ps \in PsType /\ t.key \in Key \cup {NoKey}
      BY <2>1, ReadKeepsText, SettingsAssumption DEF ReaderInv, ReaderType
    <2>3. PICK ps1 : ps1 = [ps EXCEPT !.relaytype = t.key]
      OBVIOUS
    <2>4. ps1 \in PsType /\ ps1.lines = ps.lines
      BY <2>2, <2>3 DEF PsType
    <2> QED
      BY <2>1, <2>2, <2>3, <2>4, HeaderReaderInv DEF PsType
  <1>5. CASE ReadData
    BY <1>5, DataReaderInv
  <1>6. CASE SkipLine
    <2>1. PICK t \in Texts : /\ \/ t.shape = "other"
                                \/ t.shape = "relaytype" /\ ~ps.in_info
                                \/ t.shape = "pair" /\ (ps.in_info \/ ps.current = NoKey)
                             /\ Read(t, ps) /\ Reading
      BY <1>6 DEF SkipLine
    <2>2. t.shape = "pair" => ~Headed(Len(text) + 1)
      BY <2>1 DEF ReaderInv, HeaderInv
    <2>3. ps \in PsType
      BY DEF ReaderInv, ReaderType
    <2> QED
      BY <2>1, <2>2, <2>3, HeaderReaderInv
  <1>7. CASE EndOfFile
    BY <1>7, SameReaderInv DEF EndOfFile, ReaderInv, ReaderType
  <1>8. CASE FileLine
    BY <1>8, SameReaderInv DEF FileLine, ReaderInv, ReaderType
  <1>9. CASE BufferSlotPart
    BY <1>9, SameReaderInv DEF BufferSlotPart, ReaderInv, ReaderType
  <1>10. CASE RegroupSlot
    BY <1>10, SameReaderInv DEF RegroupSlot, ReaderInv, ReaderType
  <1>11. CASE StoreGroup
    BY <1>11, SameReaderInv DEF StoreGroup, ReaderInv, ReaderType
  <1>12. CASE UNCHANGED vars
    BY <1>12, SameReaderInv DEF vars, ReaderInv, ReaderType
  <1> QED
    BY <1>1, <1>2, <1>3, <1>4, <1>5, <1>6, <1>7, <1>8, <1>9, <1>10, <1>11, <1>12 DEF Next

\* parse_settings_file keeps exactly the pairs of real sections, in order, of a
\* file of any length and any sequence of headers.
THEOREM RealSectionsAreKept == Spec => []LinesOfRealSections
  <1>1. ReaderInv => LinesOfRealSections
    BY DEF ReaderInv
  <1> QED
    BY <1>1, InitReaderInv, NextReaderInv, PTL DEF Spec

-----------------------------------------------------------------------------
(* Filing line by line *)

\* The entry of the k-th line that was kept.
LineEntry(k) == EntryOf(ps.lines[k])
Hows == {"append", "refill", "replace"}
\* No slots to gather: every line goes to its variable at once.
LineByLine == ~(family = "4xx" /\ IsReport)

\* What each family makes of a line, it files in one of three ways or drops.
LEMMA EntryHow ==
  ASSUME family \in Family, NEW i
  PROVE  EntryOf(i).how \in Hows \/ EntryOf(i).name = NoKey
  <1> DEFINE fine(e) == e.how \in Hows \/ e.name = NoKey
  <1>1. \A name, kind, role, fieldKind, how : how \in Hows => fine(Entry(name, kind, role, fieldKind, how))
    BY DEF Entry
  <1>2. fine(Dropped)
    BY DEF Dropped, Entry
  <1>3. \A key, v, dialect : fine(Plain(key, v, dialect))
    BY DEF Plain, Entry, Hows
  <1>4. \A base, tag : fine(Latch(base, tag)) /\ fine(Timer(base, tag)) /\ fine(Counter(base, tag))
    BY DEF Latch, Timer, Counter, Entry, Hows
  <1>5. {"append", "replace", "refill"} \subseteq Hows
    BY DEF Hows
  <1> HIDE DEF fine
  <1>6. \A lhs : fine(RoleOf4xx(lhs))
    BY <1>1, <1>4, <1>5 DEF RoleOf4xx
  <1>7. \A key, v : fine(Entry4xx(key, v))
    BY <1>2, <1>3, <1>6 DEF Entry4xx
  <1>8. \A key, v : fine(Entry3xx(key, v))
    BY <1>3, <1>4 DEF Entry3xx
  <1>9. \A key, v : fine(Entry7xx(key, v))
    BY <1>1, <1>3, <1>4, <1>5 DEF Entry7xx
  <1>10. \A key, v : fine(EntryReport(key, v))
    BY <1>1, <1>2, <1>3, <1>5 DEF EntryReport
  <1>11. family \in {"3xx", "4xx", "7xx"}
    BY SettingsAssumption
  <1>12. fine(EntryOf(i))
    BY <1>7, <1>8, <1>9, <1>10, <1>11 DEF EntryOf
  <1> QED
    BY <1>12 DEF fine

\* What a line makes depends on the file only.
LEMMA EntryStays ==
  ASSUME family' = family, at' = at, text' = text
  PROVE  /\ \A i : EntryOf(i)' = EntryOf(i)
         /\ IsReport' <=> IsReport
         /\ \A i : IsSlotLine(i)' <=> IsSlotLine(i)
  BY DEF EntryOf, EntryReport, Entry3xx, Entry4xx, Entry7xx, IsReport, Group, Dialect,
         IsSlotLine, IsSlotPart

\* A set of numbers with a bound has a largest one.
LEMMA LargestExists ==
  ASSUME NEW n \in Nat, NEW R \in SUBSET (1..n), R /= {}
  PROVE  \E r \in R : \A q \in R : q <= r
  <1> DEFINE D == {n - r : r \in R}
  <1>1. D \in SUBSET Nat /\ D /= {}
    <2>1. \A r \in R : n - r \in Nat
      OBVIOUS
    <2>2. \E r \in R : n - r \in D
      OBVIOUS
    <2> QED
      BY <2>1, <2>2
  <1>2. PICK d \in D : \A e \in D : d <= e
    BY <1>1, SmallestExists
  <1>3. PICK r \in R : d = n - r
    OBVIOUS
  <1>4. \A q \in R : n - r <= n - q
    BY <1>2, <1>3
  <1> QED
    BY <1>4

\* Since: of the places in F the last that is in C, or the first of all.
Pick(F, C) ==
  IF C = {} THEN CHOOSE k \in F : \A m \in F : k <= m
  ELSE CHOOSE k \in C : \A m \in C : m <= k

Picked(F, C, c) ==
  IF C = {} THEN c \in F /\ \A m \in F : c <= m ELSE c \in C /\ \A m \in C : m <= c

LEMMA PickIs ==
  ASSUME NEW n \in Nat, NEW F \in SUBSET (1..n), F /= {}, NEW C \in SUBSET F
  PROVE  Picked(F, C, Pick(F, C)) /\ \A c : Picked(F, C, c) => c = Pick(F, C)
  <1>0. \A a, b \in 1..n : a <= b /\ b <= a => a = b
    OBVIOUS
  <1>1. CASE C = {}
    <2>1. F \in SUBSET Nat
      OBVIOUS
    <2>2. \E k \in F : \A m \in F : k <= m
      BY <2>1, SmallestExists
    <2>3. Pick(F, C) \in F /\ \A m \in F : Pick(F, C) <= m
      BY <1>1, <2>2 DEF Pick
    <2> QED
      BY <1>0, <1>1, <2>3 DEF Picked
  <1>2. CASE C /= {}
    <2>1. C \in SUBSET (1..n)
      OBVIOUS
    <2>2. \E k \in C : \A m \in C : m <= k
      BY <1>2, <2>1, LargestExists
    <2>3. Pick(F, C) \in C /\ \A m \in C : m <= Pick(F, C)
      BY <1>2, <2>2 DEF Pick
    <2> QED
      BY <1>0, <1>2, <2>1, <2>3 DEF Picked
  <1> QED
    BY <1>1, <1>2

\* One more place: it is the one, where it cuts or is the first.
AndNext(F, n) == F \cup {n + 1}
LEMMA PickGrows ==
  ASSUME NEW n \in Nat, NEW F \in SUBSET (1..n), NEW C \in SUBSET F
  PROVE  /\ Pick(AndNext(F, n), AndNext(C, n)) = n + 1
         /\ F = {} => Pick(AndNext(F, n), C) = n + 1
         /\ F /= {} => Pick(AndNext(F, n), C) = Pick(F, C) /\ Pick(F, C) \in 1..n
  <1> DEFINE G == AndNext(F, n)
             D == AndNext(C, n)
  <1>a. G = F \cup {n + 1} /\ D = C \cup {n + 1}
    BY DEF AndNext
  <1> HIDE DEF G, D
  <1>0. PICK N \in Nat : N = n + 1
    OBVIOUS
  <1>1. /\ G \in SUBSET (1..N) /\ G /= {} /\ C \in SUBSET G /\ D \in SUBSET G
        /\ \A k \in F : k \in 1..n /\ k <= N
    BY <1>0, <1>a
  <1>2. \A c : Picked(G, D, c) => c = Pick(G, D)
    BY <1>1, PickIs
  <1>3. \A c : Picked(G, C, c) => c = Pick(G, C)
    BY <1>1, PickIs
  <1>4. Picked(G, D, N)
    BY <1>0, <1>1, <1>a DEF Picked
  <1>5. F = {} => Picked(G, C, N)
    BY <1>0, <1>1, <1>a DEF Picked
  <1>6. ASSUME F /= {} PROVE Pick(G, C) = Pick(F, C) /\ Pick(F, C) \in 1..n
    <2>1. Picked(F, C, Pick(F, C))
      BY <1>6, PickIs
    <2>2. Picked(G, C, Pick(F, C)) /\ Pick(F, C) \in F
      BY <1>0, <1>1, <1>a, <2>1 DEF Picked
    <2> QED
      BY <1>1, <1>3, <2>2
  <1> QED
    BY <1>0, <1>2, <1>3, <1>4, <1>5, <1>6 DEF G, D

\* The invariant: of each variable, which lines its fields are and where its
\* kind is from.
Cuts(n, hows) == {k \in Filed(n) : LineEntry(k).how \in hows}
FieldOf(k) == Field(LineEntry(k), ps.lines[k])
Fields == {FieldOf(k) : k \in DOMAIN ps.lines}
Holds(n, v) ==
  LET kept == {k \in Filed(n) : k >= Pick(Filed(n), Cuts(n, {"replace", "refill"}))}
  IN  /\ v.kind = LineEntry(Pick(Filed(n), Cuts(n, {"replace"}))).kind
      /\ {v.fields[j] : j \in DOMAIN v.fields} = {FieldOf(k) : k \in kept}
      /\ \A j, m \in DOMAIN v.fields : j < m => v.fields[j].line < v.fields[m].line
Sound(n) ==
  /\ variables[n] = [kind |-> variables[n].kind, fields |-> variables[n].fields]
  /\ variables[n].fields \in Seq(Fields)
  /\ Holds(n, variables[n])
Filing ==
  /\ filed \in Nat /\ filed <= Len(ps.lines) /\ slots = <<>>
  /\ DOMAIN variables = {LineEntry(k).name : k \in 1..filed} \ {NoKey}
  /\ \A n \in DOMAIN variables : Sound(n)
FilingInv ==
  /\ phase = "reading" => filed = 0 /\ variables = Nothing /\ slots = <<>>
  /\ phase = "filing" /\ LineByLine => Filing

\* Which lines are filed under a name, one line on.
LEMMA FiledGrows ==
  ASSUME LineByLine, filed \in Nat, filed' = filed + 1,
         UNCHANGED <<family, at, text, ps>>
  PROVE  /\ \A k : LineEntry(k)' = LineEntry(k) /\ FieldOf(k)' = FieldOf(k)
         /\ LineByLine' /\ Fields' = Fields
         /\ \A n : /\ Filed(n) = {k \in 1..filed : LineEntry(k).name = n}
                   /\ Filed(n)' = IF LineEntry(filed + 1).name = n
                                  THEN AndNext(Filed(n), filed) ELSE Filed(n)
         /\ \A n, hows :
              Cuts(n, hows)' =
                IF LineEntry(filed + 1).name = n /\ LineEntry(filed + 1).how \in hows
                THEN AndNext(Cuts(n, hows), filed) ELSE Cuts(n, hows)
  <1>1. \A k : LineEntry(k)' = LineEntry(k) /\ FieldOf(k)' = FieldOf(k)
    BY EntryStays DEF LineEntry, FieldOf
  <1>2. LineByLine' /\ \A i : ~IsSlotLine(i) /\ ~IsSlotLine(i)'
    BY EntryStays DEF LineByLine, IsSlotLine, IsSlotPart
  <1>3. Fields' = Fields
    BY <1>1 DEF Fields
  <1>4. \A n : /\ Filed(n) = {k \in 1..filed : LineEntry(k).name = n}
               /\ Filed(n)' = {k \in 1..(filed + 1) : LineEntry(k).name = n}
    BY <1>1, <1>2 DEF Filed, LineEntry
  <1>5. 1..(filed + 1) = (1..filed) \cup {filed + 1}
    OBVIOUS
  <1>6. ASSUME NEW n
        PROVE  Filed(n)' = IF LineEntry(filed + 1).name = n
                           THEN AndNext(Filed(n), filed) ELSE Filed(n)
    BY <1>4, <1>5 DEF AndNext
  <1>7. ASSUME NEW n, NEW hows
        PROVE  Cuts(n, hows)' =
                 IF LineEntry(filed + 1).name = n /\ LineEntry(filed + 1).how \in hows
                 THEN AndNext(Cuts(n, hows), filed) ELSE Cuts(n, hows)
    <2>1. Cuts(n, hows)' = {k \in Filed(n)' : LineEntry(k).how \in hows}
      BY <1>1 DEF Cuts
    <2> QED
      BY <1>6, <2>1 DEF Cuts, AndNext
  <1> QED
    BY <1>1, <1>2, <1>3, <1>4, <1>6, <1>7

\* What a variable holds, said of the places themselves.
LEMMA HoldsIs ==
  ASSUME NEW n, NEW v
  PROVE  Holds(n, v) <=>
           /\ v.kind = LineEntry(Pick(Filed(n), Cuts(n, {"replace"}))).kind
           /\ {v.fields[j] : j \in DOMAIN v.fields} =
                {FieldOf(k) : k \in {m \in Filed(n) :
                                       m >= Pick(Filed(n), Cuts(n, {"replace", "refill"}))}}
           /\ \A j, m \in DOMAIN v.fields : j < m => v.fields[j].line < v.fields[m].line
  BY DEF Holds

\* A variable made or refilled by the line the loop is at: its one field.
LEMMA OneField ==
  ASSUME LineByLine, filed \in Nat, filed' = filed + 1, UNCHANGED <<family, at, text, ps>>,
         NEW n, NEW v, NEW kind,
         v = [kind |-> kind, fields |-> <<FieldOf(filed + 1)>>],
         Pick(Filed(n)', Cuts(n, {"replace", "refill"})') = filed + 1,
         kind = LineEntry(Pick(Filed(n)', Cuts(n, {"replace"})')).kind,
         LineEntry(filed + 1).name = n
  PROVE  Holds(n, v)'
  <1>1. PICK N \in Nat : N = filed + 1
    OBVIOUS
  <1>2. \A k : LineEntry(k)' = LineEntry(k) /\ FieldOf(k)' = FieldOf(k)
    BY FiledGrows
  <1>3. Filed(n)' = Filed(n) \cup {N} /\ Filed(n) \subseteq 1..filed
    BY <1>1, FiledGrows DEF Filed, AndNext
  <1>4. {m \in Filed(n)' : m >= N} = {N}
    BY <1>1, <1>3
  <1>5. DOMAIN v.fields = {1} /\ v.fields[1] = FieldOf(N) /\ v.kind = kind
    BY <1>1
  <1>6. {v.fields[j] : j \in DOMAIN v.fields} = {FieldOf(k) : k \in {N}}
    BY <1>5
  <1>7. \A j, m \in DOMAIN v.fields : ~ (j < m)
    BY <1>5
  <1> QED
    BY <1>1, <1>2, <1>4, <1>5, <1>6, <1>7 DEF Holds

\* A field that goes behind the others.
LEMMA OneMoreField ==
  ASSUME LineByLine, filed \in Nat, filed' = filed + 1, UNCHANGED <<family, at, text, ps>>,
         filed < Len(ps.lines), \A k \in 1..filed : ps.lines[k] < ps.lines[filed + 1],
         NEW n, NEW v, Holds(n, v), v.fields \in Seq(Fields), NEW w,
         w.kind = v.kind, w.fields = Append(v.fields, FieldOf(filed + 1)),
         Filed(n) /= {}, LineEntry(filed + 1).name = n, LineEntry(filed + 1).how = "append"
  PROVE  Holds(n, w)'
  <1>1. PICK N \in Nat : N = filed + 1
    OBVIOUS
  <1>2. \A k : LineEntry(k)' = LineEntry(k) /\ FieldOf(k)' = FieldOf(k)
    BY FiledGrows
  <1>3. Filed(n)' = Filed(n) \cup {N} /\ Filed(n) \subseteq 1..filed
    BY ZenonT(40), <1>1, FiledGrows DEF Filed, AndNext
  <1>4. \A hows \in {{"replace"}, {"replace", "refill"}} :
          /\ Cuts(n, hows)' = Cuts(n, hows) /\ Cuts(n, hows) \subseteq Filed(n)
    <2>1. /\ Cuts(n, {"replace"})' = Cuts(n, {"replace"})
          /\ Cuts(n, {"replace", "refill"})' = Cuts(n, {"replace", "refill"})
      BY FiledGrows
    <2>2. \A hows : Cuts(n, hows) \subseteq Filed(n)
      BY DEF Cuts
    <2> QED
      BY <2>1, <2>2
  <1>13. Filed(n)' = AndNext(Filed(n), filed)
    BY FiledGrows
  <1>5. \A hows \in {{"replace"}, {"replace", "refill"}} :
          /\ Pick(Filed(n)', Cuts(n, hows)') = Pick(Filed(n), Cuts(n, hows))
          /\ Pick(Filed(n), Cuts(n, hows)) \in 1..filed
    <2> TAKE hows \in {{"replace"}, {"replace", "refill"}}
    <2>1. Filed(n) \in SUBSET (1..filed) /\ Cuts(n, hows) \in SUBSET Filed(n)
      BY <1>3, <1>4
    <2>2. /\ Pick(AndNext(Filed(n), filed), Cuts(n, hows)) = Pick(Filed(n), Cuts(n, hows))
          /\ Pick(Filed(n), Cuts(n, hows)) \in 1..filed
      BY <2>1, PickGrows
    <2> QED
      BY <1>4, <1>13, <2>2
  <1>6. PICK c : c = Pick(Filed(n), Cuts(n, {"replace", "refill"})) /\ c \in 1..filed
    BY <1>5
  <1>7. {m \in Filed(n)' : m >= c} = {m \in Filed(n) : m >= c} \cup {N}
    BY <1>1, <1>3, <1>6
  <1>8. PICK M \in Nat : /\ DOMAIN v.fields = 1..M /\ DOMAIN w.fields = 1..(M + 1)
                         /\ w.fields[M + 1] = FieldOf(N)
                         /\ \A j \in 1..M : w.fields[j] = v.fields[j]
    <2>1. /\ Len(v.fields) \in Nat /\ DOMAIN v.fields = 1..Len(v.fields)
          /\ FieldOf(N) \in Fields
      <3>1. N \in DOMAIN ps.lines
        BY <1>1
      <3> QED
        BY <3>1 DEF Fields
    <2> QED
      BY <1>1, <2>1
  <1>9. {v.fields[j] : j \in 1..M} = {FieldOf(k) : k \in {m \in Filed(n) : m >= c}}
    BY <1>6, <1>8, HoldsIs
  <1>10. {w.fields[j] : j \in 1..(M + 1)} = {FieldOf(k) : k \in {m \in Filed(n)' : m >= c}}
    <2>1. 1..(M + 1) = (1..M) \cup {M + 1}
      OBVIOUS
    <2>2. {w.fields[j] : j \in 1..(M + 1)} = {v.fields[j] : j \in 1..M} \cup {FieldOf(N)}
      BY <1>8, <2>1
    <2>3. {FieldOf(k) : k \in {m \in Filed(n)' : m >= c}}
            = {FieldOf(k) : k \in {m \in Filed(n) : m >= c}} \cup {FieldOf(N)}
      BY <1>7
    <2> QED
      BY <1>9, <2>2, <2>3
  <1>11. \A j, m \in 1..(M + 1) : j < m => w.fields[j].line < w.fields[m].line
    <2>1. \A j, m \in 1..M : j < m => v.fields[j].line < v.fields[m].line
      BY <1>8 DEF Holds
    <2>2. \A j \in 1..M : v.fields[j].line < w.fields[M + 1].line
      <3> TAKE j \in 1..M
      <3>1. PICK k \in Filed(n) : v.fields[j] = FieldOf(k)
        BY <1>9
      <3>2. FieldOf(k).line = ps.lines[k] /\ FieldOf(N).line = ps.lines[N]
        BY DEF FieldOf, Field
      <3> QED
        BY <1>1, <1>3, <1>8, <3>1, <3>2
    <2>3. \A j, m \in 1..(M + 1) : j < m => j \in 1..M /\ (m \in 1..M \/ m = M + 1)
      OBVIOUS
    <2> QED
      BY <1>8, <2>1, <2>2, <2>3
  <1>12. w.kind = LineEntry(Pick(Filed(n)', Cuts(n, {"replace"})')).kind
    BY <1>5, HoldsIs
  <1> QED
    BY <1>2, <1>5, <1>6, <1>8, <1>10, <1>11, <1>12 DEF Holds

LEMMA NewIsSound ==
  ASSUME NEW n, NEW v, variables'[n] = v, v = [kind |-> v.kind, fields |-> v.fields],
         v.fields \in Seq(Fields), Fields' = Fields, Holds(n, v)'
  PROVE  Sound(n)'
  <1>1. v.kind = variables'[n].kind /\ v.fields = variables'[n].fields
    OBVIOUS
  <1>2. Holds(n, variables[n])'
    BY <1>1 DEF Holds
  <1> QED
    BY <1>1, <1>2 DEF Sound

\* The loop's step: the variable of the line gets its field, the others stay.
LEMMA FileLineFiling ==
  ASSUME ReaderInv, Filing, LineByLine, FileLine
  PROVE  Filing'
  <1>1. /\ filed \in Nat /\ filed < Len(ps.lines) /\ filed' = filed + 1 /\ slots' = slots
        /\ UNCHANGED <<family, at, text, ps>>
        /\ family \in Family /\ ps.lines \in Seq(1..Len(text))
    BY DEF FileLine, Filing, ReaderInv, ReaderType
  <1>2. PICK e : e = LineEntry(filed + 1)
    OBVIOUS
  <1>3. /\ variables' = FileUnder(e, ps.lines[filed + 1])
        /\ Field(e, ps.lines[filed + 1]) = FieldOf(filed + 1)
    BY <1>2 DEF FileLine, NextLine, LineEntry, FieldOf
  <1>4. e.how \in Hows \/ e.name = NoKey
    BY <1>1, <1>2, EntryHow DEF LineEntry
  <1>5. /\ filed + 1 \in DOMAIN ps.lines /\ FieldOf(filed + 1) \in Fields
        /\ \A k \in 1..filed : ps.lines[k] < ps.lines[filed + 1]
    <2>1. filed + 1 \in DOMAIN ps.lines /\ \A k \in 1..filed : k \in DOMAIN ps.lines /\ k < filed + 1
      BY <1>1
    <2> QED
      BY <2>1 DEF Fields, ReaderInv, LinesOfRealSections
  <1>6. /\ \A k : LineEntry(k)' = LineEntry(k) /\ FieldOf(k)' = FieldOf(k)
        /\ Fields' = Fields
        /\ \A n : /\ Filed(n) = {k \in 1..filed : LineEntry(k).name = n}
                  /\ Filed(n)' = IF e.name = n THEN AndNext(Filed(n), filed) ELSE Filed(n)
        /\ \A n, hows :
             Cuts(n, hows)' = IF e.name = n /\ e.how \in hows
                              THEN AndNext(Cuts(n, hows), filed) ELSE Cuts(n, hows)
    BY <1>1, <1>2, FiledGrows
  <1>7. \A n, hows : Filed(n) \in SUBSET (1..filed) /\ Cuts(n, hows) \in SUBSET Filed(n)
    BY <1>6 DEF Cuts
  <1>8. \A n : n \in DOMAIN variables <=> n /= NoKey /\ Filed(n) /= {}
    BY <1>6 DEF Filing
  <1>9. DOMAIN variables' = DOMAIN variables \cup ({e.name} \ {NoKey})
    BY <1>3 DEF FileUnder, Put
  <1>10. {LineEntry(k).name : k \in 1..filed}' = {LineEntry(k).name : k \in 1..filed} \cup {e.name}
    <2>1. 1..(filed + 1) = (1..filed) \cup {filed + 1}
      BY <1>1
    <2> QED
      BY <1>1, <1>2, <1>6, <2>1
  <1>11. ASSUME NEW n \in DOMAIN variables, n /= e.name
         PROVE  Sound(n)'
    <2>1. variables'[n] = variables[n]
      BY <1>3, <1>11 DEF FileUnder, Put
    <2>2. PICK v : v = variables[n]
      OBVIOUS
    <2>3. v = [kind |-> v.kind, fields |-> v.fields] /\ v.fields \in Seq(Fields) /\ Holds(n, v)
      BY <1>11, <2>2 DEF Filing, Sound
    <2>4. Holds(n, v)'
      BY <1>6, <1>11, <2>3 DEF Holds
    <2> QED
      BY <1>6, <2>1, <2>2, <2>3, <2>4, NewIsSound
  \* The places of the cuts, with the line at the end of them.
  <1>12. ASSUME NEW n, n = e.name, NEW hows,
                e.how \in hows \/ Filed(n) = {}
         PROVE  Pick(Filed(n)', Cuts(n, hows)') = filed + 1
    <2>1. Filed(n) \in SUBSET (1..filed) /\ Cuts(n, hows) \in SUBSET Filed(n) /\ filed \in Nat
      BY <1>1, <1>7
    <2>2. Filed(n)' = AndNext(Filed(n), filed)
      BY <1>6, <1>12
    <2>3. Cuts(n, hows)' = IF e.how \in hows THEN AndNext(Cuts(n, hows), filed) ELSE Cuts(n, hows)
      BY <1>6, <1>12
    <2> QED
      BY <1>12, <2>1, <2>2, <2>3, PickGrows
  <1>13. ASSUME NEW n, n = e.name, Filed(n) /= {}, NEW hows, e.how \notin hows
         PROVE  Pick(Filed(n)', Cuts(n, hows)') = Pick(Filed(n), Cuts(n, hows))
    <2>1. Filed(n) \in SUBSET (1..filed) /\ Cuts(n, hows) \in SUBSET Filed(n) /\ filed \in Nat
      BY <1>1, <1>7
    <2>2. Filed(n)' = AndNext(Filed(n), filed) /\ Cuts(n, hows)' = Cuts(n, hows)
      BY <1>6, <1>13
    <2> QED
      BY <1>13, <2>1, <2>2, PickGrows
  <1>14. ASSUME NEW n, n = e.name, n /= NoKey
         PROVE  Sound(n)'
    <2>1. n \in DOMAIN variables <=> Filed(n) /= {}
      BY <1>8, <1>14
    <2>2. e.how \in {"append", "refill", "replace"} /\ LineEntry(filed + 1).name = n
      BY <1>2, <1>4, <1>14 DEF Hows
    <2>3. <<FieldOf(filed + 1)>> \in Seq(Fields)
      BY <1>5
    <2>4. CASE n \notin DOMAIN variables \/ e.how = "replace"
      <3>1. PICK v : v = [kind |-> e.kind, fields |-> <<FieldOf(filed + 1)>>]
        OBVIOUS
      <3>2. variables'[n] = v
        BY <1>3, <1>14, <2>4, <3>1 DEF FileUnder, Put
      <3>3. /\ Pick(Filed(n)', Cuts(n, {"replace", "refill"})') = filed + 1
            /\ Pick(Filed(n)', Cuts(n, {"replace"})') = filed + 1
        BY <1>12, <1>14, <2>1, <2>4
      <3>4. e.kind = LineEntry(Pick(Filed(n)', Cuts(n, {"replace"})')).kind
        BY <1>2, <3>3
      <3>5. Holds(n, v)'
        BY <1>1, <2>2, <3>1, <3>3, <3>4, OneField
      <3>6. v = [kind |-> v.kind, fields |-> v.fields] /\ v.fields \in Seq(Fields)
        BY <2>3, <3>1
      <3> QED
        BY <1>6, <3>2, <3>5, <3>6, NewIsSound
    <2>5. CASE n \in DOMAIN variables /\ e.how = "refill"
      <3>1. PICK old : /\ old = variables[n] /\ Holds(n, old)
                       /\ old = [kind |-> old.kind, fields |-> old.fields]
        BY <2>5 DEF Filing, Sound
      <3>2. PICK v : v = [kind |-> old.kind, fields |-> <<FieldOf(filed + 1)>>]
        OBVIOUS
      <3>3. variables'[n] = v
        <4>1. v = [old EXCEPT !.fields = <<FieldOf(filed + 1)>>]
          BY <3>1, <3>2
        <4>2. variables' = [variables EXCEPT ![n].fields = <<FieldOf(filed + 1)>>]
          BY <1>3, <1>14, <2>5 DEF FileUnder
        <4> QED
          BY <2>5, <3>1, <4>1, <4>2
      <3>4. /\ Pick(Filed(n)', Cuts(n, {"replace", "refill"})') = filed + 1
            /\ Pick(Filed(n)', Cuts(n, {"replace"})') = Pick(Filed(n), Cuts(n, {"replace"}))
        BY <1>12, <1>13, <1>14, <2>1, <2>5
      <3>5. old.kind = LineEntry(Pick(Filed(n)', Cuts(n, {"replace"})')).kind
        BY <3>1, <3>4, HoldsIs
      <3>6. Holds(n, v)'
        BY <1>1, <2>2, <3>2, <3>4, <3>5, OneField
      <3>7. v = [kind |-> v.kind, fields |-> v.fields] /\ v.fields \in Seq(Fields)
        BY <2>3, <3>2
      <3> QED
        BY <1>6, <3>3, <3>6, <3>7, NewIsSound
    <2>6. CASE n \in DOMAIN variables /\ e.how = "append"
      <3>1. PICK old : /\ old = variables[n] /\ Holds(n, old) /\ old.fields \in Seq(Fields)
                       /\ old = [kind |-> old.kind, fields |-> old.fields]
        BY <2>6 DEF Filing, Sound
      <3>2. PICK v : v = [kind |-> old.kind, fields |-> Append(old.fields, FieldOf(filed + 1))]
        OBVIOUS
      <3>3. variables'[n] = v
        <4>1. v = [old EXCEPT !.fields = Append(old.fields, FieldOf(filed + 1))]
          <5>1. PICK fields : fields = Append(old.fields, FieldOf(filed + 1))
            OBVIOUS
          <5>2. PICK k, f : old = [kind |-> k, fields |-> f]
            BY <3>1
          <5>3. v = [kind |-> k, fields |-> fields]
            BY <3>2, <5>1, <5>2
          <5>4. v = [old EXCEPT !.fields = fields]
            BY <5>2, <5>3
          <5> QED
            BY <5>1, <5>4
        <4>2. variables' = [variables EXCEPT ![n].fields = Append(@, FieldOf(filed + 1))]
          BY <1>3, <1>14, <2>6 DEF FileUnder
        <4> QED
          BY <2>6, <3>1, <4>1, <4>2
      <3>4. v.kind = old.kind /\ v.fields = Append(old.fields, FieldOf(filed + 1))
        BY <3>2
      <3>5. Holds(n, v)'
        BY <1>1, <1>2, <1>5, <2>1, <2>2, <2>6, <3>1, <3>4, OneMoreField
      <3>6. v = [kind |-> v.kind, fields |-> v.fields] /\ v.fields \in Seq(Fields)
        BY <1>5, <3>1, <3>2, <3>4
      <3> QED
        BY <1>6, <3>3, <3>5, <3>6, NewIsSound
    <2> QED
      BY <2>2, <2>4, <2>5, <2>6
  <1>15. filed' \in Nat /\ filed' <= Len(ps'.lines) /\ slots' = <<>>
    BY <1>1 DEF Filing
  <1>16. DOMAIN variables' = {LineEntry(k).name : k \in 1..filed}' \ {NoKey}
    BY <1>9, <1>10 DEF Filing
  <1>17. \A n \in DOMAIN variables' : Sound(n)'
    <2> TAKE n \in DOMAIN variables'
    <2>1. CASE n = e.name
      <3>1. n /= NoKey
        BY <1>8, <1>9
      <3> QED
        BY <1>14, <2>1, <3>1
    <2>2. CASE n /= e.name
      <3>1. n \in DOMAIN variables
        BY <1>9, <2>2
      <3> QED
        BY <1>11, <2>2, <3>1
    <2> QED
      BY <2>1, <2>2
  <1> QED
    BY <1>15, <1>16, <1>17 DEF Filing

LEMMA InitFilingInv == Init => FilingInv
  BY DEF Init, FilingInv

LEMMA NextFilingInv == ReaderInv /\ FilingInv /\ [Next]_vars => FilingInv'
  <1> SUFFICES ASSUME ReaderInv, FilingInv, [Next]_vars PROVE FilingInv'
    OBVIOUS
  \* While a file is read nothing is filed.
  <1>1. CASE ReadInfoHeader \/ ReadSection \/ ReadInfoPair \/ ReadData \/ SkipLine
    <2>1. phase' = phase /\ phase = "reading" /\ UNCHANGED <<filed, variables, slots>>
      BY <1>1 DEF ReadInfoHeader, ReadSection, ReadInfoPair, ReadData, SkipLine, Read, Reading
    <2> QED
      BY <2>1 DEF FilingInv
  <1>2. CASE OpenFile
    BY <1>2 DEF OpenFile, FilingInv
  <1>3. CASE EndOfFile
    <2>1. /\ phase' /= "reading" /\ filed' = 0 /\ variables' = Nothing /\ slots' = <<>>
          /\ ps' = ps /\ ps.lines \in Seq(1..Len(text))
      BY <1>3 DEF EndOfFile, FilingInv, ReaderInv, ReaderType
    <2>2. DOMAIN Nothing = {} /\ Len(ps.lines) \in Nat /\ 1..0 = {}
      BY <2>1 DEF Nothing
    <2>3. Filing'
      BY <2>1, <2>2 DEF Filing
    <2> QED
      BY <2>1, <2>3 DEF FilingInv
  <1>4. CASE FileLine
    <2>1. phase' = phase /\ phase = "filing" /\ UNCHANGED <<family, at, text>>
      BY <1>4 DEF FileLine
    <2>2. LineByLine' <=> LineByLine
      BY <2>1, EntryStays DEF LineByLine
    <2> QED
      BY <1>4, <2>1, <2>2, FileLineFiling DEF FilingInv
  <1>5. CASE BufferSlotPart
    <2>1. phase' = phase /\ phase = "filing" /\ UNCHANGED <<family, at, text>> /\ ~LineByLine
      BY <1>5 DEF BufferSlotPart, IsSlotLine, IsSlotPart, LineByLine
    <2>2. ~LineByLine'
      BY <2>1, EntryStays DEF LineByLine
    <2> QED
      BY <2>1, <2>2 DEF FilingInv
  <1>6. CASE RegroupSlot
    <2>1. phase' = phase /\ phase = "filing" /\ UNCHANGED <<family, at, text>> /\ ~LineByLine
      BY <1>6 DEF RegroupSlot, FilingInv, Filing
    <2>2. ~LineByLine'
      BY <2>1, EntryStays DEF LineByLine
    <2> QED
      BY <2>1, <2>2 DEF FilingInv
  <1>7. CASE StoreGroup
    BY <1>7 DEF StoreGroup, FilingInv
  <1>8. CASE UNCHANGED vars
    <2>1. UNCHANGED <<family, at, text, ps, filed, variables, slots, phase>>
      BY <1>8 DEF vars
    <2>2. /\ \A k : LineEntry(k)' = LineEntry(k) /\ FieldOf(k)' = FieldOf(k)
          /\ LineByLine' <=> LineByLine
      BY <2>1, EntryStays DEF LineByLine, LineEntry, FieldOf
    <2>3. Fields' = Fields /\ \A n : Filed(n)' = Filed(n)
      BY <2>1, <2>2, EntryStays DEF Fields, Filed
    <2>4. \A n, hows : Cuts(n, hows)' = Cuts(n, hows)
      BY <2>2, <2>3 DEF Cuts
    <2>5. \A n : Sound(n)' <=> Sound(n)
      BY <2>1, <2>2, <2>3, <2>4 DEF Sound, Holds
    <2>6. Filing' <=> Filing
      BY <2>1, <2>2, <2>5 DEF Filing
    <2> QED
      BY <2>1, <2>2, <2>6 DEF FilingInv
  <1> QED
    BY <1>1, <1>2, <1>3, <1>4, <1>5, <1>6, <1>7, <1>8 DEF Next

\* However the lines of a file are mixed and however many share a name, filing
\* them loses none but those a later one replaces, in any group but a 4xx
\* report.
THEOREM NoLineIsLost == Spec => []FieldsSinceLastReplace
  <1>1. FilingInv => FieldsSinceLastReplace
    <2> SUFFICES ASSUME Filing PROVE FieldsSinceLastReplace
      BY DEF FilingInv, LineByLine, FieldsSinceLastReplace
    <2>1. \A n, hows : Since(n, hows) = Pick(Filed(n), Cuts(n, hows))
      BY DEF Since, Pick, Cuts, LineEntry
    <2>2. \A n \in DOMAIN variables : Holds(n, variables[n])
      BY DEF Filing, Sound
    <2> QED
      BY <2>1, <2>2 DEF Filing, FieldsSinceLastReplace, Holds, LineEntry, FieldOf
  <1> QED
    BY <1>1, InitReaderInv, NextReaderInv, InitFilingInv, NextFilingInv, PTL DEF Spec

-----------------------------------------------------------------------------
(* Kinds and roles *)

Structural == {"latch", "timer", "counter"}
PlainKinds == {"string", "number", "enum", "direct", "math", "ser_list"}
\* A name with a number and no suffix, as those that parts are put under.
Numbered(n) == n.digits /= "" /\ n.sfx = ""
\* The kind of the parts that are put under a name: no two kinds share one.
PartKind(n) ==
  CASE n.stem \in (IF family = "4xx" THEN {"PLT", "ALT"} ELSE {"LT"}) -> "latch"
    [] n.stem \in (IF family = "4xx" THEN {"PCT", "CT", "ACT"} ELSE {"SV"}) -> "timer"
    [] n.stem \in (IF family = "4xx" THEN {"PCN", "CN", "ACN"} ELSE {"SC"}) -> "counter"
    [] OTHER -> "direct"

LEMMA RolesAre ==
  /\ RolesOf("latch") = {"set", "reset"}
  /\ RolesOf("timer") = {"input", "pickup", "dropout"}
  /\ RolesOf("counter") = {"input", "count_up", "count_down", "load", "preset", "reset"}
  /\ RolesOf("direct") = {"value", "fail_safe"}
  /\ \A kind \in PlainKinds : "value" \in RolesOf(kind)
  BY DEF RolesOf, PlainKinds

\* The parts of a latch, a timer and a counter have the roles of one.
LEMMA PartsHaveRoles ==
  ASSUME NEW base, NEW tag
  PROVE  /\ Latch(base, tag).name = base /\ Latch(base, tag).kind = "latch"
         /\ Latch(base, tag).how = "append" /\ Latch(base, tag).role \in RolesOf("latch")
         /\ Timer(base, tag).name = base /\ Timer(base, tag).kind = "timer"
         /\ Timer(base, tag).how = "append" /\ Timer(base, tag).role \in RolesOf("timer")
         /\ Counter(base, tag).name = base /\ Counter(base, tag).kind = "counter"
         /\ Counter(base, tag).how = "append"
         /\ tag \in CounterTags => Counter(base, tag).role \in RolesOf("counter")
  <1>1. /\ LatchRole(tag) \in {"set", "reset"}
        /\ TimerRole(tag) \in {"input", "pickup", "dropout"}
    BY DEF LatchRole, TimerRole
  <1>2. tag \in CounterTags =>
          CounterRole(tag) \in {"input", "count_up", "count_down", "load", "preset", "reset"}
    BY DEF CounterRole, CounterTags
  <1> QED
    BY <1>1, <1>2, RolesAre DEF Latch, Timer, Counter, Entry

LEMMA PlainIs ==
  ASSUME NEW key, NEW v, NEW dialect
  PROVE  LET e == Plain(key, v, dialect)
         IN  e.name = key /\ e.how = "replace" /\ e.role = "value" /\ e.kind \in PlainKinds
  <1>1. InferKind(v, dialect) \in {"string", "number", "enum", "logic"}
    BY DEF InferKind
  <1>2. KindOfVariable(InferKind(v, dialect)) \in PlainKinds
    BY <1>1 DEF KindOfVariable, PlainKinds
  <1> QED
    BY <1>2 DEF Plain, Entry

\* What a line of a group that is no report may make: a part, put behind the
\* others of its kind; a variable of its own; or, in a 4xx, a left side.
IsPart(e) ==
  /\ e.how = "append" /\ Group.has_logic
  /\ e.kind = PartKind(e.name) /\ e.role \in RolesOf(e.kind)
  /\ e.kind \in Structural =>
       e.name.stem \in PartStems \/ (family = "7xx" /\ e.name.stem = "SV")
  /\ e.kind \notin Structural =>
       family = "7xx" /\ e.name.stem = "OUT" /\ e.kind = "direct"
  /\ family /= "4xx" => Numbered(e.name)
IsPlain(e) ==
  /\ e.how = "replace" /\ e.role = "value" /\ e.kind \in PlainKinds
  /\ ~(family = "7xx" /\ Group.has_logic /\ Numbered(e.name) /\ e.name.stem \in {"SV", "OUT"})
IsLeftSide(e) ==
  /\ family = "4xx" /\ Group.has_logic
  /\ e.how = "append" /\ e.role = "value" /\ e.kind = "direct"
Shaped(e) == e.name = NoKey \/ IsPart(e) \/ IsPlain(e) \/ IsLeftSide(e)

LEMMA Shape4xx ==
  ASSUME family = "4xx", NEW key, NEW v
  PROVE  Shaped(Entry4xx(key, v))
  <1>1. CASE Is(key, {"PROTSEL", "AUTO_"}, {""}) /\ Group.has_logic
    <2>1. CASE v.lhs = NoKey
      BY <1>1, <2>1 DEF Entry4xx, Dropped, Entry, Shaped
    <2>2. CASE v.lhs /= NoKey
      <3> DEFINE lhs == v.lhs
                 base == Named(lhs.stem, lhs.digits)
      <3>0. Entry4xx(key, v) = RoleOf4xx(lhs) /\ base.stem = lhs.stem
        BY <1>1, <2>2 DEF Entry4xx, Named
      <3>5. PICK e : e = RoleOf4xx(lhs)
        OBVIOUS
      <3>6. ASSUME Shaped(e) PROVE Shaped(Entry4xx(key, v))
        BY <3>0, <3>5, <3>6
      <3> HIDE DEF lhs
      <3>1. CASE Is(lhs, {"PLT", "ALT"}, {"S", "R"})
        <4>1. RoleOf4xx(lhs) = Latch(base, lhs.sfx)
          BY <3>1 DEF RoleOf4xx, Is, CounterTags
        <4>2. PartKind(base) = "latch" /\ base.stem \in PartStems
          BY <3>0, <3>1 DEF Is, PartKind, PartStems
        <4>3. /\ e.name = base /\ e.kind = "latch" /\ e.how = "append"
              /\ e.role \in RolesOf("latch")
          BY <3>5, <4>1, PartsHaveRoles
        <4>4. IsPart(e)
          BY <1>1, <4>2, <4>3 DEF IsPart, Structural
        <4> QED
          BY <3>6, <4>4 DEF Shaped
      <3>2. CASE Is(lhs, {"PCT", "CT", "ACT"}, {"IN", "PU", "DO"})
        <4>1. RoleOf4xx(lhs) = Timer(base, lhs.sfx)
          BY <3>2 DEF RoleOf4xx, Is, CounterTags
        <4>2. PartKind(base) = "timer" /\ base.stem \in PartStems
          BY <3>0, <3>2 DEF Is, PartKind, PartStems
        <4>3. /\ e.name = base /\ e.kind = "timer" /\ e.how = "append"
              /\ e.role \in RolesOf("timer")
          BY <3>5, <4>1, PartsHaveRoles
        <4>4. IsPart(e)
          BY <1>1, <4>2, <4>3 DEF IsPart, Structural
        <4> QED
          BY <3>6, <4>4 DEF Shaped
      <3>3. CASE Is(lhs, {"PCN", "CN", "ACN"}, CounterTags)
        <4>1. RoleOf4xx(lhs) = Counter(base, lhs.sfx) /\ lhs.sfx \in CounterTags
          BY <3>3 DEF RoleOf4xx, Is, CounterTags
        <4>2. PartKind(base) = "counter" /\ base.stem \in PartStems
          BY <3>0, <3>3 DEF Is, PartKind, PartStems
        <4>3. /\ e.name = base /\ e.kind = "counter" /\ e.how = "append"
              /\ e.role \in RolesOf("counter")
          BY <3>5, <4>1, PartsHaveRoles
        <4>4. IsPart(e)
          BY <1>1, <4>2, <4>3 DEF IsPart, Structural
        <4> QED
          BY <3>6, <4>4 DEF Shaped
      <3>4. CASE /\ ~Is(lhs, {"PLT", "ALT"}, {"S", "R"})
                 /\ ~Is(lhs, {"PCT", "CT", "ACT"}, {"IN", "PU", "DO"})
                 /\ ~Is(lhs, {"PCN", "CN", "ACN"}, CounterTags)
        <4>1. RoleOf4xx(lhs) = Entry(lhs, "direct", "value", "logic", "append")
          BY <3>4 DEF RoleOf4xx
        <4>2. e.how = "append" /\ e.role = "value" /\ e.kind = "direct"
          BY <3>5, <4>1 DEF Entry
        <4> QED
          BY <1>1, <3>6, <4>2 DEF Shaped, IsLeftSide
      <3> QED
        BY <3>1, <3>2, <3>3, <3>4
    <2> QED
      BY <2>1, <2>2
  <1>2. CASE ~(Is(key, {"PROTSEL", "AUTO_"}, {""}) /\ Group.has_logic)
    <2>1. Entry4xx(key, v) = Plain(key, v, "keyword")
      BY <1>2 DEF Entry4xx
    <2> QED
      BY <2>1, PlainIs DEF Shaped, IsPlain
  <1> QED
    BY <1>1, <1>2

LEMMA Shape7xx ==
  ASSUME family = "7xx", NEW key, NEW v
  PROVE  Shaped(Entry7xx(key, v))
  <1>0. PICK e : e = Entry7xx(key, v)
    OBVIOUS
  <1> SUFFICES Shaped(e)
    BY <1>0
  <1>1. CASE ~Group.has_logic
    <2>1. e = Plain(key, v, "keyword")
      BY <1>0, <1>1 DEF Entry7xx
    <2> QED
      BY <1>1, <2>1, PlainIs DEF Shaped, IsPlain
  <1> DEFINE named == Named(key.stem, key.digits)
             part(stem) == Named(stem, Padded(key.digits))
  <1>2. \A stem : part(stem).stem = stem /\ part(stem).sfx = ""
                  /\ (key.digits /= "" => Numbered(part(stem)))
    BY DEF Named, Padded, Numbered
  <1>3. ASSUME Group.has_logic, Is(key, {"SET", "RST"}, {""}) PROVE Shaped(e)
    <2>0. PICK base : base = part("LT")
      OBVIOUS
    <2>1. e = Latch(base, key.stem) /\ key.digits /= ""
      BY <1>0, <2>0, <1>3 DEF Entry7xx, Is
    <2>2. PartKind(base) = "latch" /\ base.stem \in PartStems /\ Numbered(base)
      BY <1>2, <2>0, <2>1 DEF PartKind, PartStems
    <2>3. /\ e.name = base /\ e.kind = "latch" /\ e.how = "append"
          /\ e.role \in RolesOf("latch")
      <3>1. e = Latch(base, key.stem)
        BY <2>1
      <3> QED
        BY <3>1, PartsHaveRoles
    <2>4. IsPart(e)
      BY <1>2, <1>3, <2>1, <2>2, <2>3 DEF IsPart, Structural
    <2> QED
      BY <2>4 DEF Shaped
  <1>4. ASSUME Group.has_logic, Is(key, {"SV"}, {"", "PU", "DO"}) PROVE Shaped(e)
    <2>0. PICK base : base = part("SV")
      OBVIOUS
    <2>1. e = Timer(base, key.sfx) /\ key.digits /= ""
      BY <1>0, <2>0, <1>4 DEF Entry7xx, Is
    <2>2. PartKind(base) = "timer" /\ base.stem = "SV" /\ Numbered(base)
      BY <1>2, <2>0, <2>1 DEF PartKind
    <2>3. /\ e.name = base /\ e.kind = "timer" /\ e.how = "append"
          /\ e.role \in RolesOf("timer")
      <3>1. e = Timer(base, key.sfx)
        BY <2>1
      <3> QED
        BY <3>1, PartsHaveRoles
    <2>4. IsPart(e)
      BY <1>2, <1>4, <2>1, <2>2, <2>3 DEF IsPart, Structural
    <2> QED
      BY <2>4 DEF Shaped
  <1>5. ASSUME Group.has_logic, Is(key, {"SC"}, {"CU", "CD", "LD", "PV"}) PROVE Shaped(e)
    <2>0. PICK base : base = part("SC")
      OBVIOUS
    <2>1. e = Counter(base, key.sfx) /\ key.digits /= "" /\ key.sfx \in CounterTags
      BY <1>0, <2>0, <1>5 DEF Entry7xx, Is, CounterTags
    <2>2. PartKind(base) = "counter" /\ base.stem \in PartStems /\ Numbered(base)
      BY <1>2, <2>0, <2>1 DEF PartKind, PartStems
    <2>3. /\ e.name = base /\ e.kind = "counter" /\ e.how = "append"
          /\ e.role \in RolesOf("counter")
      <3>1. e = Counter(base, key.sfx) /\ key.sfx \in CounterTags
        BY <2>1
      <3> QED
        BY <3>1, PartsHaveRoles
    <2>4. IsPart(e)
      BY <1>2, <1>5, <2>1, <2>2, <2>3 DEF IsPart, Structural
    <2> QED
      BY <2>4 DEF Shaped
  <1>6. ASSUME Group.has_logic, Is(key, {"OUT"}, {"", "FS"}) PROVE Shaped(e)
    <2>1. /\ e.how = "append" /\ e.kind = "direct" /\ e.role \in {"value", "fail_safe"}
          /\ e.name.stem = "OUT" /\ Numbered(e.name)
      BY <1>0, <1>6 DEF Entry7xx, Is, Entry, Named, Numbered
    <2>2. PartKind(e.name) = "direct"
      BY <2>1 DEF PartKind
    <2>3. IsPart(e)
      BY <1>6, <2>1, <2>2, RolesAre DEF IsPart, Structural
    <2> QED
      BY <2>3 DEF Shaped
  <1>7. ASSUME Group.has_logic, Is(key, {"MV"}, {""}) \/ Is(key, {"TMB"}, {"A", "B"})
        PROVE  Shaped(e)
    <2>1. /\ e.how = "replace" /\ e.kind \in {"math", "direct"} /\ e.role = "value"
          /\ e.name.stem \in {"MV", "TMB"}
      BY <1>0, <1>7 DEF Entry7xx, Is, Entry, Named
    <2>2. IsPlain(e)
      BY <2>1 DEF IsPlain, PlainKinds
    <2> QED
      BY <2>2 DEF Shaped
  <1>8. ASSUME Group.has_logic, ~Is(key, {"SET", "RST"}, {""}),
               ~Is(key, {"SV"}, {"", "PU", "DO"}), ~Is(key, {"SC"}, {"CU", "CD", "LD", "PV"}),
               ~Is(key, {"OUT"}, {"", "FS"}), ~Is(key, {"MV"}, {""}),
               ~Is(key, {"TMB"}, {"A", "B"})
        PROVE  Shaped(e)
    <2>1. ~Is(key, {"OUT"}, {""}) /\ ~Is(key, {"OUT"}, {"FS"})
      BY <1>8 DEF Is
    <2>2. e = Plain(key, v, "keyword")
      BY <1>0, <1>8, <2>1 DEF Entry7xx
    <2>3. ~(Numbered(key) /\ key.stem \in {"SV", "OUT"})
      BY <1>8 DEF Is, Numbered
    <2>4. IsPlain(e)
      BY <2>2, <2>3, PlainIs DEF IsPlain
    <2> QED
      BY <2>4 DEF Shaped
  <1> QED
    BY <1>1, <1>3, <1>4, <1>5, <1>6, <1>7, <1>8

LEMMA Shape3xx ==
  ASSUME family = "3xx", NEW key, NEW v
  PROVE  Shaped(Entry3xx(key, v))
  <1>0. PICK e : e = Entry3xx(key, v)
    OBVIOUS
  <1> SUFFICES Shaped(e)
    BY <1>0
  <1> DEFINE part(stem) == Named(stem, Short(key.digits))
  <1>1. \A stem : part(stem).stem = stem /\ (key.digits /= "" => Numbered(part(stem)))
    BY DEF Named, Short, Numbered
  <1>2. ASSUME Group.has_logic, Is(key, {"SET", "RST"}, {""}) PROVE Shaped(e)
    <2>0. PICK base : base = part("LT")
      OBVIOUS
    <2>1. e = Latch(base, key.stem) /\ key.digits /= ""
      BY <1>0, <2>0, <1>2 DEF Entry3xx, Is
    <2>2. PartKind(base) = "latch" /\ base.stem \in PartStems /\ Numbered(base)
      BY <1>1, <2>0, <2>1 DEF PartKind, PartStems
    <2>3. /\ e.name = base /\ e.kind = "latch" /\ e.how = "append"
          /\ e.role \in RolesOf("latch")
      <3>1. e = Latch(base, key.stem)
        BY <2>1
      <3> QED
        BY <3>1, PartsHaveRoles
    <2>4. IsPart(e)
      BY <1>1, <1>2, <2>1, <2>2, <2>3 DEF IsPart, Structural
    <2> QED
      BY <2>4 DEF Shaped
  <1>3. ASSUME Group.has_logic, Is(key, {"SV"}, {"PU", "DO"}) PROVE Shaped(e)
    <2>0. PICK base : base = part("SV")
      OBVIOUS
    <2>1. e = Timer(base, key.sfx) /\ key.digits /= ""
      BY <1>0, <2>0, <1>3 DEF Entry3xx, Is
    <2>2. PartKind(base) = "timer" /\ base.stem \in PartStems /\ Numbered(base)
      BY <1>1, <2>0, <2>1 DEF PartKind, PartStems
    <2>3. /\ e.name = base /\ e.kind = "timer" /\ e.how = "append"
          /\ e.role \in RolesOf("timer")
      <3>1. e = Timer(base, key.sfx)
        BY <2>1
      <3> QED
        BY <3>1, PartsHaveRoles
    <2>4. IsPart(e)
      BY <1>1, <1>3, <2>1, <2>2, <2>3 DEF IsPart, Structural
    <2> QED
      BY <2>4 DEF Shaped
  <1>4. ASSUME ~(Group.has_logic /\ Is(key, {"SET", "RST"}, {""})),
               ~(Group.has_logic /\ Is(key, {"SV"}, {"PU", "DO"}))
        PROVE  Shaped(e)
    <2>1. e = Plain(key, v, "symbolic")
      BY <1>0, <1>4 DEF Entry3xx
    <2> QED
      BY <2>1, PlainIs DEF Shaped, IsPlain
  <1> QED
    BY <1>2, <1>3, <1>4

\* A line of a report of a 3xx or 7xx, or one of a 4xx that is no part of a slot.
ReportLine(e) ==
  \/ e.name = NoKey
  \/ e.how = "replace" /\ e.role = "value" /\ e.kind \in PlainKinds
  \/ family = "7xx" /\ e.how = "refill" /\ e.role = "alias" /\ e.kind = "ser_item"

LEMMA LineShape ==
  ASSUME family \in Family, NEW i
  PROVE  IF IsReport THEN ReportLine(EntryOf(i)) ELSE Shaped(EntryOf(i))
  <1> DEFINE key == text[i].key
             v   == text[i].value
  <1>1. family \in {"3xx", "4xx", "7xx"}
    BY SettingsAssumption
  <1>2. CASE IsReport
    <2>1. PICK e : e = EntryReport(key, v)
      OBVIOUS
    <2>2. EntryOf(i) = e
      BY <1>2, <2>1 DEF EntryOf
    <2> HIDE DEF key, v
    <2>3. ~(Is(key, {"SER"}, {""}) /\ Is(key, {"ALIAS"}, {""}))
      BY DEF Is
    <2>4. CASE Is(key, {"SER"}, {""})
      <3>1. e = Entry(key, "ser_list", "value", "set_list", "replace")
        BY <2>1, <2>3, <2>4 DEF EntryReport
      <3> QED
        BY <1>2, <2>2, <3>1 DEF ReportLine, Entry, PlainKinds
    <2>5. CASE family = "7xx" /\ Is(key, {"ALIAS"}, {""})
      <3>1. e = IF v.na \/ v.bit = NoKey THEN Dropped
                ELSE Entry(v.bit, "ser_item", "alias", "string", "refill")
        BY <2>1, <2>3, <2>5 DEF EntryReport
      <3>2. CASE v.na \/ v.bit = NoKey
        BY <1>2, <2>2, <3>1, <3>2 DEF ReportLine, Entry, Dropped
      <3>3. CASE ~(v.na \/ v.bit = NoKey)
        <4>1. e.how = "refill" /\ e.role = "alias" /\ e.kind = "ser_item"
          BY <3>1, <3>3 DEF Entry
        <4> QED
          BY <1>2, <2>2, <2>5, <4>1 DEF ReportLine
      <3> QED
        BY <3>2, <3>3
    <2>6. CASE ~Is(key, {"SER"}, {""}) /\ ~(family = "7xx" /\ Is(key, {"ALIAS"}, {""}))
      <3>1. e = Plain(key, v, Dialect)
        BY <2>1, <2>6 DEF EntryReport
      <3> QED
        BY <1>2, <2>2, <3>1, PlainIs DEF ReportLine
    <2> QED
      BY <2>4, <2>5, <2>6
  <1>3. CASE ~IsReport
    <2>1. CASE family = "3xx"
      <3>1. EntryOf(i) = Entry3xx(key, v)
        BY <1>3, <2>1 DEF EntryOf
      <3> QED
        BY <1>3, <2>1, <3>1, Shape3xx
    <2>2. CASE family = "4xx"
      <3>1. EntryOf(i) = Entry4xx(key, v)
        BY <1>3, <2>2 DEF EntryOf
      <3> QED
        BY <1>3, <2>2, <3>1, Shape4xx
    <2>3. CASE family = "7xx"
      <3>1. EntryOf(i) = Entry7xx(key, v)
        BY <1>3, <2>3 DEF EntryOf
      <3> QED
        BY <1>3, <2>3, <3>1, Shape7xx
    <2> QED
      BY <1>1, <2>1, <2>2, <2>3
  <1> QED
    BY <1>2, <1>3

\* The inductive form of the table of roles: a variable of one name has the
\* parts of one kind, or it is, or was made by, a variable of its own.
Fits(n, kind, roles) ==
  IF IsReport
  THEN \/ kind \in PlainKinds \cup {"ser_item"} /\ roles \subseteq RolesOf(kind)
       \/ family = "7xx" /\ roles = {"alias"}
  ELSE \/ kind \in Structural /\ kind = PartKind(n) /\ roles \subseteq RolesOf(kind)
       \/ /\ kind \in PlainKinds /\ roles \subseteq RolesOf(kind)
          /\ PartKind(n) \in Structural => "value" \in roles
          /\ family = "7xx" /\ Group.has_logic /\ Numbered(n) =>
               n.stem /= "SV" /\ (n.stem = "OUT" => kind = "direct")
       \/ /\ Group.has_logic /\ n.stem \in PartStems /\ "value" \in roles
          /\ family /= "4xx" => kind \in PlainKinds
RoleInv == \A n \in DOMAIN variables : Fits(n, variables[n].kind, Roles(n))

LEMMA NewFits ==
  ASSUME NEW e, e.name /= NoKey, IF IsReport THEN ReportLine(e) ELSE Shaped(e)
  PROVE  Fits(e.name, e.kind, {e.role})
  <1>1. CASE IsReport
    <2>1. "value" \notin {"alias"} /\ "alias" \in RolesOf("ser_item")
      BY DEF RolesOf
    <2> QED
      BY <1>1, <2>1, RolesAre DEF Fits, ReportLine
  <1>2. CASE ~IsReport /\ IsPart(e)
    <2>1. CASE e.kind \in Structural
      BY <1>2, <2>1 DEF Fits, IsPart
    <2>2. CASE e.kind \notin Structural
      BY <1>2, <2>2 DEF Fits, IsPart, PlainKinds
    <2> QED
      BY <2>1, <2>2
  <1>3. CASE ~IsReport /\ IsPlain(e)
    BY <1>3, RolesAre DEF Fits, IsPlain
  <1>4. CASE ~IsReport /\ IsLeftSide(e)
    BY <1>4, RolesAre DEF Fits, IsLeftSide, PlainKinds
  <1> QED
    BY <1>1, <1>2, <1>3, <1>4 DEF Shaped

\* A part behind those that are there, or a left side behind them.
LEMMA OneMoreFits ==
  ASSUME NEW e, e.name /= NoKey, IF IsReport THEN ReportLine(e) ELSE Shaped(e),
         e.how = "append", NEW kind, NEW roles, Fits(e.name, kind, roles)
  PROVE  Fits(e.name, kind, roles \cup {e.role})
  <1> DEFINE n == e.name
  <1>1. ~IsReport
    BY DEF ReportLine
  <1>2. IsPart(e) \/ IsLeftSide(e)
    BY <1>1 DEF Shaped, IsPlain
  <1>3. family = "4xx" /\ PartKind(n) \in Structural => n.stem \in PartStems
    BY DEF PartKind, Structural, PartStems
  <1>4. \A k \in Structural : k \notin PlainKinds
    BY DEF Structural, PlainKinds
  <1> HIDE DEF n
  <1>5. CASE kind \in Structural /\ kind = PartKind(n) /\ roles \subseteq RolesOf(kind)
    <2>1. CASE IsPart(e)
      BY <1>1, <1>5, <2>1 DEF Fits, IsPart, n
    <2>2. CASE IsLeftSide(e)
      BY <1>1, <1>3, <1>5, <2>2 DEF Fits, IsLeftSide, n
    <2> QED
      BY <1>2, <2>1, <2>2
  <1>6. CASE /\ kind \in PlainKinds /\ roles \subseteq RolesOf(kind)
             /\ PartKind(n) \in Structural => "value" \in roles
             /\ family = "7xx" /\ Group.has_logic /\ Numbered(n) =>
                  n.stem /= "SV" /\ (n.stem = "OUT" => kind = "direct")
    <2>1. CASE IsPart(e) /\ e.kind \in Structural
      <3>1. n.stem \in PartStems /\ "value" \in roles /\ Group.has_logic
        BY <1>6, <2>1 DEF IsPart, n
      <3> QED
        BY <1>1, <1>6, <3>1 DEF Fits, n
    <2>2. CASE IsPart(e) /\ e.kind \notin Structural
      <3>1. kind = "direct" /\ e.kind = "direct" /\ e.role \in RolesOf(kind)
        BY <1>6, <2>2 DEF IsPart, n
      <3> QED
        BY <1>1, <1>6, <3>1 DEF Fits, n
    <2>3. CASE IsLeftSide(e)
      <3>1. e.role \in RolesOf(kind) /\ e.role = "value"
        BY <1>6, <2>3, RolesAre DEF IsLeftSide
      <3> QED
        BY <1>1, <1>6, <3>1 DEF Fits, n
    <2> QED
      BY <1>2, <2>1, <2>2, <2>3
  <1>7. CASE /\ Group.has_logic /\ n.stem \in PartStems /\ "value" \in roles
             /\ family /= "4xx" => kind \in PlainKinds
    BY <1>1, <1>7 DEF Fits, n
  <1> QED
    BY <1>1, <1>5, <1>6, <1>7 DEF Fits, n

\* The values of two sequences, one behind the other.
Values(s) == {s[j] : j \in DOMAIN s}
LEMMA ValuesOfBoth ==
  ASSUME NEW S, NEW s \in Seq(S), NEW t \in Seq(S)
  PROVE  s \o t \in Seq(S) /\ Values(s \o t) = Values(s) \cup Values(t)
  <1>1. /\ s \o t \in Seq(S) /\ Len(s \o t) = Len(s) + Len(t)
        /\ Len(s) \in Nat /\ Len(t) \in Nat
        /\ \A i \in 1..Len(s) : (s \o t)[i] = s[i]
        /\ \A i \in 1..Len(t) : (s \o t)[Len(s) + i] = t[i]
    OBVIOUS
  <1>2. \A i \in 1..(Len(s) + Len(t)) :
          i \in 1..Len(s) \/ (i - Len(s) \in 1..Len(t) /\ i = Len(s) + (i - Len(s)))
    BY <1>1
  <1>3. \A i \in 1..Len(s) : i \in 1..(Len(s) + Len(t))
    BY <1>1
  <1>4. \A i \in 1..Len(t) : Len(s) + i \in 1..(Len(s) + Len(t))
    BY <1>1
  <1>5. /\ DOMAIN s = 1..Len(s) /\ DOMAIN t = 1..Len(t)
        /\ DOMAIN (s \o t) = 1..(Len(s) + Len(t))
    BY <1>1
  <1>6. Values(s \o t) \subseteq Values(s) \cup Values(t)
    BY <1>1, <1>2, <1>5 DEF Values
  <1>7. Values(s) \subseteq Values(s \o t)
    BY <1>1, <1>3, <1>5 DEF Values
  <1>8. Values(t) \subseteq Values(s \o t)
    BY <1>1, <1>4, <1>5 DEF Values
  <1> QED
    BY <1>1, <1>6, <1>7, <1>8

\* The fields of a slot: one for each of its parts, with the line of the part,
\* and one with its number.
SlotRecord(parts, part, role, kind) == [role |-> role, kind |-> kind, line |-> parts[part]]
PartNames == {"SITM", "SNAME", "SSET", "SCLR", "SHMI"}
SlotRecords(parts) ==
  {SlotRecord(parts, p, r, k) :
     p \in PartNames, r \in RolesOf("ser_item"), k \in {"enum", "string", "number"}}
LEMMA SlotFieldIs ==
  ASSUME NEW parts, NEW p \in PartNames, NEW r \in RolesOf("ser_item"),
         NEW k \in {"enum", "string", "number"}
  PROVE  /\ SlotField(parts, p, r, k) \in Seq(SlotRecords(parts))
         /\ Values(SlotField(parts, p, r, k)) =
              IF p \in DOMAIN parts THEN {SlotRecord(parts, p, r, k)} ELSE {}
  <1>1. SlotRecord(parts, p, r, k) \in SlotRecords(parts)
    BY DEF SlotRecords
  <1>2. CASE p \in DOMAIN parts
    <2>1. SlotField(parts, p, r, k) = <<SlotRecord(parts, p, r, k)>>
      BY <1>2 DEF SlotField, SlotRecord
    <2> QED
      BY <1>1, <1>2, <2>1 DEF Values
  <1>3. CASE p \notin DOMAIN parts
    <2>1. SlotField(parts, p, r, k) = <<>>
      BY <1>3 DEF SlotField
    <2> QED
      BY <1>3, <2>1 DEF Values
  <1> QED
    BY <1>2, <1>3

LEMMA SlotFieldsAre ==
  ASSUME NEW parts, "SITM" \in DOMAIN parts, DOMAIN parts \subseteq PartNames
  PROVE  /\ \A v \in Values(SlotFields(parts)) : v.role \in RolesOf("ser_item")
         /\ {v.line : v \in Values(SlotFields(parts))} = {parts[p] : p \in DOMAIN parts}
  <1>0. /\ \A r \in {"wordbit", "alias_nome", "alias_set", "alias_clear", "hmi_alarm", "slot"} :
              r \in RolesOf("ser_item")
        /\ \A p \in {"SITM", "SNAME", "SSET", "SCLR", "SHMI"} : p \in PartNames
    BY DEF RolesOf, PartNames
  <1>1. PICK a : a = SlotField(parts, "SITM", "wordbit", "enum")
    OBVIOUS
  <1>2. PICK b : b = SlotField(parts, "SNAME", "alias_nome", "string")
    OBVIOUS
  <1>3. PICK c : c = SlotField(parts, "SSET", "alias_set", "string")
    OBVIOUS
  <1>4. PICK d : d = SlotField(parts, "SCLR", "alias_clear", "string")
    OBVIOUS
  <1>5. PICK e : e = SlotField(parts, "SHMI", "hmi_alarm", "enum")
    OBVIOUS
  <1>6. PICK f : f = SlotField(parts, "SITM", "slot", "number")
    OBVIOUS
  <1>7. SlotFields(parts) = a \o b \o c \o d \o e \o f
    BY <1>1, <1>2, <1>3, <1>4, <1>5, <1>6 DEF SlotFields
  <1> DEFINE S == SlotRecords(parts)
             one(p, r, k) == IF p \in DOMAIN parts THEN {SlotRecord(parts, p, r, k)} ELSE {}
  <1>8. /\ a \in Seq(S) /\ Values(a) = one("SITM", "wordbit", "enum")
        /\ b \in Seq(S) /\ Values(b) = one("SNAME", "alias_nome", "string")
        /\ c \in Seq(S) /\ Values(c) = one("SSET", "alias_set", "string")
        /\ d \in Seq(S) /\ Values(d) = one("SCLR", "alias_clear", "string")
        /\ e \in Seq(S) /\ Values(e) = one("SHMI", "hmi_alarm", "enum")
        /\ f \in Seq(S) /\ Values(f) = one("SITM", "slot", "number")
    BY <1>0, <1>1, <1>2, <1>3, <1>4, <1>5, <1>6, SlotFieldIs
  <1>9. Values(SlotFields(parts)) =
          Values(a) \cup Values(b) \cup Values(c) \cup Values(d) \cup Values(e) \cup Values(f)
    <2>0. PICK Q : /\ a \in Seq(Q) /\ b \in Seq(Q) /\ c \in Seq(Q)
                   /\ d \in Seq(Q) /\ e \in Seq(Q) /\ f \in Seq(Q)
      BY <1>8
    <2> HIDE DEF S
    <2>1. a \o b \in Seq(Q) /\ Values(a \o b) = Values(a) \cup Values(b)
      BY <2>0, ValuesOfBoth
    <2>2. PICK x : x = a \o b /\ x \in Seq(Q)
      BY <2>1
    <2>3. x \o c \in Seq(Q) /\ Values(x \o c) = Values(x) \cup Values(c)
      <3>1. x \in Seq(Q)
        BY <2>2
      <3> QED
        BY <2>0, <3>1, ValuesOfBoth
    <2>4. PICK y : y = x \o c /\ y \in Seq(Q)
      BY <2>3
    <2>5. y \o d \in Seq(Q) /\ Values(y \o d) = Values(y) \cup Values(d)
      <3>1. y \in Seq(Q)
        BY <2>4
      <3> QED
        BY <2>0, <3>1, ValuesOfBoth
    <2>6. PICK z : z = y \o d /\ z \in Seq(Q)
      BY <2>5
    <2>7. z \o e \in Seq(Q) /\ Values(z \o e) = Values(z) \cup Values(e)
      <3>1. z \in Seq(Q)
        BY <2>6
      <3> QED
        BY <2>0, <3>1, ValuesOfBoth
    <2>8. PICK w : w = z \o e /\ w \in Seq(Q)
      BY <2>7
    <2>9. Values(w \o f) = Values(w) \cup Values(f)
      <3>1. w \in Seq(Q)
        BY <2>8
      <3> QED
        BY <2>0, <3>1, ValuesOfBoth
    <2>10. SlotFields(parts) = w \o f
      BY <1>7, <2>2, <2>4, <2>6, <2>8
    <2> QED
      BY <2>1, <2>2, <2>3, <2>4, <2>5, <2>6, <2>7, <2>8, <2>9, <2>10
  <1>10. \A v \in Values(SlotFields(parts)) :
           \E p \in DOMAIN parts : \E r \in RolesOf("ser_item"), k \in {"enum", "string", "number"} :
             v = SlotRecord(parts, p, r, k)
    BY <1>0, <1>8, <1>9
  <1>11. \A p \in DOMAIN parts :
           \E r \in RolesOf("ser_item"), k \in {"enum", "string", "number"} :
             SlotRecord(parts, p, r, k) \in Values(SlotFields(parts))
    <2>1. ASSUME NEW p \in DOMAIN parts
          PROVE  \E r \in RolesOf("ser_item"), k \in {"enum", "string", "number"} :
                   SlotRecord(parts, p, r, k) \in Values(SlotFields(parts))
      <3>1. p \in {"SITM", "SNAME", "SSET", "SCLR", "SHMI"}
        BY DEF PartNames
      <3> QED
        BY <1>0, <1>8, <1>9, <3>1
    <2> QED
      BY <2>1
  <1>12. \A p, r, k : SlotRecord(parts, p, r, k).role = r /\ SlotRecord(parts, p, r, k).line = parts[p]
    BY DEF SlotRecord
  <1> HIDE DEF S, one
  <1>13. \A v \in Values(SlotFields(parts)) : v.role \in RolesOf("ser_item")
    BY <1>10, <1>12
  <1>14. {v.line : v \in Values(SlotFields(parts))} \subseteq {parts[p] : p \in DOMAIN parts}
    BY <1>10, <1>12
  <1>15. {parts[p] : p \in DOMAIN parts} \subseteq {v.line : v \in Values(SlotFields(parts))}
    BY <1>11, <1>12
  <1> QED
    BY <1>13, <1>14, <1>15


-----------------------------------------------------------------------------
(* The slots of a 4xx report *)

\* The lines of one slot, and of one part of it, among the first n that were kept.
SlotLinesTo(n, slot) ==
  {i \in {ps.lines[k] : k \in 1..n} : IsSlotLine(i) /\ SlotNumber(text[i].key) = slot}
PartLinesTo(n, slot, part) == {i \in SlotLinesTo(n, slot) : text[i].key.stem = part}
BeganTo(n, slot) == FirstOf(SlotLinesTo(n, slot))
PendingIn(queue, slot) == \E j \in DOMAIN queue : queue[j].slot = slot

\* A slot that waits has the last line of each of its parts so far.
HoldsParts(n, slot, parts) ==
  /\ DOMAIN parts = {p \in PartNames : PartLinesTo(n, slot, p) /= {}}
  /\ \A p \in DOMAIN parts : parts[p] = LastOf(PartLinesTo(n, slot, p))
\* The slots that wait: one of a number, in the order they began.
SlotsAt(n, queue) ==
  /\ \A j \in DOMAIN queue : queue[j] = [slot |-> queue[j].slot, parts |-> queue[j].parts]
  /\ \E S : queue \in Seq(S)
  /\ \A j \in DOMAIN queue :
       /\ SlotLinesTo(n, queue[j].slot) /= {}
       /\ HoldsParts(n, queue[j].slot, queue[j].parts)
  /\ \A j, m \in DOMAIN queue :
       j < m => BeganTo(n, queue[j].slot) < BeganTo(n, queue[m].slot)
RecordsTo(n, slot, bit) ==
  /\ PartLinesTo(n, slot, "SITM") /= {}
  /\ text[LastOf(PartLinesTo(n, slot, "SITM"))].value.bit = bit
LastLinesTo(n, slot) ==
  {LastOf(PartLinesTo(n, slot, p)) :
     p \in {q \in PartNames : PartLinesTo(n, slot, q) /= {}}}
\* What the variables hold of a word bit is the last line of each part of a slot.
Shows(n, shown, bit, slot) ==
  /\ bit \in DOMAIN shown /\ shown[bit].kind = "ser_item"
  /\ {v.line : v \in Values(shown[bit].fields)} = LastLinesTo(n, slot)
\* The slots that are through began before those that wait, and of those that
\* record one word bit the last one shows.
Done(n, queue, slot) == SlotLinesTo(n, slot) /= {} /\ ~PendingIn(queue, slot)
LastDone(n, queue, bit, slot) ==
  /\ Done(n, queue, slot) /\ RecordsTo(n, slot, bit)
  /\ \A other : Done(n, queue, other) /\ RecordsTo(n, other, bit) =>
       BeganTo(n, other) <= BeganTo(n, slot)
ShownAt(n, queue, shown) ==
  /\ \A slot : Done(n, queue, slot) =>
       /\ n = Len(ps.lines)
       /\ \A j \in DOMAIN queue : BeganTo(n, slot) < BeganTo(n, queue[j].slot)
  /\ \A bit, slot :
       bit \in Key /\ LastDone(n, queue, bit, slot) => Shows(n, shown, bit, slot)
RegroupInv ==
  phase = "filing" /\ ~LineByLine =>
    /\ filed \in Nat /\ filed <= Len(ps.lines)
    /\ SlotsAt(filed, slots) /\ ShownAt(filed, slots, variables)

\* All that depends on the file, and on what is given, only.
LEMMA SlotLinesStay ==
  ASSUME UNCHANGED <<family, at, text, ps>>
  PROVE  \A n, queue, shown :
           /\ SlotsAt(n, queue)' <=> SlotsAt(n, queue)
           /\ ShownAt(n, queue, shown)' <=> ShownAt(n, queue, shown)
  <1>1. \A n, slot : SlotLinesTo(n, slot)' = SlotLinesTo(n, slot)
    BY EntryStays DEF SlotLinesTo, SlotNumber
  <1>2. \A n, slot, part : PartLinesTo(n, slot, part)' = PartLinesTo(n, slot, part)
    BY <1>1 DEF PartLinesTo
  <1>3. \A n, slot : BeganTo(n, slot)' = BeganTo(n, slot)
    BY <1>1 DEF BeganTo
  <1>4. \A n, slot, parts : HoldsParts(n, slot, parts)' <=> HoldsParts(n, slot, parts)
    BY <1>2 DEF HoldsParts
  <1>5. \A n, queue : SlotsAt(n, queue)' <=> SlotsAt(n, queue)
    BY <1>1, <1>3, <1>4 DEF SlotsAt
  <1>6. /\ \A n, queue, slot : Done(n, queue, slot)' <=> Done(n, queue, slot)
        /\ \A n, slot, bit : RecordsTo(n, slot, bit)' <=> RecordsTo(n, slot, bit)
    BY <1>1, <1>2 DEF Done, PendingIn, RecordsTo
  <1>7. \A n, queue, bit, slot : LastDone(n, queue, bit, slot)' <=> LastDone(n, queue, bit, slot)
    BY <1>3, <1>6 DEF LastDone
  <1>8. \A n, shown, bit, slot : Shows(n, shown, bit, slot)' <=> Shows(n, shown, bit, slot)
    <2>1. \A n, slot : LastLinesTo(n, slot)' = LastLinesTo(n, slot)
      BY <1>2 DEF LastLinesTo
    <2> QED
      BY <2>1 DEF Shows
  <1>9. \A n, queue, shown : ShownAt(n, queue, shown)' <=> ShownAt(n, queue, shown)
    BY <1>3, <1>6, <1>7, <1>8 DEF ShownAt
  <1> QED
    BY <1>5, <1>9

LEMMA FirstOfLines ==
  ASSUME NEW S \in SUBSET Nat, S /= {}
  PROVE  FirstOf(S) \in S /\ \A x \in S : FirstOf(S) <= x
  BY SmallestExists DEF FirstOf

\* A line that comes after all those of a set.
LEMMA LaterLine ==
  ASSUME NEW S \in SUBSET Nat, NEW i \in Nat, \A x \in S : x < i
  PROVE  /\ LastOf(S \cup {i}) = i
         /\ FirstOf(S \cup {i}) = IF S = {} THEN i ELSE FirstOf(S)
  <1>1. LastOf(S \cup {i}) = i
    <2>1. \A x \in S \cup {i} : x <= i
      OBVIOUS
    <2>2. \A y \in S \cup {i} : (\A x \in S \cup {i} : x <= y) => y = i
      OBVIOUS
    <2> QED
      BY <2>1, <2>2 DEF LastOf
  <1>2. FirstOf(S \cup {i}) = IF S = {} THEN i ELSE FirstOf(S)
    <2>1. CASE S = {}
      <3>1. FirstOf({i}) \in {i}
        BY FirstOfLines
      <3>2. S \cup {i} = {i}
        BY <2>1
      <3> QED
        BY <2>1, <3>1, <3>2
    <2>2. CASE S /= {}
      <3>1. FirstOf(S) \in S /\ \A x \in S : FirstOf(S) <= x
        BY <2>2, FirstOfLines
      <3>2. PICK T \in SUBSET Nat : T = S \cup {i}
        OBVIOUS
      <3>3. T /= {}
        BY <3>2
      <3>4. FirstOf(T) \in T /\ \A x \in T : FirstOf(T) <= x
        BY <3>3, FirstOfLines
      <3>5. PICK a \in Nat : a = FirstOf(S)
        BY <3>1
      <3>6. PICK b \in Nat : b = FirstOf(T)
        BY <3>4
      <3>7. b <= a /\ a <= b
        <4>1. a \in S /\ \A x \in S : a <= x
          BY <3>1, <3>5
        <4>2. b \in S \cup {i} /\ \A x \in S \cup {i} : b <= x
          BY <3>2, <3>4, <3>6
        <4>3. a < i /\ a \in S \cup {i}
          BY <4>1
        <4>4. b <= a
          BY <4>2, <4>3
        <4>5. CASE b \in S
          BY <4>1, <4>4, <4>5
        <4>6. CASE b = i
          BY <4>3, <4>4, <4>6
        <4>7. b \in S \/ b = i
          BY <4>2
        <4> QED
          BY <4>5, <4>6, <4>7
      <3>8. a = b
        BY <3>7
      <3>9. FirstOf(S \cup {i}) = FirstOf(T)
        BY <3>2
      <3> QED
        BY <2>2, <3>5, <3>6, <3>8, <3>9
    <2> QED
      BY <2>1, <2>2
  <1> QED
    BY <1>1, <1>2

\* The lines of a slot, one kept line on.
LEMMA SlotLinesGrow ==
  ASSUME ReaderInv, NEW n \in Nat, n < Len(ps.lines), NEW i, i = ps.lines[n + 1]
  PROVE  /\ i \in DOMAIN text /\ i \in Nat
         /\ \A slot : /\ SlotLinesTo(n, slot) \in SUBSET Nat
                      /\ \A x \in SlotLinesTo(n, slot) : x < i
                      /\ SlotLinesTo(n + 1, slot) =
                           IF IsSlotLine(i) /\ SlotNumber(text[i].key) = slot
                           THEN SlotLinesTo(n, slot) \cup {i} ELSE SlotLinesTo(n, slot)
  <1>1. /\ ps.lines \in Seq(1..Len(text)) /\ text \in Seq(AllTexts)
        /\ \A k, m \in DOMAIN ps.lines : k < m => ps.lines[k] < ps.lines[m]
    BY DEF ReaderInv, ReaderType, LinesOfRealSections
  <1>2. /\ n + 1 \in DOMAIN ps.lines
        /\ \A k \in 1..n : k \in DOMAIN ps.lines /\ k < n + 1
    BY <1>1
  <1>3. i \in DOMAIN text /\ i \in Nat
    BY <1>1, <1>2
  <1> DEFINE Kept(m) == {ps.lines[k] : k \in 1..m}
  <1>4. Kept(n) \in SUBSET Nat /\ \A x \in Kept(n) : x < i
    <2>1. ASSUME NEW k \in 1..n PROVE ps.lines[k] \in Nat /\ ps.lines[k] < i
      <3>1. k \in DOMAIN ps.lines /\ ps.lines[k] < ps.lines[n + 1]
        BY <1>1, <1>2
      <3>2. ps.lines[k] \in 1..Len(text)
        BY <1>1, <3>1
      <3> QED
        BY <3>1, <3>2
    <2> QED
      BY <2>1
  <1>5. Kept(n + 1) = Kept(n) \cup {i}
    <2>1. 1..(n + 1) = (1..n) \cup {n + 1}
      OBVIOUS
    <2> QED
      BY <2>1
  <1>6. \A m, slot : SlotLinesTo(m, slot) =
          {x \in Kept(m) : IsSlotLine(x) /\ SlotNumber(text[x].key) = slot}
    BY DEF SlotLinesTo
  <1> HIDE DEF Kept
  <1>7. ASSUME NEW slot
        PROVE  /\ SlotLinesTo(n, slot) \in SUBSET Nat
               /\ \A x \in SlotLinesTo(n, slot) : x < i
               /\ SlotLinesTo(n + 1, slot) =
                    IF IsSlotLine(i) /\ SlotNumber(text[i].key) = slot
                    THEN SlotLinesTo(n, slot) \cup {i} ELSE SlotLinesTo(n, slot)
    BY <1>4, <1>5, <1>6
  <1> QED
    BY <1>3, <1>7

IsPartLine(i, slot, part) ==
  IsSlotLine(i) /\ SlotNumber(text[i].key) = slot /\ text[i].key.stem = part
PartGrows(n, i, slot, part) ==
  /\ PartLinesTo(n, slot, part) \in SUBSET Nat
  /\ \A x \in PartLinesTo(n, slot, part) : x < i
  /\ IsPartLine(i, slot, part) =>
       PartLinesTo(n + 1, slot, part) = PartLinesTo(n, slot, part) \cup {i}
  /\ ~IsPartLine(i, slot, part) => PartLinesTo(n + 1, slot, part) = PartLinesTo(n, slot, part)
LEMMA PartLinesGrow ==
  ASSUME ReaderInv, NEW n \in Nat, n < Len(ps.lines), NEW i, i = ps.lines[n + 1],
         NEW slot, NEW part
  PROVE  PartGrows(n, i, slot, part)
  <1>1. /\ SlotLinesTo(n, slot) \in SUBSET Nat
        /\ \A x \in SlotLinesTo(n, slot) : x < i
        /\ SlotLinesTo(n + 1, slot) =
             IF IsSlotLine(i) /\ SlotNumber(text[i].key) = slot
             THEN SlotLinesTo(n, slot) \cup {i} ELSE SlotLinesTo(n, slot)
    BY SlotLinesGrow
  <1> QED
    BY <1>1 DEF PartGrows, PartLinesTo, IsPartLine

\* What a slot that waits holds, one kept line on.
LEMMA HoldsPartsGrow ==
  ASSUME ReaderInv, NEW n \in Nat, n < Len(ps.lines), NEW i, i = ps.lines[n + 1],
         NEW slot, NEW parts, HoldsParts(n, slot, parts)
  PROVE  /\ ~(IsSlotLine(i) /\ SlotNumber(text[i].key) = slot) => HoldsParts(n + 1, slot, parts)
         /\ IsSlotLine(i) /\ SlotNumber(text[i].key) = slot /\ text[i].key.stem \in PartNames =>
              HoldsParts(n + 1, slot, Put(parts, text[i].key.stem, i))
  <1>1. /\ i \in Nat
        /\ \A p : /\ PartLinesTo(n, slot, p) \in SUBSET Nat
                  /\ \A x \in PartLinesTo(n, slot, p) : x < i
                  /\ IsPartLine(i, slot, p) =>
                       PartLinesTo(n + 1, slot, p) = PartLinesTo(n, slot, p) \cup {i}
                  /\ ~IsPartLine(i, slot, p) => PartLinesTo(n + 1, slot, p) = PartLinesTo(n, slot, p)
    <2>1. i \in Nat
      BY SlotLinesGrow
    <2>2. \A p : PartGrows(n, i, slot, p)
      BY PartLinesGrow
    <2> QED
      BY <2>1, <2>2 DEF PartGrows
  <1>2. ASSUME ~(IsSlotLine(i) /\ SlotNumber(text[i].key) = slot)
        PROVE  HoldsParts(n + 1, slot, parts)
    BY <1>1, <1>2 DEF HoldsParts, IsPartLine
  <1>3. ASSUME IsSlotLine(i), SlotNumber(text[i].key) = slot, text[i].key.stem \in PartNames
        PROVE  HoldsParts(n + 1, slot, Put(parts, text[i].key.stem, i))
    <2>1. PICK stem \in PartNames : stem = text[i].key.stem
      BY <1>3
    <2>2. PICK new : new = Put(parts, stem, i)
      OBVIOUS
    <2>3. DOMAIN new = DOMAIN parts \cup {stem} /\ new[stem] = i
          /\ \A p \in DOMAIN parts : p /= stem => new[p] = parts[p]
      BY <2>2 DEF Put
    <2>4. /\ PartLinesTo(n + 1, slot, stem) = PartLinesTo(n, slot, stem) \cup {i}
          /\ \A p : p /= stem => PartLinesTo(n + 1, slot, p) = PartLinesTo(n, slot, p)
      BY <1>1, <1>3, <2>1 DEF IsPartLine
    <2>5. LastOf(PartLinesTo(n + 1, slot, stem)) = i
      <3>1. PICK S \in SUBSET Nat : S = PartLinesTo(n, slot, stem)
        BY <1>1
      <3>2. LastOf(S \cup {i}) = i
        BY <1>1, <3>1, LaterLine
      <3> QED
        BY <2>4, <3>1, <3>2
    <2>6. DOMAIN new = {p \in PartNames : PartLinesTo(n + 1, slot, p) /= {}}
      BY <2>3, <2>4 DEF HoldsParts
    <2>7. \A p \in DOMAIN new : new[p] = LastOf(PartLinesTo(n + 1, slot, p))
      BY <2>3, <2>4, <2>5 DEF HoldsParts
    <2>8. HoldsParts(n + 1, slot, new)
      BY <2>6, <2>7 DEF HoldsParts
    <2> QED
      BY <2>1, <2>2, <2>8
  <1> QED
    BY <1>2, <1>3

\* The first part of a slot.
LEMMA FirstPart ==
  ASSUME ReaderInv, NEW n \in Nat, n < Len(ps.lines), NEW i, i = ps.lines[n + 1],
         IsSlotLine(i), text[i].key.stem \in PartNames,
         NEW slot, slot = SlotNumber(text[i].key), SlotLinesTo(n, slot) = {}
  PROVE  HoldsParts(n + 1, slot, Put(Nothing, text[i].key.stem, i))
  <1>1. \A p : PartLinesTo(n, slot, p) = {}
    BY DEF PartLinesTo
  <1>2. DOMAIN Nothing = {}
    BY DEF Nothing
  <1>3. HoldsParts(n, slot, Nothing)
    BY <1>1, <1>2 DEF HoldsParts
  <1> QED
    BY <1>3, HoldsPartsGrow

NoneDone(n, queue) == \A slot : SlotLinesTo(n, slot) /= {} => PendingIn(queue, slot)
\* Nothing is through while a line of the file is left.
LEMMA BeforeTheLast ==
  ASSUME NEW n \in Nat, NEW queue, NEW shown
  PROVE  /\ n < Len(ps.lines) /\ ShownAt(n, queue, shown) => NoneDone(n, queue)
         /\ NoneDone(n, queue) => ShownAt(n, queue, shown)
  <1>1. NoneDone(n, queue) <=> \A slot : ~Done(n, queue, slot)
    BY DEF NoneDone, Done
  <1>2. ASSUME n < Len(ps.lines), ShownAt(n, queue, shown), NEW slot PROVE ~Done(n, queue, slot)
    BY <1>2 DEF ShownAt
  <1>3. NoneDone(n, queue) => ShownAt(n, queue, shown)
    BY <1>1 DEF ShownAt, LastDone
  <1> QED
    BY <1>1, <1>2, <1>3

\* The keys of the lines of a slot.
LEMMA SlotLineHasPart == ASSUME NEW i, IsSlotLine(i) PROVE text[i].key.stem \in PartNames
  <1>1. text[i].key.stem \in {SlotRoles[r] : r \in DOMAIN SlotRoles}
    BY Zenon DEF IsSlotLine, IsSlotPart, Is
  <1>2. {SlotRoles[r] : r \in DOMAIN SlotRoles} = PartNames
    BY DEF SlotRoles, PartNames
  <1> QED
    BY <1>1, <1>2

\* A line of no slot leaves all of them as they were.
LEMMA OtherLineKeepsSlots ==
  ASSUME ReaderInv, NEW n \in Nat, n < Len(ps.lines), NEW i, i = ps.lines[n + 1],
         ~IsSlotLine(i), NEW queue, SlotsAt(n, queue), NEW shown, NEW after,
         ShownAt(n, queue, shown), NEW m, m = n + 1
  PROVE  SlotsAt(m, queue) /\ ShownAt(m, queue, after)
  <1>1. \A slot : SlotLinesTo(m, slot) = SlotLinesTo(n, slot)
    BY SlotLinesGrow
  <1>2. \A slot : BeganTo(m, slot) = BeganTo(n, slot)
    BY <1>1 DEF BeganTo
  <1>3. \A slot, parts : HoldsParts(n, slot, parts) => HoldsParts(m, slot, parts)
    BY HoldsPartsGrow
  <1>4. SlotsAt(m, queue)
    BY <1>1, <1>2, <1>3 DEF SlotsAt
  <1>5. NoneDone(n, queue) /\ m \in Nat
    BY BeforeTheLast
  <1>6. NoneDone(m, queue)
    BY <1>1, <1>5 DEF NoneDone
  <1> QED
    BY <1>4, <1>5, <1>6, BeforeTheLast

\* What a part of a slot makes of those that wait.
NextSlots(queue, slot, stem, i) ==
  IF {j \in DOMAIN queue : queue[j].slot = slot} = {}
  THEN Append(queue, [slot |-> slot, parts |-> Put(Nothing, stem, i)])
  ELSE [j \in DOMAIN queue |->
          IF j \in {k \in DOMAIN queue : queue[k].slot = slot}
          THEN [queue[j] EXCEPT !.parts = Put(@, stem, i)]
          ELSE queue[j]]

\* What the line does to the lines of each slot, and to what the slots hold.
LinesStep(n, m, slot, i) ==
  /\ SlotLinesTo(m, slot) /= {}
  /\ SlotLinesTo(n, slot) = {} => BeganTo(m, slot) = i
  /\ \A s : s /= slot => SlotLinesTo(m, s) = SlotLinesTo(n, s)
  /\ \A s : SlotLinesTo(n, s) /= {} => BeganTo(m, s) = BeganTo(n, s) /\ BeganTo(n, s) < i
PartsStep(n, m, slot, stem, i) ==
  /\ \A s, parts : s /= slot /\ HoldsParts(n, s, parts) => HoldsParts(m, s, parts)
  /\ \A parts : HoldsParts(n, slot, parts) => HoldsParts(m, slot, Put(parts, stem, i))
  /\ SlotLinesTo(n, slot) = {} => HoldsParts(m, slot, Put(Nothing, stem, i))
LEMMA PartSteps ==
  ASSUME ReaderInv, NEW n \in Nat, n < Len(ps.lines), NEW i, i = ps.lines[n + 1],
         IsSlotLine(i), NEW m, m = n + 1,
         NEW stem, stem = text[i].key.stem, NEW slot, slot = SlotNumber(text[i].key)
  PROVE  LinesStep(n, m, slot, i) /\ PartsStep(n, m, slot, stem, i)
  <1>1. /\ i \in Nat /\ m \in Nat /\ stem \in PartNames
        /\ \A s : SlotLinesTo(n, s) \in SUBSET Nat /\ \A x \in SlotLinesTo(n, s) : x < i
        /\ SlotLinesTo(m, slot) = SlotLinesTo(n, slot) \cup {i}
        /\ \A s : s /= slot => SlotLinesTo(m, s) = SlotLinesTo(n, s)
    <2>1. i \in Nat /\ m \in Nat /\ stem \in PartNames
      BY SlotLinesGrow, SlotLineHasPart
    <2>2. \A s : SlotLinesTo(n, s) \in SUBSET Nat /\ \A x \in SlotLinesTo(n, s) : x < i
      BY SlotLinesGrow
    <2>3. \A s : SlotLinesTo(m, s) = IF s = slot THEN SlotLinesTo(n, s) \cup {i}
                                     ELSE SlotLinesTo(n, s)
      <3> TAKE s
      <3>1. SlotLinesTo(n + 1, s) =
              IF IsSlotLine(i) /\ SlotNumber(text[i].key) = s
              THEN SlotLinesTo(n, s) \cup {i} ELSE SlotLinesTo(n, s)
        BY SlotLinesGrow
      <3> QED
        BY <3>1
    <2> QED
      BY <2>1, <2>2, <2>3
  <1>2. \A s : SlotLinesTo(n, s) /= {} =>
          BeganTo(m, s) = BeganTo(n, s) /\ BeganTo(n, s) \in Nat /\ BeganTo(n, s) < i
    <2> TAKE s
    <2> SUFFICES ASSUME SlotLinesTo(n, s) /= {}
                 PROVE  BeganTo(m, s) = BeganTo(n, s) /\ BeganTo(n, s) \in Nat /\ BeganTo(n, s) < i
      OBVIOUS
    <2>1. PICK S \in SUBSET Nat : S = SlotLinesTo(n, s)
      BY <1>1
    <2>2. FirstOf(S) \in S /\ \A x \in S : x < i
      BY <1>1, <2>1, FirstOfLines
    <2>3. S /= {} => FirstOf(S \cup {i}) = FirstOf(S)
      BY <1>1, <2>2, LaterLine
    <2>4. SlotLinesTo(m, s) = S \/ SlotLinesTo(m, s) = S \cup {i}
      BY <1>1, <2>1
    <2> QED
      BY <2>1, <2>2, <2>3, <2>4 DEF BeganTo
  <1>3. /\ \A s, parts : s /= slot /\ HoldsParts(n, s, parts) => HoldsParts(m, s, parts)
        /\ \A parts : HoldsParts(n, slot, parts) => HoldsParts(m, slot, Put(parts, stem, i))
    BY <1>1, HoldsPartsGrow
  <1>4. SlotLinesTo(n, slot) = {} =>
          BeganTo(m, slot) = i /\ HoldsParts(m, slot, Put(Nothing, stem, i))
    <2> SUFFICES ASSUME SlotLinesTo(n, slot) = {}
                 PROVE  BeganTo(m, slot) = i /\ HoldsParts(m, slot, Put(Nothing, stem, i))
      OBVIOUS
    <2>1. {} \in SUBSET Nat /\ SlotLinesTo(m, slot) = {} \cup {i}
      BY <1>1
    <2>2. FirstOf({} \cup {i}) = i
      BY <1>1, LaterLine
    <2>3. HoldsParts(m, slot, Put(Nothing, stem, i))
      BY <1>1, FirstPart
    <2> QED
      BY <2>1, <2>2, <2>3 DEF BeganTo
  <1>5. LinesStep(n, m, slot, i)
    BY <1>1, <1>2, <1>4 DEF LinesStep
  <1>6. PartsStep(n, m, slot, stem, i)
    BY <1>3, <1>4 DEF PartsStep
  <1> QED
    BY <1>5, <1>6

\* The next part of a slot, the first one or not.
LEMMA PartKeepsSlots ==
  ASSUME NEW n, NEW m, NEW stem, NEW slot, NEW i,
         LinesStep(n, m, slot, i), PartsStep(n, m, slot, stem, i),
         NEW queue, SlotsAt(n, queue), NoneDone(n, queue),
         NEW new, new = NextSlots(queue, slot, stem, i)
  PROVE  SlotsAt(m, new) /\ NoneDone(m, new)
  <1>1. /\ SlotLinesTo(m, slot) /= {}
        /\ SlotLinesTo(n, slot) = {} => BeganTo(m, slot) = i
        /\ \A s : s /= slot => SlotLinesTo(m, s) = SlotLinesTo(n, s)
    BY DEF LinesStep
  <1>2. \A s : SlotLinesTo(n, s) /= {} => BeganTo(m, s) = BeganTo(n, s) /\ BeganTo(n, s) < i
    BY DEF LinesStep
  <1>3. /\ \A s, parts : s /= slot /\ HoldsParts(n, s, parts) => HoldsParts(m, s, parts)
        /\ \A parts : HoldsParts(n, slot, parts) => HoldsParts(m, slot, Put(parts, stem, i))
        /\ SlotLinesTo(n, slot) = {} => HoldsParts(m, slot, Put(Nothing, stem, i))
    BY DEF PartsStep
  <1>4. \A j \in DOMAIN queue : /\ SlotLinesTo(n, queue[j].slot) /= {}
                                /\ HoldsParts(n, queue[j].slot, queue[j].parts)
    BY DEF SlotsAt
  <1>7. \A j, k \in DOMAIN queue :
          j < k => BeganTo(n, queue[j].slot) < BeganTo(n, queue[k].slot)
    BY DEF SlotsAt
  <1>8. PICK S : queue \in Seq(S)
    BY DEF SlotsAt
  <1>10. \A j \in DOMAIN queue : queue[j] = [slot |-> queue[j].slot, parts |-> queue[j].parts]
    BY DEF SlotsAt
  <1>9. \A s : SlotLinesTo(n, s) /= {} => \E j \in DOMAIN queue : queue[j].slot = s
    BY DEF NoneDone, PendingIn
  <1>5. CASE {j \in DOMAIN queue : queue[j].slot = slot} = {}
    <2>1. PICK r : r = [slot |-> slot, parts |-> Put(Nothing, stem, i)]
      OBVIOUS
    <2>2. PICK N \in Nat : /\ DOMAIN queue = 1..N /\ DOMAIN new = 1..(N + 1)
                           /\ new[N + 1] = r /\ \A j \in 1..N : new[j] = queue[j]
      <3>1. new = Append(queue, r)
        BY <1>5, <2>1 DEF NextSlots
      <3> QED
        BY <1>8, <3>1
    <2>3. SlotLinesTo(n, slot) = {}
      BY <1>5, <1>9
    <2>4. r.slot = slot /\ HoldsParts(m, slot, r.parts)
      BY <1>3, <2>1, <2>3
    <2>5. BeganTo(m, slot) = i
      BY <1>1, <2>3
    <2>6. \A j \in 1..N : /\ new[j].slot /= slot /\ SlotLinesTo(m, new[j].slot) /= {}
                          /\ HoldsParts(m, new[j].slot, new[j].parts)
                          /\ BeganTo(m, new[j].slot) < i
      <3> TAKE j \in 1..N
      <3>1. new[j] = queue[j] /\ j \in DOMAIN queue /\ queue[j].slot /= slot
        BY <1>5, <2>2
      <3> QED
        BY <1>1, <1>2, <1>3, <1>4, <3>1
    <2>7. \A j, k \in 1..N : j < k => BeganTo(m, new[j].slot) < BeganTo(m, new[k].slot)
      <3> TAKE j, k \in 1..N
      <3>1. /\ new[j] = queue[j] /\ j \in DOMAIN queue
            /\ new[k] = queue[k] /\ k \in DOMAIN queue
        BY <2>2
      <3> QED
        BY <1>2, <1>4, <1>7, <3>1
    <2>10. \E T : new \in Seq(T)
      <3>1. PICK T : T = S \cup {r}
        OBVIOUS
      <3>2. \A j \in 1..(N + 1) : new[j] \in T
        BY <1>8, <2>2, <3>1
      <3>3. queue \in Seq(T) /\ r \in T
        BY <1>8, <3>1
      <3>4. new = Append(queue, r)
        BY <1>5, <2>1 DEF NextSlots
      <3>5. new \in Seq(T)
        BY <3>3, <3>4
      <3> QED
        BY <3>5
    <2>11. \A j \in 1..(N + 1) : new[j] = [slot |-> new[j].slot, parts |-> new[j].parts]
      BY <1>10, <2>1, <2>2
    <2>8. SlotsAt(m, new)
      <3>1. \A j \in DOMAIN new : j \in 1..N \/ j = N + 1
        BY <2>2
      <3>2. \A j \in DOMAIN new : /\ SlotLinesTo(m, new[j].slot) /= {}
                                  /\ HoldsParts(m, new[j].slot, new[j].parts)
        BY <1>1, <2>2, <2>4, <2>6, <3>1
      <3>3. \A j, k \in DOMAIN new : j < k => BeganTo(m, new[j].slot) < BeganTo(m, new[k].slot)
        <4> TAKE j, k \in DOMAIN new
        <4> SUFFICES ASSUME j < k
                     PROVE  BeganTo(m, new[j].slot) < BeganTo(m, new[k].slot)
          OBVIOUS
        <4>1. j \in 1..N /\ (k \in 1..N \/ k = N + 1)
          BY <2>2
        <4>2. CASE k \in 1..N
          BY <2>7, <4>1, <4>2
        <4>3. CASE k = N + 1
          <5>1. BeganTo(m, new[j].slot) < i
            BY <2>6, <4>1
          <5>2. new[k].slot = slot
            BY <2>2, <2>4, <4>3
          <5> QED
            BY <2>5, <5>1, <5>2
        <4> QED
          BY <4>1, <4>2, <4>3
      <3> QED
        <4>1. \A j \in DOMAIN new : new[j] = [slot |-> new[j].slot, parts |-> new[j].parts]
          BY <2>2, <2>11
        <4> QED
          BY <2>10, <3>2, <3>3, <4>1 DEF SlotsAt
    <2>9. NoneDone(m, new)
      <3> SUFFICES ASSUME NEW s, SlotLinesTo(m, s) /= {} PROVE PendingIn(new, s)
        BY DEF NoneDone
      <3>1. CASE s = slot
        BY <2>2, <2>4, <3>1 DEF PendingIn
      <3>2. CASE s /= slot
        <4>1. PICK j \in 1..N : queue[j].slot = s
          BY <1>1, <1>9, <2>2, <3>2
        <4> QED
          BY <2>2, <4>1 DEF PendingIn
      <3> QED
        BY <3>1, <3>2
    <2> QED
      BY <2>8, <2>9
  <1>6. CASE {j \in DOMAIN queue : queue[j].slot = slot} /= {}
    <2>1. /\ DOMAIN new = DOMAIN queue
          /\ \A j \in DOMAIN queue :
               new[j] = IF queue[j].slot = slot THEN [queue[j] EXCEPT !.parts = Put(@, stem, i)]
                        ELSE queue[j]
      BY <1>6 DEF NextSlots
    <2>6. \A j \in DOMAIN queue :
            queue[j].slot = slot =>
              new[j] = [slot |-> queue[j].slot, parts |-> Put(queue[j].parts, stem, i)]
      BY <1>10, <2>1
    <2>7. \A j \in DOMAIN queue : new[j] = [slot |-> new[j].slot, parts |-> new[j].parts]
      BY <1>10, <2>1, <2>6
    <2>2. \A j \in DOMAIN queue :
            /\ new[j].slot = queue[j].slot
            /\ HoldsParts(m, new[j].slot, new[j].parts)
            /\ SlotLinesTo(m, new[j].slot) /= {}
            /\ BeganTo(m, new[j].slot) = BeganTo(n, queue[j].slot)
      <3> TAKE j \in DOMAIN queue
      <3>1. CASE queue[j].slot = slot
        <4>1. new[j].slot = slot /\ new[j].parts = Put(queue[j].parts, stem, i)
          <5>1. PICK parts : parts = Put(queue[j].parts, stem, i)
            OBVIOUS
          <5>2. new[j] = [slot |-> slot, parts |-> parts]
            BY <2>6, <3>1, <5>1
          <5> QED
            BY <5>1, <5>2
        <4>2. SlotLinesTo(n, slot) /= {} /\ HoldsParts(n, slot, queue[j].parts)
          BY <1>4, <3>1
        <4>3. HoldsParts(m, slot, new[j].parts)
          BY <1>3, <4>1, <4>2
        <4>4. SlotLinesTo(m, slot) /= {} /\ BeganTo(m, slot) = BeganTo(n, slot)
          BY <1>1, <1>2, <4>2
        <4> QED
          BY <3>1, <4>1, <4>3, <4>4
      <3>2. CASE queue[j].slot /= slot
        BY <1>1, <1>2, <1>3, <1>4, <2>1, <3>2
      <3> QED
        BY <3>1, <3>2
    <2>3. \E T : new \in Seq(T)
      <3>1. PICK T : T = {new[j] : j \in DOMAIN queue}
        OBVIOUS
      <3>2. PICK N \in Nat : DOMAIN queue = 1..N
        BY <1>8
      <3>3. new = [j \in 1..N |-> new[j]]
        BY <1>6, <3>2 DEF NextSlots
      <3>4. \A j \in 1..N : new[j] \in T
        BY <3>1, <3>2
      <3>5. new \in [1..N -> T]
        BY <3>3, <3>4
      <3>6. new \in Seq(T)
        BY <3>2, <3>5
      <3> QED
        BY <3>6
    <2>4. SlotsAt(m, new)
      BY <1>7, <2>1, <2>2, <2>3, <2>7 DEF SlotsAt
    <2>5. NoneDone(m, new)
      <3> SUFFICES ASSUME NEW s, SlotLinesTo(m, s) /= {} PROVE PendingIn(new, s)
        BY DEF NoneDone
      <3>1. \E j \in DOMAIN queue : queue[j].slot = s
        <4>1. CASE s = slot
          BY <1>6, <4>1
        <4>2. CASE s /= slot
          BY <1>1, <1>9, <4>2
        <4> QED
          BY <4>1, <4>2
      <3> QED
        BY <2>1, <2>2, <3>1 DEF PendingIn
    <2> QED
      BY <2>4, <2>5
  <1> QED
    BY <1>5, <1>6

\* The lines of a file are numbered.
LEMMA BeganIsLine ==
  ASSUME ReaderInv, NEW n \in Nat, n <= Len(ps.lines), NEW slot, SlotLinesTo(n, slot) /= {}
  PROVE  BeganTo(n, slot) \in Nat
  <1>1. ps.lines \in Seq(1..Len(text)) /\ text \in Seq(AllTexts)
    BY DEF ReaderInv, ReaderType
  <1>2. \A k \in 1..n : ps.lines[k] \in Nat
    BY <1>1
  <1>3. SlotLinesTo(n, slot) \in SUBSET Nat
    BY <1>2 DEF SlotLinesTo
  <1>4. PICK S \in SUBSET Nat : S = SlotLinesTo(n, slot)
    BY <1>3
  <1>5. FirstOf(S) \in Nat
    BY <1>4, FirstOfLines
  <1> QED
    BY <1>4, <1>5 DEF BeganTo

\* What the slot at the head makes of the variables.
AfterSlot(shown, parts) ==
  LET bit == text[parts["SITM"]].value.bit
  IN  IF "SITM" \notin DOMAIN parts THEN shown
      ELSE IF bit = NoKey THEN shown
      ELSE Put(shown, bit, [kind |-> "ser_item", fields |-> SlotFields(parts)])

\* A slot records the word bit that its variable is made for, and no other
\* variable changes.
LEMMA SlotShows ==
  ASSUME NEW n, NEW slot, NEW parts, HoldsParts(n, slot, parts), NEW shown, NEW bit \in Key
  PROVE  /\ RecordsTo(n, slot, bit) => Shows(n, AfterSlot(shown, parts), bit, slot)
         /\ ~RecordsTo(n, slot, bit) =>
              \A s : Shows(n, shown, bit, s) => Shows(n, AfterSlot(shown, parts), bit, s)
  <1>1. /\ DOMAIN parts = {p \in PartNames : PartLinesTo(n, slot, p) /= {}}
        /\ \A p \in DOMAIN parts : parts[p] = LastOf(PartLinesTo(n, slot, p))
        /\ "SITM" \in PartNames
    BY DEF HoldsParts, PartNames
  <1>2. PICK after : after = AfterSlot(shown, parts)
    OBVIOUS
  <1>3. PICK b : b = text[parts["SITM"]].value.bit
    OBVIOUS
  <1>4. PICK v : v = [kind |-> "ser_item", fields |-> SlotFields(parts)]
    OBVIOUS
  <1>5. v.kind = "ser_item" /\ v.fields = SlotFields(parts)
    BY <1>4
  <1>6. after = IF "SITM" \notin DOMAIN parts THEN shown
                ELSE IF b = NoKey THEN shown ELSE Put(shown, b, v)
    BY <1>2, <1>3, <1>4 DEF AfterSlot
  <1>7. RecordsTo(n, slot, bit) <=> "SITM" \in DOMAIN parts /\ b = bit
    BY <1>1, <1>3 DEF RecordsTo
  <1>8. bit /= NoKey
    BY SettingsAssumption
  <1>9. ASSUME RecordsTo(n, slot, bit) PROVE Shows(n, after, bit, slot)
    <2>1. "SITM" \in DOMAIN parts /\ after = Put(shown, bit, v)
      BY <1>6, <1>7, <1>8, <1>9
    <2>2. bit \in DOMAIN after /\ after[bit] = v
      BY <2>1 DEF Put
    <2>3. {w.line : w \in Values(v.fields)} = {parts[p] : p \in DOMAIN parts}
      BY <1>1, <1>5, <2>1, SlotFieldsAre
    <2>4. {parts[p] : p \in DOMAIN parts} = LastLinesTo(n, slot)
      BY <1>1 DEF LastLinesTo
    <2> QED
      BY <1>5, <2>2, <2>3, <2>4 DEF Shows
  <1>10. ASSUME ~RecordsTo(n, slot, bit), NEW s, Shows(n, shown, bit, s)
         PROVE  Shows(n, after, bit, s)
    <2>1. after = shown \/ (b /= bit /\ after = Put(shown, b, v))
      BY <1>6, <1>7, <1>10
    <2>2. bit \in DOMAIN shown
      BY <1>10 DEF Shows
    <2>3. bit \in DOMAIN after /\ after[bit] = shown[bit]
      BY <2>1, <2>2 DEF Put
    <2> QED
      BY <1>10, <2>3 DEF Shows
  <1> QED
    BY <1>2, <1>9, <1>10

\* The slot at the head began before those behind it, and after those that are
\* through: what it records, it shows.
LEMMA HeadKeepsSlots ==
  ASSUME NEW n, n = Len(ps.lines), NEW queue, queue /= <<>>, SlotsAt(n, queue),
         \A slot : SlotLinesTo(n, slot) /= {} => BeganTo(n, slot) \in Nat,
         NEW shown, ShownAt(n, queue, shown), NEW rest, rest = Tail(queue),
         NEW after, after = AfterSlot(shown, Head(queue).parts)
  PROVE  SlotsAt(n, rest) /\ ShownAt(n, rest, after)
  <1>1. PICK S : queue \in Seq(S)
    BY DEF SlotsAt
  <1>2. PICK N \in Nat : /\ DOMAIN queue = 1..(N + 1) /\ DOMAIN rest = 1..N
                         /\ \A j \in 1..N : rest[j] = queue[j + 1]
    <2>1. Len(queue) \in Nat \ {0} /\ DOMAIN queue = 1..Len(queue)
      BY <1>1
    <2>2. PICK N \in Nat : Len(queue) = N + 1
      <3>1. PICK L \in Nat \ {0} : L = Len(queue)
        BY <2>1
      <3>2. L - 1 \in Nat /\ L = (L - 1) + 1
        OBVIOUS
      <3> QED
        BY <3>1, <3>2
    <2>3. Len(Tail(queue)) = N /\ DOMAIN Tail(queue) = 1..N
      BY <1>1, <2>2
    <2>4. \A j \in 1..N : Tail(queue)[j] = queue[j + 1]
      BY <1>1, <2>2
    <2> QED
      BY <2>1, <2>2, <2>3, <2>4
  <1>3. PICK slot, parts : slot = queue[1].slot /\ parts = queue[1].parts
    OBVIOUS
  <1>4. after = AfterSlot(shown, parts)
    BY <1>1, <1>3
  <1>5. /\ SlotLinesTo(n, slot) /= {} /\ HoldsParts(n, slot, parts)
        /\ \A j \in 1..N : BeganTo(n, slot) < BeganTo(n, rest[j].slot)
    <2>1. 1 \in DOMAIN queue
      BY <1>2
    <2>2. \A j \in 1..N : j + 1 \in DOMAIN queue /\ 1 < j + 1
      BY <1>2
    <2> QED
      BY <1>2, <1>3, <2>1, <2>2 DEF SlotsAt
  <1>6. SlotsAt(n, rest)
    <2>1. rest \in Seq(S)
      BY <1>1
    <2>2. \A j \in 1..N : j + 1 \in DOMAIN queue
      BY <1>2
    <2>3. \A j, k \in 1..N : j < k => j + 1 < k + 1
      OBVIOUS
    <2>4. \A j \in 1..N : /\ rest[j] = [slot |-> rest[j].slot, parts |-> rest[j].parts]
                          /\ SlotLinesTo(n, rest[j].slot) /= {}
                          /\ HoldsParts(n, rest[j].slot, rest[j].parts)
      BY <1>2, <2>2 DEF SlotsAt
    <2>5. \A j, k \in 1..N : j < k => BeganTo(n, rest[j].slot) < BeganTo(n, rest[k].slot)
      BY <1>2, <2>2, <2>3 DEF SlotsAt
    <2> QED
      BY <1>2, <2>1, <2>4, <2>5 DEF SlotsAt
  \* Only the slot of the head is through that was not.
  <1>7. \A s : Done(n, rest, s) <=> Done(n, queue, s) \/ s = slot
    <2>1. \A s : PendingIn(queue, s) <=> PendingIn(rest, s) \/ s = slot
      <3>1. \A j \in 1..(N + 1) : j = 1 \/ (j - 1 \in 1..N /\ j = (j - 1) + 1)
        OBVIOUS
      <3>2. \A j \in 1..N : j + 1 \in 1..(N + 1)
        OBVIOUS
      <3>3. 1 \in 1..(N + 1)
        OBVIOUS
      <3> TAKE s
      <3>4. ASSUME PendingIn(queue, s) PROVE PendingIn(rest, s) \/ s = slot
        <4>1. PICK j \in 1..(N + 1) : queue[j].slot = s
          BY <1>2, <3>4 DEF PendingIn
        <4>2. CASE j = 1
          BY <1>3, <4>1, <4>2
        <4>3. CASE j /= 1
          <5>1. PICK k \in 1..N : j = k + 1
            BY <3>1, <4>3
          <5>2. k \in DOMAIN rest /\ rest[k].slot = s
            BY <1>2, <4>1, <5>1
          <5> QED
            BY <5>2 DEF PendingIn
        <4> QED
          BY <4>2, <4>3
      <3>5. ASSUME PendingIn(rest, s) PROVE PendingIn(queue, s)
        <4>1. PICK j \in 1..N : rest[j].slot = s
          BY <1>2, <3>5 DEF PendingIn
        <4>2. j + 1 \in DOMAIN queue /\ queue[j + 1].slot = s
          BY <1>2, <3>2, <4>1
        <4> QED
          BY <4>2 DEF PendingIn
      <3>6. PendingIn(queue, slot)
        BY <1>2, <1>3, <3>3 DEF PendingIn
      <3> QED
        BY <3>4, <3>5, <3>6
    <2>2. ~PendingIn(rest, slot)
      <3> SUFFICES ASSUME NEW j \in 1..N, rest[j].slot = slot PROVE FALSE
        BY <1>2 DEF PendingIn
      <3>1. BeganTo(n, slot) < BeganTo(n, slot) /\ BeganTo(n, slot) \in Nat
        BY <1>5
      <3> QED
        BY <3>1
    <2> QED
      BY <1>5, <2>1, <2>2 DEF Done
  <1>8. \A s : Done(n, queue, s) => BeganTo(n, s) < BeganTo(n, slot) /\ BeganTo(n, s) \in Nat
    <2>1. 1 \in DOMAIN queue
      BY <1>2
    <2> QED
      BY <1>3, <2>1 DEF ShownAt, Done
  <1>9. ASSUME NEW s, Done(n, rest, s)
        PROVE  \A j \in DOMAIN rest : BeganTo(n, s) < BeganTo(n, rest[j].slot)
    <2> TAKE j \in DOMAIN rest
    <2>1. j + 1 \in DOMAIN queue /\ rest[j] = queue[j + 1]
      BY <1>2
    <2>2. CASE Done(n, queue, s)
      BY <2>1, <2>2 DEF ShownAt
    <2>3. CASE s = slot
      BY <1>2, <1>5, <2>3
    <2> QED
      BY <1>7, <1>9, <2>2, <2>3
  <1>10. ASSUME NEW bit \in Key, NEW s, LastDone(n, rest, bit, s)
         PROVE  Shows(n, after, bit, s)
    <2>1. CASE s = slot
      BY <1>4, <1>5, <1>10, <2>1, SlotShows DEF LastDone
    <2>2. CASE s /= slot
      <3>1. Done(n, queue, s) /\ RecordsTo(n, s, bit)
        BY <1>7, <1>10, <2>2 DEF LastDone
      <3>2. ~RecordsTo(n, slot, bit)
        <4>1. RecordsTo(n, slot, bit) => BeganTo(n, slot) <= BeganTo(n, s)
          BY <1>7, <1>10 DEF LastDone
        <4>2. BeganTo(n, slot) \in Nat /\ BeganTo(n, s) \in Nat /\ BeganTo(n, s) < BeganTo(n, slot)
          BY <1>5, <1>8, <3>1
        <4> QED
          BY <4>1, <4>2
      <3>3. LastDone(n, queue, bit, s)
        BY <1>7, <1>10, <3>1 DEF LastDone
      <3>4. Shows(n, shown, bit, s)
        BY <3>3 DEF ShownAt
      <3> QED
        BY <1>4, <1>5, <3>2, <3>4, SlotShows
    <2> QED
      BY <2>1, <2>2
  <1>11. ShownAt(n, rest, after)
    BY <1>9, <1>10 DEF ShownAt
  <1> QED
    BY <1>6, <1>11

LEMMA InitRegroupInv == Init => RegroupInv
  BY DEF Init, RegroupInv

LEMMA NextRegroupInv == ReaderInv /\ FilingInv /\ RegroupInv /\ [Next]_vars => RegroupInv'
  <1> SUFFICES ASSUME ReaderInv, FilingInv, RegroupInv, [Next]_vars PROVE RegroupInv'
    OBVIOUS
  <1>0. ps.lines \in Seq(1..Len(text)) /\ Len(ps.lines) \in Nat
    BY DEF ReaderInv, ReaderType
  \* While a file is read, and once its group is stored, no slot waits.
  <1>1. CASE OpenFile \/ ReadInfoHeader \/ ReadSection \/ ReadInfoPair \/ ReadData \/ SkipLine
    <2>1. phase' = "reading"
      BY <1>1 DEF OpenFile, ReadInfoHeader, ReadSection, ReadInfoPair, ReadData, SkipLine, Read, Reading
    <2> QED
      BY <2>1 DEF RegroupInv
  <1>2. CASE StoreGroup
    BY <1>2 DEF StoreGroup, RegroupInv
  <1>3. CASE EndOfFile
    <2>1. UNCHANGED <<family, at, text, ps>> /\ filed' = 0 /\ slots' = <<>> /\ filed = 0 /\ slots = <<>>
          /\ variables' = variables
      BY <1>3 DEF EndOfFile, FilingInv
    <2>2. \A slot : SlotLinesTo(0, slot) = {}
      BY DEF SlotLinesTo
    <2>3. SlotsAt(0, <<>>)
      <3>1. DOMAIN <<>> = {} /\ \E S : <<>> \in Seq(S)
        OBVIOUS
      <3> QED
        BY <3>1 DEF SlotsAt
    <2>4. ShownAt(0, <<>>, variables)
      BY <2>2, BeforeTheLast DEF NoneDone
    <2>5. SlotsAt(filed, slots)' /\ ShownAt(filed, slots, variables)'
      BY <2>1, <2>3, <2>4, SlotLinesStay
    <2>6. filed' \in Nat /\ filed' <= Len(ps'.lines)
      BY <1>0, <2>1
    <2> QED
      BY <2>5, <2>6 DEF RegroupInv
  <1>4. CASE FileLine \/ BufferSlotPart \/ RegroupSlot
    <2>1. phase = "filing" /\ UNCHANGED <<family, at, text, ps>>
      BY <1>4 DEF FileLine, BufferSlotPart, RegroupSlot
    <2>2. LineByLine' <=> LineByLine
      BY <2>1, EntryStays DEF LineByLine
    <2> SUFFICES ASSUME ~LineByLine PROVE RegroupInv'
      BY <2>2 DEF RegroupInv
    <2>3. /\ filed \in Nat /\ filed <= Len(ps.lines)
          /\ SlotsAt(filed, slots) /\ ShownAt(filed, slots, variables)
      BY <2>1 DEF RegroupInv
    <2>4. ASSUME /\ filed' \in Nat /\ filed' <= Len(ps.lines)
                 /\ SlotsAt(filed', slots') /\ ShownAt(filed', slots', variables')
          PROVE  RegroupInv'
      <3>1. PICK n, queue, shown : n = filed' /\ queue = slots' /\ shown = variables'
        OBVIOUS
      <3>2. SlotsAt(n, queue)' /\ ShownAt(n, queue, shown)'
        BY <2>1, <2>4, <3>1, SlotLinesStay
      <3>3. SlotsAt(filed, slots)' /\ ShownAt(filed, slots, variables)'
        BY <3>1, <3>2
      <3> QED
        BY <2>1, <2>4, <3>3 DEF RegroupInv
    <2>5. PICK n \in Nat : n = filed
      BY <2>3
    <2>6. PICK queue, shown : queue = slots /\ shown = variables
      OBVIOUS
    <2>7. CASE FileLine
      <3>1. /\ n < Len(ps.lines) /\ ~IsSlotLine(NextLine) /\ NextLine = ps.lines[n + 1]
            /\ filed' = n + 1 /\ slots' = queue
        BY <2>5, <2>6, <2>7 DEF FileLine, NextLine
      <3>2. PICK i, m : i = ps.lines[n + 1] /\ m = n + 1
        OBVIOUS
      <3>3. ~IsSlotLine(i)
        BY <3>1, <3>2
      <3>4. SlotsAt(n, queue) /\ ShownAt(n, queue, shown)
        BY <2>3, <2>5, <2>6
      <3>5. SlotsAt(m, queue) /\ ShownAt(m, queue, variables')
        <4>1. PICK after : after = variables'
          OBVIOUS
        <4>2. SlotsAt(m, queue) /\ ShownAt(m, queue, after)
          BY <3>1, <3>2, <3>3, <3>4, OtherLineKeepsSlots
        <4> QED
          BY <4>1, <4>2
      <3>6. m \in Nat /\ m <= Len(ps.lines)
        BY <1>0, <3>1, <3>2
      <3> QED
        BY <2>4, <3>1, <3>2, <3>5, <3>6
    <2>8. CASE BufferSlotPart
      <3>1. PICK i, m : i = ps.lines[n + 1] /\ m = n + 1
        OBVIOUS
      <3>2. PICK stem, slot : stem = text[i].key.stem /\ slot = SlotNumber(text[i].key)
        OBVIOUS
      <3>3. PICK new : new = NextSlots(queue, slot, stem, i)
        OBVIOUS
      <3>4. n < Len(ps.lines) /\ IsSlotLine(i) /\ filed' = m /\ variables' = shown
        BY <2>5, <2>6, <2>8, <3>1 DEF BufferSlotPart, NextLine
      <3>5. slots' = new
        BY <2>5, <2>6, <2>8, <3>1, <3>2, <3>3 DEF BufferSlotPart, NextLine, NextSlots, SlotAt
      <3>6. SlotsAt(n, queue) /\ ShownAt(n, queue, shown)
        BY <2>3, <2>5, <2>6
      <3>7. NoneDone(n, queue)
        BY <3>4, <3>6, BeforeTheLast
      <3>8. LinesStep(n, m, slot, i) /\ PartsStep(n, m, slot, stem, i)
        BY <3>1, <3>2, <3>4, PartSteps
      <3>9. SlotsAt(m, new) /\ NoneDone(m, new)
        BY <3>3, <3>6, <3>7, <3>8, PartKeepsSlots
      <3>10. m \in Nat /\ m <= Len(ps.lines)
        BY <1>0, <3>1, <3>4
      <3>11. ShownAt(m, new, shown)
        BY <3>9, <3>10, BeforeTheLast
      <3> QED
        BY <2>4, <3>4, <3>5, <3>9, <3>10, <3>11
    <2>9. CASE RegroupSlot
      <3>1. n = Len(ps.lines) /\ queue /= <<>> /\ filed' = n /\ slots' = Tail(queue)
        BY <2>5, <2>6, <2>9 DEF RegroupSlot
      <3>2. variables' = AfterSlot(shown, Head(queue).parts)
        BY <2>6, <2>9 DEF RegroupSlot, AfterSlot
      <3>3. SlotsAt(n, queue) /\ ShownAt(n, queue, shown)
        BY <2>3, <2>5, <2>6
      <3>4. \A slot : SlotLinesTo(n, slot) /= {} => BeganTo(n, slot) \in Nat
        BY <2>3, <2>5, BeganIsLine
      <3>5. PICK rest, after : rest = Tail(queue) /\ after = AfterSlot(shown, Head(queue).parts)
        OBVIOUS
      <3>6. SlotsAt(n, rest) /\ ShownAt(n, rest, after)
        BY <3>1, <3>3, <3>4, <3>5, HeadKeepsSlots
      <3> QED
        BY <1>0, <2>4, <3>1, <3>2, <3>5, <3>6
    <2> QED
      BY <1>4, <2>7, <2>8, <2>9
  <1>5. CASE UNCHANGED vars
    <2>1. UNCHANGED <<family, at, text, ps, filed, slots, variables, phase>>
      BY <1>5 DEF vars
    <2>2. LineByLine' <=> LineByLine
      BY <2>1, EntryStays DEF LineByLine
    <2>3. PICK n, queue, shown : n = filed /\ queue = slots /\ shown = variables
      OBVIOUS
    <2>4. /\ SlotsAt(n, queue)' <=> SlotsAt(n, queue)
          /\ ShownAt(n, queue, shown)' <=> ShownAt(n, queue, shown)
      <3>1. UNCHANGED <<family, at, text, ps>>
        BY <2>1
      <3> QED
        BY <3>1, SlotLinesStay
    <2>5. /\ SlotsAt(filed, slots)' <=> SlotsAt(filed, slots)
          /\ ShownAt(filed, slots, variables)' <=> ShownAt(filed, slots, variables)
      <3>1. filed' = n /\ slots' = queue /\ variables' = shown
        BY <2>1, <2>3
      <3>2. SlotsAt(filed, slots)' <=> SlotsAt(filed, slots)
        BY <2>3, <2>4, <3>1
      <3>3. ShownAt(filed, slots, variables)' <=> ShownAt(filed, slots, variables)
        BY <2>3, <2>4, <3>1
      <3> QED
        BY <3>2, <3>3
    <2> QED
      BY <2>1, <2>2, <2>5 DEF RegroupInv
  <1> QED
    BY <1>1, <1>2, <1>3, <1>4, <1>5 DEF Next
\* However the lines of the slots of a 4xx report are mixed, and whatever slots
\* name one word bit, its variable shows the slot of it that began last, with
\* the last line of each part.
THEOREM EachWordBitShowsItsLastSlot == Spec => []OneSlotPerWordBit
  <1>1. ReaderInv /\ RegroupInv => OneSlotPerWordBit
    <2> SUFFICES ASSUME ReaderInv, RegroupInv, phase = "filing", filed = Len(ps.lines),
                        slots = <<>>, IsReport, family = "4xx",
                        NEW bit \in Key, NEW slot \in SlotNumbers, Records(slot, bit),
                        \A other \in SlotNumbers : Records(other, bit) => Began(other) <= Began(slot)
                 PROVE  /\ bit \in DOMAIN variables /\ variables[bit].kind = "ser_item"
                        /\ {variables[bit].fields[j].line : j \in DOMAIN variables[bit].fields} =
                             {LastOf(PartLines(slot, SlotRoles[r])) :
                                r \in {p \in DOMAIN SlotRoles : PartLines(slot, SlotRoles[p]) /= {}}}
      BY DEF OneSlotPerWordBit
    <2>1. PICK n \in Nat : n = Len(ps.lines) /\ n = filed
      BY DEF ReaderInv, ReaderType
    <2>2. ShownAt(n, <<>>, variables)
      BY <2>1 DEF RegroupInv, LineByLine
    <2>3. {ps.lines[k] : k \in DOMAIN ps.lines} = {ps.lines[k] : k \in 1..n}
          /\ \A k \in 1..n : ps.lines[k] \in DOMAIN text
      <3>1. ps.lines \in Seq(1..Len(text)) /\ text \in Seq(AllTexts)
        BY DEF ReaderInv, ReaderType
      <3> QED
        BY <2>1, <3>1
    <2>4. \A s, part : PartLines(s, part) = PartLinesTo(n, s, part)
      BY <2>3 DEF PartLines, PartLinesTo, SlotLinesTo, SlotNumber
    <2>5. \A s, b : Records(s, b) <=> RecordsTo(n, s, b)
      BY <2>4 DEF Records, RecordsTo
    <2>6. {SlotRoles[r] : r \in DOMAIN SlotRoles} = PartNames
      BY DEF SlotRoles, PartNames
    <2>7. \A s : UNION {PartLines(s, SlotRoles[r]) : r \in DOMAIN SlotRoles} = SlotLinesTo(n, s)
      <3> TAKE s
      <3>1. \A i \in SlotLinesTo(n, s) : text[i].key.stem \in PartNames
        BY SlotLineHasPart DEF SlotLinesTo
      <3>2. SlotLinesTo(n, s) = UNION {PartLinesTo(n, s, p) : p \in PartNames}
        BY <3>1 DEF PartLinesTo
      <3> QED
        BY <2>4, <2>6, <3>2
    <2>8. \A s : Began(s) = BeganTo(n, s)
      BY <2>7 DEF Began, BeganTo
    <2>9. \A s : Done(n, <<>>, s) <=> SlotLinesTo(n, s) /= {}
      BY DEF Done, PendingIn
    <2>10. \A s : SlotLinesTo(n, s) /= {} => s \in SlotNumbers
      BY <2>3 DEF SlotLinesTo, SlotNumbers, SlotNumber
    <2>11. LastDone(n, <<>>, bit, slot)
      <3>1. SlotLinesTo(n, slot) /= {}
        BY <2>5 DEF RecordsTo, PartLinesTo
      <3> QED
        BY <2>5, <2>8, <2>9, <2>10, <3>1 DEF LastDone
    <2>12. Shows(n, variables, bit, slot)
      BY <2>2, <2>11 DEF ShownAt
    <2>13. {v.line : v \in Values(variables[bit].fields)} =
             {variables[bit].fields[j].line : j \in DOMAIN variables[bit].fields}
      BY DEF Values
    <2>14. LastLinesTo(n, slot) =
             {LastOf(PartLines(slot, SlotRoles[r])) :
                r \in {p \in DOMAIN SlotRoles : PartLines(slot, SlotRoles[p]) /= {}}}
      BY <2>4, <2>6 DEF LastLinesTo
    <2> QED
      BY <2>12, <2>13, <2>14 DEF Shows
  <1> QED
    BY <1>1, InitReaderInv, NextReaderInv, InitFilingInv, NextFilingInv, InitRegroupInv,
       NextRegroupInv, PTL DEF Spec
-----------------------------------------------------------------------------
(* Kinds and roles, line by line *)

RolesIn(v) == {v.fields[j].role : j \in DOMAIN v.fields}
\* What fits a name depends on the group of the file only.
LEMMA FitsStay ==
  ASSUME UNCHANGED <<family, at>>
  PROVE  \A n, kind, roles : Fits(n, kind, roles)' <=> Fits(n, kind, roles)
  <1>1. PartStems' = PartStems /\ \A n : PartKind(n)' = PartKind(n)
    BY DEF PartStems, PartKind
  <1>2. (IsReport' <=> IsReport) /\ Group' = Group
    BY DEF IsReport, Group
  <1> QED
    BY <1>1, <1>2 DEF Fits

\* Variables that fit their names stay so when one of them is made or changed.
LEMMA OneChangeFits ==
  ASSUME RoleInv, UNCHANGED <<family, at>>, NEW name,
         DOMAIN variables' \subseteq DOMAIN variables \cup {name},
         \A n \in DOMAIN variables : n /= name => variables'[n] = variables[n],
         name \in DOMAIN variables' =>
           Fits(name, variables'[name].kind, RolesIn(variables'[name]))
  PROVE  RoleInv'
  <1>1. \A n : Roles(n) = RolesIn(variables[n]) /\ Roles(n)' = RolesIn(variables'[n])
    BY DEF Roles, RolesIn
  <1>2. \A n \in DOMAIN variables' : Fits(n, variables'[n].kind, RolesIn(variables'[n]))
    BY <1>1 DEF RoleInv
  <1> QED
    BY <1>1, <1>2, FitsStay DEF RoleInv

\* Or when none is.
LEMMA NoChangeFits ==
  ASSUME RoleInv, UNCHANGED <<family, at, variables>>
  PROVE  RoleInv'
  <1>1. \A n : Roles(n)' = Roles(n)
    BY DEF Roles
  <1> QED
    BY <1>1, FitsStay DEF RoleInv

LEMMA FileLineFits ==
  ASSUME ReaderInv, FilingInv, RoleInv, FileLine
  PROVE  RoleInv'
  <1>1. PICK i, e : i = NextLine /\ e = EntryOf(NextLine)
    OBVIOUS
  <1>2. UNCHANGED <<family, at>> /\ variables' = FileUnder(e, i)
    BY <1>1 DEF FileLine
  <1>3. IF IsReport THEN ReportLine(e) ELSE Shaped(e)
    BY <1>1, LineShape DEF ReaderInv, ReaderType
  <1>4. CASE e.name = NoKey
    <2>1. variables' = variables
      BY <1>2, <1>4 DEF FileUnder
    <2> QED
      BY <1>2, <2>1, NoChangeFits
  <1>5. CASE e.name /= NoKey
    <2>1. PICK name : name = e.name
      OBVIOUS
    <2>2. PICK field : field = Field(e, i) /\ field.role = e.role
      <3>1. Field(e, i).role = e.role
        BY DEF Field
      <3> QED
        BY <3>1
    <2>3. CASE name \in DOMAIN variables /\ e.how = "append"
      <3>1. ~IsReport
        BY <1>3, <1>5, <2>3 DEF ReportLine
      <3>2. Sound(name)
        BY <2>3, <3>1 DEF FileLine, FilingInv, Filing, LineByLine
      <3>8. PICK kind, fields :
              /\ variables[name] = [kind |-> kind, fields |-> fields]
              /\ kind = variables[name].kind
              /\ fields = variables[name].fields /\ fields \in Seq(Fields)
        BY <3>2 DEF Sound
      <3>3. variables' = [variables EXCEPT ![name].fields = Append(@, field)]
        BY <1>2, <1>5, <2>1, <2>2, <2>3 DEF FileUnder
      <3>4. DOMAIN variables' = DOMAIN variables
            /\ \A n \in DOMAIN variables : n /= name => variables'[n] = variables[n]
        BY <3>3
      <3>5. variables'[name].kind = variables[name].kind
            /\ variables'[name].fields = Append(fields, field)
        BY <2>3, <3>3, <3>8
      <3>6. RolesIn(variables'[name]) = Roles(name) \cup {e.role}
        <4>1. PICK w : w = Append(fields, field)
          OBVIOUS
        <4>2. PICK L \in Nat : /\ DOMAIN fields = 1..L /\ DOMAIN w = 1..(L + 1)
                               /\ w[L + 1] = field /\ \A j \in 1..L : w[j] = fields[j]
          <5>1. fields \in Seq(Fields \cup {field})
            BY <3>8
          <5>2. PICK L \in Nat : L = Len(fields) /\ DOMAIN fields = 1..L
            BY <3>8
          <5>3. Len(w) = L + 1 /\ w \in Seq(Fields \cup {field})
            BY <4>1, <5>1, <5>2
          <5>4. DOMAIN w = 1..(L + 1)
            BY <5>3
          <5>5. w[L + 1] = field /\ \A j \in 1..L : w[j] = fields[j]
            BY <4>1, <5>1, <5>2
          <5> QED
            BY <5>2, <5>4, <5>5
        <4>3. 1..(L + 1) = (1..L) \cup {L + 1}
          BY <4>2
        <4>4. {w[j].role : j \in 1..(L + 1)} = {fields[j].role : j \in 1..L} \cup {e.role}
          BY <2>2, <4>2, <4>3
        <4> QED
          <5>1. RolesIn(variables'[name]) = {w[j].role : j \in 1..(L + 1)}
            BY <3>5, <4>1, <4>2 DEF RolesIn
          <5>2. Roles(name) = {fields[j].role : j \in 1..L}
            BY <3>8, <4>2 DEF Roles
          <5> QED
            BY <4>4, <5>1, <5>2
      <3>7. Fits(name, variables[name].kind, Roles(name) \cup {e.role})
        BY <1>3, <1>5, <2>1, <2>3, OneMoreFits DEF RoleInv
      <3> QED
        BY <1>2, <3>4, <3>5, <3>6, <3>7, OneChangeFits
    <2>4. CASE name \in DOMAIN variables /\ e.how = "refill"
      <3>1. variables' = [variables EXCEPT ![name].fields = <<field>>]
        BY <1>2, <1>5, <2>1, <2>2, <2>4 DEF FileUnder
      <3>5. IsReport /\ family = "7xx" /\ e.role = "alias"
        BY <1>3, <1>5, <2>4 DEF ReportLine, Shaped, IsPart, IsPlain, IsLeftSide
      <3>7. Sound(name)
        BY <2>4, <3>5 DEF FileLine, FilingInv, Filing, LineByLine
      <3>8. variables[name] = [kind |-> variables[name].kind, fields |-> variables[name].fields]
        BY <3>7 DEF Sound
      <3>2. DOMAIN variables' = DOMAIN variables
            /\ \A n \in DOMAIN variables : n /= name => variables'[n] = variables[n]
        BY <3>1
      <3>3. variables'[name].fields = <<field>>
        BY <2>4, <3>1, <3>8
      <3>4. RolesIn(variables'[name]) = {e.role}
        BY <2>2, <3>3 DEF RolesIn
      <3>6. Fits(name, variables'[name].kind, {e.role})
        BY <3>5 DEF Fits
      <3> QED
        BY <1>2, <3>2, <3>4, <3>6, OneChangeFits
    <2>5. CASE ~(name \in DOMAIN variables /\ e.how \in {"append", "refill"})
      <3>1. PICK v : v = [kind |-> e.kind, fields |-> <<field>>]
        OBVIOUS
      <3>2. variables' = Put(variables, name, v)
        BY <1>2, <1>5, <2>1, <2>2, <2>5, <3>1 DEF FileUnder
      <3>3. DOMAIN variables' = DOMAIN variables \cup {name} /\ variables'[name] = v
            /\ \A n \in DOMAIN variables : n /= name => variables'[n] = variables[n]
        BY <3>2 DEF Put
      <3>4. v.kind = e.kind /\ RolesIn(v) = {e.role}
        BY <2>2, <3>1 DEF RolesIn
      <3>5. Fits(name, e.kind, {e.role})
        BY <1>3, <1>5, <2>1, NewFits
      <3> QED
        BY <1>2, <3>3, <3>4, <3>5, OneChangeFits
    <2> QED
      BY <2>3, <2>4, <2>5
  <1> QED
    BY <1>4, <1>5

LEMMA RegroupSlotFits ==
  ASSUME ReaderInv, FilingInv, RegroupInv, RoleInv, RegroupSlot
  PROVE  RoleInv'
  <1>1. UNCHANGED <<family, at>> /\ phase = "filing" /\ slots /= <<>> /\ IsReport
    BY DEF RegroupSlot, FilingInv, Filing, LineByLine
  <1>2. PICK parts : parts = Head(slots).parts
    OBVIOUS
  <1>3. DOMAIN parts \subseteq PartNames
    <2>1. PICK S : slots \in Seq(S)
      BY <1>1 DEF RegroupSlot, FilingInv, RegroupInv, Filing, SlotsAt
    <2>2. Head(slots) = slots[1] /\ 1 \in DOMAIN slots
      BY <1>1, <2>1
    <2>3. ~LineByLine
      BY <1>1 DEF FilingInv, Filing
    <2>4. HoldsParts(filed, slots[1].slot, slots[1].parts)
      BY <1>1, <2>2, <2>3 DEF RegroupInv, SlotsAt
    <2> QED
      BY <1>2, <2>2, <2>4 DEF HoldsParts
  <1>4. PICK b : b = text[parts["SITM"]].value.bit
    OBVIOUS
  <1>5. PICK v : v = [kind |-> "ser_item", fields |-> SlotFields(parts)]
    OBVIOUS
  <1>6. variables' = variables \/ ("SITM" \in DOMAIN parts /\ variables' = Put(variables, b, v))
    BY <1>2, <1>4, <1>5 DEF RegroupSlot
  <1>7. CASE variables' = variables
    BY <1>1, <1>7, NoChangeFits
  <1>8. CASE "SITM" \in DOMAIN parts /\ variables' = Put(variables, b, v)
    <2>1. DOMAIN variables' = DOMAIN variables \cup {b} /\ variables'[b] = v
          /\ \A n \in DOMAIN variables : n /= b => variables'[n] = variables[n]
      BY <1>8 DEF Put
    <2>2. v.kind = "ser_item" /\ v.fields = SlotFields(parts)
      BY <1>5
    <2>3. \A w \in Values(SlotFields(parts)) : w.role \in RolesOf("ser_item")
      BY <1>3, <1>8, SlotFieldsAre
    <2>4. RolesIn(v) \subseteq RolesOf("ser_item")
      BY <2>2, <2>3 DEF RolesIn, Values
    <2>5. Fits(b, v.kind, RolesIn(v))
      BY <1>1, <2>2, <2>4 DEF Fits
    <2> QED
      BY <1>1, <2>1, <2>5, OneChangeFits
  <1> QED
    BY <1>6, <1>7, <1>8

LEMMA InitRoleInv == Init => RoleInv
  BY DEF Init, RoleInv, Nothing

LEMMA NextRoleInv == ReaderInv /\ FilingInv /\ RegroupInv /\ RoleInv /\ [Next]_vars => RoleInv'
  <1> SUFFICES ASSUME ReaderInv, FilingInv, RegroupInv, RoleInv, [Next]_vars PROVE RoleInv'
    OBVIOUS
  <1>1. CASE OpenFile
    BY <1>1 DEF OpenFile, RoleInv, Nothing
  <1>2. CASE FileLine
    BY <1>2, FileLineFits
  <1>3. CASE RegroupSlot
    BY <1>3, RegroupSlotFits
  <1>4. CASE \/ ReadInfoHeader \/ ReadSection \/ ReadInfoPair \/ ReadData \/ SkipLine
             \/ EndOfFile \/ BufferSlotPart \/ StoreGroup \/ UNCHANGED vars
    <2>1. UNCHANGED <<family, at, variables>>
      BY <1>4 DEF ReadInfoHeader, ReadSection, ReadInfoPair, ReadData, SkipLine, Read,
                  EndOfFile, BufferSlotPart, StoreGroup, vars
    <2> QED
      BY <2>1, NoChangeFits
  <1> QED
    BY <1>1, <1>2, <1>3, <1>4 DEF Next

\* Whatever lines a file mixes under one name, the kind of the variable and the
\* roles of its fields agree as in the table of model.py, but for the keys that
\* are spelled like a variable of parts and the aliases of a 7xx.
THEOREM KindsAgreeWithRoles == Spec => []KindAgreesWithRoles
  <1>1. RoleInv => KindAgreesWithRoles
    <2>1. \A kind \in PlainKinds : kind \notin {"latch", "timer", "counter"}
      BY DEF PlainKinds
    <2> QED
      BY <2>1 DEF RoleInv, Fits, KindAgreesWithRoles
  <1> QED
    BY <1>1, InitReaderInv, NextReaderInv, InitFilingInv, NextFilingInv, InitRegroupInv,
       NextRegroupInv, InitRoleInv, NextRoleInv, PTL DEF Spec
=============================================================================
