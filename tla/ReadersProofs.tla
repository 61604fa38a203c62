--------------------------- MODULE ReadersProofs ---------------------------
(***************************************************************************)
(* Theorems about the pure readers: what each answer has to do with its    *)
(* call, for every call ReadersAssumption admits.  The readers are folds,  *)
(* whose prefixes p[0], p[1], ... NumberLemmas gives: a lemma says what is *)
(* so of every prefix, and a theorem of the last.                          *)
(***************************************************************************)
EXTENDS Readers, NumberLemmas

\* What holds of a call and its answer: the call is one the host makes, and the
\* answer of a call that is done is the reader's.
Reply ==
  /\ Answered("address") => answer = ParseSaddr(call.sa)
  /\ Answered("points") => answer = SelShortAddresses(call.doc)
  /\ Answered("goose") => answer = SelGooseSubscriptions(call.doc)
  /\ Answered("block") => answer.bit = DerivedBit(Profile, call.type, call.instance)
  /\ Answered("analog") => /\ answer.group = AnalogGroupFor(AnalogProfile, call.name)
                           /\ answer.name = ResolveAnalogName(AnalogProfile, call.name)
  /\ Answered("identifiers") => answer = ReadIdentifiers(call.dir, call.raw, Cidr)
  /\ Answered("lookup") => answer = Lookup(call.files, call.relaytype, call.registry)
  /\ Answered("import") => answer = ParseProfile(call.data)
  /\ Answered("compare_n") => answer = CompareN(call.values, call.kind, call.dialect)
ReplyInv == IsReaderCall /\ done \in BOOLEAN /\ Reply

LEMMA Replies == Spec => []ReplyInv
  <1>1. Init => ReplyInv
    BY DEF Init, Waiting, ReplyInv, Reply, Answered
  <1>2. ReplyInv /\ [Next]_vars => ReplyInv'
    <2> SUFFICES ASSUME ReplyInv, [Next]_vars PROVE ReplyInv'
      OBVIOUS
    <2>1. call' = call
      BY DEF Next, vars, Answer, ReadAddress, ReadPoints, ReadSubscriptions, AskBlock, AskAnalog,
             AskIdentifiers, AskLookup, JudgeValues, ImportProfile, ReadEquation, CompareTwo, CompareMany
    <2>2. IsReaderCall'
      BY <2>1 DEF ReplyInv, IsReaderCall
    <2>3. CASE UNCHANGED vars
      BY <2>2, <2>3 DEF ReplyInv, Reply, Answered, vars, Profile, AnalogProfile
    <2>4. ASSUME ReadAddress \/ ReadPoints \/ ReadSubscriptions
          PROVE  done' \in BOOLEAN /\ Reply'
      BY <2>1, <2>4 DEF ReadAddress, ReadPoints, ReadSubscriptions, Answer, Reply, Answered
    <2>5. ASSUME AskBlock \/ AskAnalog \/ AskIdentifiers
          PROVE  done' \in BOOLEAN /\ Reply'
      <3>1. Profile' = Profile /\ AnalogProfile' = AnalogProfile
        BY <2>1 DEF Profile, AnalogProfile
      <3>2. CASE AskBlock
        <4>1. answer'.bit = DerivedBit(Profile', call'.type, call'.instance)
          BY <2>1, <3>1, <3>2 DEF AskBlock
        <4> QED
          BY <2>1, <3>2, <4>1 DEF AskBlock, Answer, Reply, Answered
      <3>3. CASE AskAnalog
        <4>1. /\ answer'.group = AnalogGroupFor(AnalogProfile', call'.name)
              /\ answer'.name = ResolveAnalogName(AnalogProfile', call'.name)
          BY <2>1, <3>1, <3>3 DEF AskAnalog
        <4> QED
          BY <2>1, <3>3, <4>1 DEF AskAnalog, Answer, Reply, Answered
      <3>4. CASE AskIdentifiers
        BY <2>1, <3>4 DEF AskIdentifiers, Answer, Reply, Answered
      <3> QED
        BY <2>5, <3>2, <3>3, <3>4
    <2>6. ASSUME AskLookup \/ JudgeValues \/ ImportProfile
          PROVE  done' \in BOOLEAN /\ Reply'
      BY <2>1, <2>6 DEF AskLookup, JudgeValues, ImportProfile, Answer, Reply, Answered
    <2>7. ASSUME ReadEquation \/ CompareTwo \/ CompareMany
          PROVE  done' \in BOOLEAN /\ Reply'
      BY <2>1, <2>7 DEF ReadEquation, CompareTwo, CompareMany, Answer, Reply, Answered
    <2> QED
      BY <2>2, <2>3, <2>4, <2>5, <2>6, <2>7 DEF Next, ReplyInv
  <1> QED
    BY <1>1, <1>2, PTL DEF Spec

\* Which constants a call of each job is from.
LEMMA CallOf ==
  ASSUME IsReaderCall
  PROVE  /\ call.job = "address" => call.sa \in ShortAddresses
         /\ call.job = "points" => call.doc \in PointDocs
         /\ call.job = "goose" => call.doc \in GooseDocs
         /\ call.job = "block" => call \in BlockCalls
         /\ call.job = "analog" => call \in AnalogCalls
         /\ call.job = "identifiers" => call \in IdentifierCalls
         /\ call.job = "lookup" => call \in LookupCalls
         /\ call.job = "check" => call \in CheckCalls
         /\ call.job = "import" => call \in ImportCalls
         /\ call.job \in {"compare", "compare_n"} => call \in CompareCalls
  <1>1. CASE call \in [job : {"address"}, sa : ShortAddresses]
    BY <1>1
  <1>2. CASE call \in [job : {"points"}, doc : PointDocs]
    BY <1>2
  <1>3. CASE call \in [job : {"goose"}, doc : GooseDocs]
    BY <1>3
  <1>4. CASE call \in BlockCalls \/ call \in AnalogCalls \/ call \in IdentifierCalls
    BY <1>4, ReadersAssumption
  <1>5. CASE call \in LookupCalls \/ call \in CheckCalls \/ call \in ImportCalls
    BY <1>5, ReadersAssumption
  <1>6. CASE call \in ParseCalls \/ call \in CompareCalls
    BY <1>6, ReadersAssumption
  <1> QED
    BY <1>1, <1>2, <1>3, <1>4, <1>5, <1>6 DEF IsReaderCall

-----------------------------------------------------------------------------
(* Free slots *)

LEMMA FreeSlotFacts ==
  ASSUME NEW wbs, NEW kind, NEW values \in Seq(Pieces \ {<<>>})
  PROVE  FreeSlotsAreQuiet(wbs, kind, values)
  <1> DEFINE Text(v) == [n \in DOMAIN v |-> Upper[v[n]]]
  <1> SUFFICES ASSUME NEW i \in DOMAIN values, ToSet(Text(values[i])) \subseteq DefaultAlwaysValid
               PROVE  /\ wbs /= None => Check(wbs, values[i], kind)
                      /\ Len(values[i]) = 1 =>
                           <<Upper[values[i][1]]>> \notin Duplicates(values, AlwaysValidFor(wbs))
    BY DEF FreeSlotsAreQuiet
  <1>1. /\ values[i] \in Pieces /\ values[i] /= <<>> /\ Len(values[i]) \in Nat \ {0}
        /\ DOMAIN values[i] = 1..Len(values[i])
    BY DEF Pieces
  <1>2. \A n \in DOMAIN values[i] : Upper[values[i][n]] \in DefaultAlwaysValid
    BY DEF ToSet
  <1>3. DefaultAlwaysValid \subseteq AlwaysValidFor(wbs)
    BY DEF AlwaysValidFor
  <1>4. Check(wbs, values[i], kind)
    <2>1. NamesIn(kind, values[i]) \subseteq DefaultAlwaysValid
      <3> DEFINE parts == [n \in DOMAIN values[i] |-> Upper[values[i][n]]]
                 kept == IF kind = "BO" THEN parts ELSE SubSeq(parts, 1, 1)
      <3>1. \A n \in DOMAIN kept : kept[n] \in DefaultAlwaysValid
        <4>1. CASE kind = "BO"
          BY <1>2, <4>1
        <4>2. CASE kind /= "BO"
          <5>1. kept = [n \in 1..1 |-> parts[n]]
            BY <4>2 DEF SubSeq
          <5> QED
            BY <1>1, <1>2, <5>1
        <4> QED
          BY <4>1, <4>2
      <3> QED
        BY <3>1 DEF NamesIn
    <2> QED
      BY <1>3, <2>1 DEF Check
  <1>5. ASSUME Len(values[i]) = 1, NEW j \in DOMAIN values,
               Text(values[j]) = <<Upper[values[i][1]]>>
        PROVE  Whole(values[j]) \in DefaultAlwaysValid
    <2>1. values[j] \in Pieces /\ DOMAIN values[j] = 1..Len(values[j]) /\ Len(values[j]) \in Nat
      BY DEF Pieces
    <2>2. DOMAIN Text(values[j]) = 1..1 /\ Text(values[j])[1] = Upper[values[i][1]]
      BY <1>5
    <2>3. Len(values[j]) = 1 /\ Upper[values[j][1]] = Upper[values[i][1]]
      BY <2>1, <2>2
    <2> QED
      BY <1>1, <1>2, <1>5, <2>3 DEF Whole
  <1>6. ASSUME Len(values[i]) = 1
        PROVE  <<Upper[values[i][1]]>> \notin Duplicates(values, AlwaysValidFor(wbs))
    BY <1>3, <1>5, <1>6 DEF Duplicates
  <1> QED
    BY <1>4, <1>6

\* WordbitSet.check and duplicates: whatever the file of a model lists, a slot
\* that holds placeholders is judged no unknown name, and one placeholder alone
\* no duplicate.
THEOREM FreeSlotsAreNotWarnedAbout == Spec => []FreeSlotsQuiet
  <1>1. ReplyInv => FreeSlotsQuiet
    BY CallOf, ReadersAssumption, FreeSlotFacts DEF ReplyInv, FreeSlotsQuiet, Answered
  <1> QED
    BY <1>1, Replies, PTL

-----------------------------------------------------------------------------
(* The index of a registry *)

Added(f, keys, i) == [k \in DOMAIN f \cup keys[i] |-> IF k \in DOMAIN f THEN f[k] ELSE i]

LEMMA IndexPrefixes ==
  ASSUME NEW n \in Nat, NEW keys, DOMAIN keys = 1..n
  PROVE  \E p : /\ p[0] = Empty /\ p[n] = Index(keys)
                /\ \A k \in 0..n : k < n => p[k + 1] = Added(p[k], keys, k + 1)
  <1> DEFINE K == UNION {keys[i] : i \in 1..n}
             D == UNION {[S -> 1..n] : S \in SUBSET K}
             E == 1..n
             F == [x \in D \X E |-> Added(x[1], keys, x[2])]
             seq == [i \in DOMAIN keys |-> i]
             Iter(g) == g = [s \in SUBSET (1..n) |->
                               IF s = {} THEN Empty ELSE Added(g[s \ {Max(s)}], keys, Max(s))]
  <1>1. Empty \in D
    <2>1. Empty \in [{} -> 1..n] /\ {} \in SUBSET K
      BY DEF Empty
    <2> QED
      BY <2>1
  <1>2. ASSUME NEW f \in D, NEW i \in 1..n PROVE Added(f, keys, i) \in D
    <2>1. PICK S \in SUBSET K : f \in [S -> 1..n]
      OBVIOUS
    <2>2. keys[i] \subseteq K
      OBVIOUS
    <2>3. Added(f, keys, i) \in [S \cup keys[i] -> 1..n]
      BY <2>1 DEF Added
    <2> QED
      BY <2>2, <2>3
  <1> HIDE DEF K, D
  <1>3. F \in [D \X E -> D]
    BY <1>2
  <1>4. \A i \in 1..n : seq[i] = i /\ seq[i] \in E
    OBVIOUS
  <1> HIDE DEF F, seq, E
  <1>5. PICK g : FoldIn(n, D, F, Empty, seq, g)
    <2>1. CanFold(n, D, E, F, Empty, seq)
      BY <1>1, <1>3, <1>4 DEF CanFold
    <2> QED
      BY <2>1, FoldExists
  <1>6. Iter(g)
    <2>1. ASSUME NEW s \in SUBSET (1..n), s /= {}
          PROVE  FoldStep(F, Empty, seq, g, s) = Added(g[s \ {Max(s)}], keys, Max(s))
      <3>1. Max(s) \in 1..n
        BY <2>1, MaxIsIn
      <3>2. seq[Max(s)] = Max(s) /\ g[s \ {Max(s)}] \in D
        BY <1>4, <1>5, <3>1 DEF FoldIn
      <3> QED
        BY <2>1, <3>1, <3>2 DEF FoldStep, F, E
    <2>2. ASSUME NEW s \in SUBSET (1..n)
          PROVE  FoldStep(F, Empty, seq, g, s) =
                   IF s = {} THEN Empty ELSE Added(g[s \ {Max(s)}], keys, Max(s))
      BY <2>1 DEF FoldStep
    <2> QED
      BY <1>5, <2>2 DEF FoldIn, FoldOver
  <1> DEFINE h == CHOOSE x : Iter(x)
  <1>7. Iter(h)
    BY <1>6
  <1>8. Index(keys) = h[1..n]
    <2>1. DOMAIN seq = 1..n /\ \A s \in SUBSET (1..n) : s /= {} => seq[Max(s)] = Max(s)
      BY <1>4, MaxIsIn DEF seq
    <2> DEFINE Step(x) == x = [s \in SUBSET DOMAIN seq |->
                                 IF s = {} THEN Empty
                                 ELSE Added(x[s \ {Max(s)}], keys, seq[Max(s)])]
    <2>2. \A x : Step(x) <=> Iter(x)
      BY <2>1
    <2> HIDE DEF Step, Iter
    <2>3. (CHOOSE x : Step(x)) = h
      BY <2>2
    <2>4. Index(keys) = (CHOOSE x : Step(x))[DOMAIN seq]
      BY DEF Index, FoldLeft, MapThenFoldSet, Step, Added, seq
    <2> QED
      BY <2>1, <2>3, <2>4
  <1> HIDE DEF h
  <1> DEFINE p == [k \in 0..n |-> h[1..k]]
  <1>9. p[0] = Empty /\ p[n] = Index(keys)
    <2>1. 1..0 = {} /\ 0 \in 0..n /\ n \in 0..n
      OBVIOUS
    <2> QED
      BY <1>7, <1>8, <2>1
  <1>10. ASSUME NEW k \in 0..n, k < n PROVE p[k + 1] = Added(p[k], keys, k + 1)
    <2>0. /\ 1..(k + 1) \in SUBSET (1..n) /\ 1..(k + 1) /= {} /\ Max(1..(k + 1)) = k + 1
          /\ (1..(k + 1)) \ {k + 1} = 1..k
      BY <1>10, NextPlace
    <2>1. h[1..(k + 1)] = Added(h[1..k], keys, k + 1)
      BY <1>7, <2>0
    <2>2. k + 1 \in 0..n
      BY <1>10
    <2> QED
      BY <2>1, <2>2
  <1> HIDE DEF p
  <1> QED
    BY <1>9, <1>10

\* A key is indexed with the first of the files that have it.
IndexOf(f, keys, m) ==
  \A k : /\ k \in DOMAIN f <=> \E i \in 1..m : k \in keys[i]
         /\ k \in DOMAIN f => /\ f[k] \in 1..m /\ k \in keys[f[k]]
                              /\ \A i \in 1..m : k \in keys[i] => f[k] <= i

LEMMA IndexIsOfTheFirst ==
  ASSUME NEW n \in Nat, NEW keys, DOMAIN keys = 1..n
  PROVE  IndexOf(Index(keys), keys, n)
  <1>1. PICK p : /\ p[0] = Empty /\ p[n] = Index(keys)
                 /\ \A k \in 0..n : k < n => p[k + 1] = Added(p[k], keys, k + 1)
    BY IndexPrefixes
  <1> DEFINE N == {m \in Nat : m <= n => IndexOf(p[m], keys, m)}
  <1>2. 0 \in N
    BY <1>1 DEF Empty, IndexOf
  <1>3. \A m \in Nat : m \in N => m + 1 \in N
    <2> SUFFICES ASSUME NEW m \in Nat, m + 1 <= n, IndexOf(p[m], keys, m)
                 PROVE  IndexOf(p[m + 1], keys, m + 1)
      OBVIOUS
    <2> DEFINE f == p[m]
    <2>1. p[m + 1] = Added(f, keys, m + 1)
      BY <1>1
    <2> HIDE DEF f
    <2>2. IndexOf(f, keys, m)
      BY DEF f
    <2>3. IndexOf(Added(f, keys, m + 1), keys, m + 1)
      <3> DEFINE e == Added(f, keys, m + 1)
      <3> SUFFICES ASSUME NEW k
                   PROVE  /\ k \in DOMAIN e <=> \E i \in 1..(m + 1) : k \in keys[i]
                          /\ k \in DOMAIN e => /\ e[k] \in 1..(m + 1) /\ k \in keys[e[k]]
                                               /\ \A i \in 1..(m + 1) : k \in keys[i] => e[k] <= i
        BY DEF IndexOf
      <3>1. \A i : i \in 1..(m + 1) <=> i \in 1..m \/ i = m + 1
        OBVIOUS
      <3>2. DOMAIN e = DOMAIN f \cup keys[m + 1]
        BY DEF Added
      <3>3. k \in DOMAIN e => e[k] = IF k \in DOMAIN f THEN f[k] ELSE m + 1
        BY DEF Added
      <3>4. k \in DOMAIN f <=> \E i \in 1..m : k \in keys[i]
        BY <2>2 DEF IndexOf
      <3>5. k \in DOMAIN f => /\ f[k] \in 1..m /\ k \in keys[f[k]]
                              /\ \A i \in 1..m : k \in keys[i] => f[k] <= i
        BY <2>2 DEF IndexOf
      <3> HIDE DEF e
      <3>6. k \in DOMAIN e <=> \E i \in 1..(m + 1) : k \in keys[i]
        BY <3>1, <3>2, <3>4
      <3>7. CASE k \in DOMAIN f
        BY <3>1, <3>2, <3>3, <3>5, <3>6, <3>7
      <3>8. CASE k \notin DOMAIN f
        BY <3>1, <3>2, <3>3, <3>4, <3>6, <3>8
      <3> QED
        BY <3>7, <3>8
    <2> QED
      BY <2>1, <2>3
  <1> HIDE DEF N
  <1>4. n \in N
    BY <1>2, <1>3, NatInductionSet
  <1> QED
    BY <1>1, <1>4 DEF N

LEMMA FirstInIs ==
  ASSUME NEW keys, NEW S, Len(keys) \in Nat
  PROVE  \/ FirstIn(keys, S) = 0 /\ \A i \in 1..Len(keys) : keys[i] \notin S
         \/ /\ FirstIn(keys, S) \in 1..Len(keys) /\ keys[FirstIn(keys, S)] \in S
            /\ \A i \in 1..Len(keys) : keys[i] \in S => FirstIn(keys, S) <= i
  <1> DEFINE I == {i \in 1..Len(keys) : keys[i] \in S}
  <1>1. FirstIn(keys, S) = IF I /= {} THEN Min(I) ELSE 0
    BY DEF FirstIn, SelectInSeq
  <1>2. CASE I = {}
    BY <1>1, <1>2
  <1>3. CASE I /= {}
    <2>1. I \in SUBSET Nat
      OBVIOUS
    <2>2. \E r \in I : \A q \in I : r <= q
      BY <1>3, <2>1, SmallestExists
    <2>3. Min(I) \in I /\ \A q \in I : Min(I) <= q
      BY <2>2 DEF Min
    <2> QED
      BY <1>1, <1>3, <2>3
  <1> QED
    BY <1>2, <1>3

\* The first variant a lookup tries is a key of every file that names what is asked.
LEMMA FirstVariantIsAKey ==
  ASSUME NEW name, IsModelName(name), NEW registry \in {"relay_models", "wordbits"}
  PROVE  /\ Len(VariantsOf(name, registry)) \in Nat \ {0}
         /\ ToSet(VariantsOf(name, registry)) =
              {VariantsOf(name, registry)[i] : i \in 1..Len(VariantsOf(name, registry))}
         /\ \A file : name \in NamesOf(file) =>
              VariantsOf(name, registry)[1] \in KeysOf(file, registry)
  <1>1. CASE registry = "relay_models"
    BY <1>1 DEF VariantsOf, KeysOf, KeyVariants, ToSet
  <1>2. CASE registry = "wordbits"
    <2> DEFINE n == Len(name.parts)
               Cut(k, sel) == [sel |-> sel, parts |-> SubSeq(name.parts, 1, k)]
               shorter == [i \in 1..(2 * (n - 1)) |-> Cut(n - (i + 1) \div 2, i % 2 = 0)]
               v == WordbitKeyVariants(name)
    <2>1. n \in Nat \ {0}
      BY DEF IsModelName
    <2>2. 2 * (n - 1) \in Nat
      BY <2>1
    <2>3. Len(shorter) = 2 * (n - 1)
      BY <2>2
    <2>4. v = <<Cut(n, FALSE), name>> \o shorter
      BY DEF WordbitKeyVariants
    <2> HIDE DEF shorter, n, v
    <2>5. v = [i \in 1..(2 + Len(shorter)) |->
                 IF i <= 2 THEN <<Cut(n, FALSE), name>>[i] ELSE shorter[i - 2]]
      BY <2>4 DEF \o
    <2>6. DOMAIN v = 1..(2 + Len(shorter)) /\ Len(v) = 2 + Len(shorter)
      BY <2>2, <2>3, <2>5
    <2>7. Len(v) \in Nat \ {0} /\ DOMAIN v = 1..Len(v) /\ v[1] \in ToSet(v)
      BY <2>2, <2>3, <2>6 DEF ToSet
    <2> QED
      BY <1>2, <2>7 DEF VariantsOf, KeysOf, v, ToSet
  <1> QED
    BY <1>1, <1>2

\* The keys of a file are those of its names.
LEMMA KeysOfNames ==
  ASSUME NEW file, NEW registry, NEW k \in KeysOf(file, registry)
  PROVE  \E a \in NamesOf(file) : k \in KeysOf([model |-> a, aliases |-> <<>>], registry)
  <1>1. \A a : NamesOf([model |-> a, aliases |-> <<>>]) = {a}
    BY DEF NamesOf, ToSet
  <1>2. CASE registry = "relay_models"
    BY <1>1, <1>2 DEF KeysOf
  <1>3. CASE registry /= "relay_models"
    <2>1. PICK a \in NamesOf(file) : k \in ToSet(WordbitKeyVariants(a))
      BY <1>3 DEF KeysOf
    <2> QED
      BY <1>1, <1>3, <2>1 DEF KeysOf
  <1> QED
    BY <1>2, <1>3

LEMMA KeysOfOneName ==
  ASSUME NEW file, NEW registry, NEW a \in NamesOf(file),
         NEW k \in KeysOf([model |-> a, aliases |-> <<>>], registry)
  PROVE  k \in KeysOf(file, registry)
  <1>1. NamesOf([model |-> a, aliases |-> <<>>]) = {a}
    BY DEF NamesOf, ToSet
  <1> QED
    BY <1>1 DEF KeysOf

LEMMA OverlayFacts ==
  ASSUME NEW c \in LookupCalls, NEW n \in DOMAIN c.files
  PROVE  OverlayDecides(c.files, n, c.relaytype, c.registry,
                        Lookup(c.files, c.relaytype, c.registry))
  <1> DEFINE files == c.files
             last == Len(files)
             keys == [i \in DOMAIN files |-> KeysOf(files[i], c.registry)]
             index == Index(keys)
             variants == VariantsOf(c.relaytype, c.registry)
             k == FirstIn(variants, DOMAIN index)
             found == Lookup(files, c.relaytype, c.registry)
  <1>1. /\ c.registry \in {"relay_models", "wordbits"} /\ IsModelName(c.relaytype)
        /\ DOMAIN files = 1..last
    BY ReadersAssumption
  <1>2. last \in Nat
    BY ReadersAssumption
  <1>3. /\ Len(variants) \in Nat \ {0} /\ ToSet(variants) = {variants[i] : i \in 1..Len(variants)}
        /\ \A file : c.relaytype \in NamesOf(file) => variants[1] \in KeysOf(file, c.registry)
    BY <1>1, FirstVariantIsAKey
  <1>4. \A i \in DOMAIN files : keys[i] = KeysOf(files[i], c.registry)
    OBVIOUS
  <1>5. DOMAIN keys = 1..last
    BY <1>1
  <1> HIDE DEF keys
  <1>6. IndexOf(index, keys, last)
    BY <1>2, <1>5, IndexIsOfTheFirst
  <1>7. found = IF k = 0 THEN 0 ELSE index[variants[k]]
    BY DEF Lookup, keys
  <1> HIDE DEF index, variants
  <1>8. \/ k = 0 /\ \A i \in 1..Len(variants) : variants[i] \notin DOMAIN index
        \/ /\ k \in 1..Len(variants) /\ variants[k] \in DOMAIN index
           /\ \A i \in 1..Len(variants) : variants[i] \in DOMAIN index => k <= i
    BY <1>3, FirstInIs
  <1> HIDE DEF k, found, last, files
  <1>9. ASSUME NEW i \in DOMAIN files, c.relaytype \in NamesOf(files[i])
        PROVE  found \in 1..i
    <2>1. variants[1] \in keys[i] /\ i \in 1..last
      BY <1>1, <1>3, <1>4, <1>9
    <2>2. /\ variants[1] \in DOMAIN index /\ index[variants[1]] \in 1..last
          /\ index[variants[1]] <= i
      BY <1>6, <2>1 DEF IndexOf
    <2>3. 1 \in 1..Len(variants)
      BY <1>3
    <2>4. k = 1
      BY <1>3, <1>8, <2>2, <2>3
    <2> QED
      BY <1>2, <1>7, <2>1, <2>2, <2>4
  <1>10. ASSUME NEW o \in 1..n, found > n, files[o].model = files[found].model
         PROVE  \E a \in NamesOf(files[found]) \ NamesOf(files[o]) :
                  ToSet(variants) \cap KeysOf([model |-> a, aliases |-> <<>>], c.registry) /= {}
    <2>1. n \in 1..last /\ o \in 1..last /\ o <= n
      BY <1>1, <1>2 DEF files
    <2>2. k /= 0 /\ found = index[variants[k]]
      BY <1>7, <1>10, <2>1
    <2>3. k \in 1..Len(variants) /\ variants[k] \in DOMAIN index /\ variants[k] \in ToSet(variants)
      BY <1>3, <1>8, <2>2
    <2>4. /\ found \in 1..last /\ variants[k] \in keys[found]
          /\ \A i \in 1..last : variants[k] \in keys[i] => found <= i
      BY <1>6, <2>2, <2>3 DEF IndexOf
    <2>5. variants[k] \in KeysOf(files[found], c.registry)
      BY <1>1, <1>4, <2>4
    <2>6. PICK a \in NamesOf(files[found]) :
            variants[k] \in KeysOf([model |-> a, aliases |-> <<>>], c.registry)
      BY <2>5, KeysOfNames
    <2>7. a \notin NamesOf(files[o])
      <3> SUFFICES ASSUME a \in NamesOf(files[o]) PROVE FALSE
        OBVIOUS
      <3>1. variants[k] \in keys[o]
        BY <1>1, <1>4, <2>1, <2>6, KeysOfOneName
      <3> QED
        BY <1>2, <1>10, <2>1, <2>4, <3>1
    <2> QED
      BY <2>3, <2>6, <2>7
  <1>11. \A i \in DOMAIN files : files[i].model \in NamesOf(files[i])
    BY DEF NamesOf
  <1>12. (\E o \in 1..n : c.relaytype \in NamesOf(files[o])) => found \in 1..n
    <2>1. ASSUME NEW o \in 1..n, c.relaytype \in NamesOf(files[o]) PROVE found \in 1..n
      <3>1. o \in DOMAIN files /\ n \in Nat
        BY <1>1, <1>2 DEF files
      <3>2. found \in 1..o
        BY <1>9, <2>1, <3>1
      <3> QED
        BY <3>1, <3>2
    <2> QED
      BY <2>1
  <1> QED
    BY <1>9, <1>10, <1>11, <1>12 DEF OverlayDecides, files, found, variants

\* lookup of relay_models and of wordbits: however many files the overlay has and
\* whatever they list, a file of the overlay answers where it names what is asked,
\* and one of the package only through an alias no file of the same model of the
\* overlay has.
THEOREM OverlayComesFirst == Spec => []OverlayFirst
  <1>1. ReplyInv => OverlayFirst
    BY CallOf, OverlayFacts DEF ReplyInv, Reply, OverlayFirst, Answered
  <1> QED
    BY <1>1, Replies, PTL

-----------------------------------------------------------------------------
(* Device profiles: which member is read *)

Reads(r) == r.error = ""
Fails(r) == r.error = "foreign"
Ends(members) == {m \in Candidates(members) : Reads(Attempt(m)) \/ Fails(Attempt(m))}
First(S, m) == m \in S /\ \A o \in S \ {m} : Before(m, o)

LEMMA ParseXmlIs ==
  ASSUME NEW doc
  PROVE  /\ ~(Reads(ParseXml(doc)) /\ Fails(ParseXml(doc)))
         /\ Reads(ParseXml(doc)) =>
              /\ doc.models /= <<>> /\ ParseXml(doc).profile.models = doc.models
              /\ ParseXml(doc).profile.doc = doc.id
              /\ ParseXml(doc).profile.kinds = [k \in Kinds |-> ParseXml(doc).profile.kinds[k]]
  <1>1. CASE doc.damage = "foreign"
    BY <1>1, Zenon DEF ParseXml, Raised, Reads, Fails
  <1>2. CASE /\ doc.damage /= "foreign"
             /\ \/ doc.damage = "malformed" \/ doc.root /= "DNP3DeviceProfileDocument"
                \/ (\A k \in Kinds : doc.points[k] \ {""} = {}) \/ doc.models = <<>>
    BY <1>2, Zenon DEF ParseXml, Raised, Reads, Fails
  <1>3. CASE /\ doc.damage /= "foreign"
             /\ ~ \/ doc.damage = "malformed" \/ doc.root /= "DNP3DeviceProfileDocument"
                  \/ (\A k \in Kinds : doc.points[k] \ {""} = {}) \/ doc.models = <<>>
    <2> DEFINE names == [k \in Kinds |-> {Upper[n] : n \in doc.points[k]} \ {""}]
               read == [model |-> doc.models[1], models |-> doc.models, doc |-> doc.id,
                        kinds |-> names]
    <2>1. ParseXml(doc) = [error |-> "", profile |-> read]
      <3>1. doc.damage /= "foreign"
        BY <1>3, Zenon
      <3> QED
        BY <1>3, <3>1, Zenon DEF ParseXml
    <2>2. names = [k \in Kinds |-> names[k]]
      OBVIOUS
    <2> HIDE DEF names
    <2>3. /\ read.models = doc.models /\ read.doc = doc.id /\ read.kinds = names
      OBVIOUS
    <2> HIDE DEF read
    <2>4. ParseXml(doc).error = "" /\ ParseXml(doc).profile = read
      <3>1. \A e, p, r : r = [error |-> e, profile |-> p] => r.error = e /\ r.profile = p
        OBVIOUS
      <3> QED
        BY <2>1, <3>1, Zenon
    <2>5. doc.models /= <<>>
      BY <1>3, Zenon
    <2>6. ~Fails(ParseXml(doc))
      BY <2>4, Zenon DEF Fails
    <2> QED
      BY <2>2, <2>3, <2>4, <2>5, <2>6, Zenon
  <1> QED
    BY <1>1, <1>2, <1>3, Zenon

LEMMA AttemptIs ==
  ASSUME NEW m
  PROVE  /\ Reads(Attempt(m)) <=> ~m.oversized /\ Reads(ParseXml(m.doc))
         /\ Fails(Attempt(m)) <=> ~m.oversized /\ Fails(ParseXml(m.doc))
         /\ ~m.oversized => Attempt(m) = ParseXml(m.doc)
  <1>1. ~Reads(Raised("profile")) /\ ~Fails(Raised("profile"))
    BY Zenon DEF Raised, Reads, Fails
  <1> QED
    BY <1>1, Zenon DEF Attempt

LEMMA OneIsFirst ==
  ASSUME NEW data, IsData(data), NEW S \in SUBSET data.members, S /= {}
  PROVE  \E m : First(S, m)
  <1> DEFINE T == {m \in S : m.role = "dnpdp"}
             U == IF T /= {} THEN T ELSE S
             R == {m.order : m \in U}
  <1>1. \A m, o \in data.members : m.order \in Nat /\ (m /= o => m.order /= o.order)
    BY DEF IsData
  <1>2. R \in SUBSET Nat /\ R /= {}
    BY <1>1
  <1>3. PICK r \in R : \A q \in R : r <= q
    BY <1>2, SmallestExists
  <1>4. PICK m \in U : r = m.order
    BY <1>3
  <1>5. ASSUME NEW o \in S \ {m} PROVE Before(m, o)
    <2>1. m.order /= o.order /\ m.order \in Nat /\ o.order \in Nat
      BY <1>1, <1>4
    <2>2. o \in U => m.order <= o.order
      BY <1>3, <1>4
    <2>3. CASE o \in U
      BY <1>4, <2>1, <2>2, <2>3 DEF Before
    <2>4. CASE o \notin U
      BY <1>4, <2>4 DEF Before
    <2> QED
      BY <2>3, <2>4
  <1> QED
    BY <1>4, <1>5 DEF First

\* What parse answers is what the first member that ends the loop gives, or an
\* error where there is none.
LEMMA ParseIsOfTheFirst ==
  ASSUME NEW data, IsData(data)
  PROVE  \/ /\ Ends(data.members) = {}
            /\ ~Reads(ParseProfile(data))
         \/ \E m : First(Ends(data.members), m) /\ ParseProfile(data) = Attempt(m)
  <1> DEFINE ends == Ends(data.members)
  <1>1. ends \in SUBSET data.members
    BY DEF Ends, Candidates
  <1>2. ~Reads(Raised("profile"))
    BY Zenon DEF Raised, Reads
  <1>3. CASE data.zip
    <2>1. ends = {m \in Candidates(data.members) : Attempt(m).error \in {"", "foreign"}}
      BY Zenon DEF Ends, Reads, Fails
    <2>0. ParseProfile(data) = ParseZip(data.members)
      BY <1>3, Zenon DEF ParseProfile
    <2> HIDE DEF ends
    <2>2. ParseProfile(data) =
            IF ends = {} THEN Raised("profile")
            ELSE Attempt(CHOOSE m \in ends : \A o \in ends \ {m} : Before(m, o))
      BY <2>0, <2>1, Zenon DEF ParseZip
    <2> HIDE DEF ends
    <2>3. CASE ends = {}
      BY <1>2, <2>2, <2>3 DEF ends
    <2>4. CASE ends /= {}
      <3>1. \E m : First(ends, m)
        BY <1>1, <2>4, OneIsFirst
      <3>2. First(ends, CHOOSE m \in ends : \A o \in ends \ {m} : Before(m, o))
        BY <3>1 DEF First
      <3> QED
        BY <2>2, <2>4, <3>2 DEF ends
    <2> QED
      BY <2>3, <2>4
  <1>4. CASE ~data.zip
    <2>1. PICK m \in data.members : data.members = {m} /\ m.role = "other" /\ ~m.oversized
      BY <1>4 DEF IsData
    <2>2. ParseProfile(data) = ParseXml(m.doc)
      BY <1>4, <2>1 DEF ParseProfile
    <2>3. Attempt(m) = ParseXml(m.doc)
      BY <2>1, AttemptIs
    <2>4. Candidates(data.members) = {m}
      BY <2>1 DEF Candidates
    <2>5. CASE Reads(Attempt(m)) \/ Fails(Attempt(m))
      <3>1. ends = {m}
        BY <2>4, <2>5 DEF Ends
      <3> QED
        BY <2>2, <2>3, <3>1 DEF First
    <2>6. CASE ~(Reads(Attempt(m)) \/ Fails(Attempt(m)))
      BY <2>2, <2>3, <2>4, <2>6 DEF Ends
    <2> QED
      BY <2>5, <2>6
  <1> QED
    BY <1>3, <1>4

(* ... and what importing it keeps *)

\* What is read is the first of the members parse_zip does not pass.
Tried(members) == {m \in members : m.role \in {"dnpdp", "other"} /\ ~m.oversized}
Good(members) == {m \in Tried(members) : ParseXml(m.doc).error = ""}
Foreign(members) == {m \in Tried(members) : ParseXml(m.doc).error = "foreign"}
Leads(m, o) == /\ o.role = "dnpdp" => m.role = "dnpdp"
               /\ o.role = m.role => m.order <= o.order

LEMMA FirstMemberIsRead ==
  ASSUME NEW data, IsData(data)
  PROVE  LET members == data.members
             result == ParseProfile(data)
         IN  /\ Foreign(members) = {} => (Reads(result) <=> Good(members) /= {})
             /\ Reads(result) => \E m \in Good(members) :
                  /\ result = ParseXml(m.doc) /\ m.doc.id = result.profile.doc
                  /\ \A o \in Good(members) \cup Foreign(members) : Leads(m, o)
  <1> DEFINE members == data.members
             result == ParseProfile(data)
             ends == Ends(members)
  <1>1. Good(members) = {m \in Candidates(members) : Reads(Attempt(m))}
    BY AttemptIs, Zenon DEF Good, Tried, Candidates, Reads
  <1>2. Foreign(members) = {m \in Candidates(members) : Fails(Attempt(m))}
    BY AttemptIs, Zenon DEF Foreign, Tried, Candidates, Fails
  <1>3. \A m : m \in ends <=> m \in Good(members) \/ m \in Foreign(members)
    BY <1>1, <1>2 DEF Ends
  <1>4. \A m : ~(Reads(Attempt(m)) /\ Fails(Attempt(m)))
    BY AttemptIs, ParseXmlIs
  <1>5. ends \subseteq Tried(members) /\ Tried(members) \subseteq members
    BY <1>3 DEF Good, Foreign, Tried
  <1> HIDE DEF ends, result
  <1>6. CASE ends = {} /\ ~Reads(result)
    BY <1>3, <1>6 DEF result
  <1>7. CASE \E m : First(ends, m) /\ result = Attempt(m)
    <2>1. PICK m : First(ends, m) /\ result = Attempt(m)
      BY <1>7
    <2>2. m \in ends /\ m \in Tried(members)
      BY <1>5, <2>1 DEF First
    <2>3. Reads(result) <=> m \in Good(members)
      BY <1>1, <1>2, <1>3, <1>4, <2>1, <2>2
    <2>4. result = ParseXml(m.doc)
      BY <2>1, <2>2, AttemptIs DEF Tried
    <2>5. Foreign(members) = {} => (Reads(result) <=> Good(members) /= {})
      BY <1>3, <2>2, <2>3
    <2>6. Reads(result) => m.doc.id = result.profile.doc
      BY <2>4, ParseXmlIs
    <2>7. ASSUME NEW o \in ends PROVE Leads(m, o)
      <3>1. m.order \in Nat /\ o.order \in Nat /\ (m = o \/ Before(m, o))
        BY <1>5, <2>1, <2>2 DEF First, IsData
      <3>2. m.role \in {"dnpdp", "other"} /\ o.role \in {"dnpdp", "other"}
        BY <1>5, <2>2 DEF Tried
      <3> QED
        BY <3>1, <3>2 DEF Before, Leads
    <2> QED
      BY <1>3, <2>3, <2>4, <2>5, <2>6, <2>7 DEF result
  <1> QED
    BY <1>6, <1>7, ParseIsOfTheFirst DEF result, ends

\* What a file of a model holds, and its import.
IsEntry(e) ==
  e = [model |-> e.model, model_aliases |-> e.model_aliases, always_valid |-> e.always_valid,
       check_kinds |-> e.check_kinds, kinds |-> e.kinds, bits |-> e.bits, patterns |-> e.patterns]

LEMMA LoadedEntry ==
  ASSUME NEW e, IsEntry(e), e.model /= <<>>
  PROVE  /\ LoadEntry(e).model = e.model /\ LoadEntry(e).model_aliases = e.model_aliases
         /\ LoadEntry(e).always_valid = e.always_valid /\ LoadEntry(e).kinds = e.kinds
         /\ LoadEntry(e).bits = e.bits /\ LoadEntry(e).patterns = e.patterns
         /\ LoadEntry(e).check_kinds =
              IF e.check_kinds = {"undeclared"} THEN {"BI"} ELSE e.check_kinds \cap Kinds
         /\ LoadEntry(e) /= None
  <1>1. LoadEntry(e) = [e EXCEPT !.check_kinds = IF @ = {"undeclared"} THEN {"BI"} ELSE @ \cap Kinds]
    BY DEF LoadEntry
  <1>2. LoadEntry(e).model = e.model /\ None.model = <<>>
    BY <1>1 DEF IsEntry, None
  <1> QED
    BY <1>1, <1>2 DEF IsEntry

LEMMA ImportFacts ==
  ASSUME NEW c \in ImportCalls, Reads(ParseProfile(c.data))
  PROVE  LET entry == EntryFromProfiles(ParseProfile(c.data).profile, c.existing, c.merge_kinds)
             before == LoadEntry(c.existing)
             after == LoadEntry(entry)
         IN  /\ after.bits = before.bits /\ after.patterns = before.patterns
             /\ AlwaysValidFor(after) = AlwaysValidFor(before)
             /\ c.merge_kinds => \A k \in Kinds : before.kinds[k] \subseteq after.kinds[k]
             /\ ~c.merge_kinds => after.kinds = ParseProfile(c.data).profile.kinds
             /\ c.merge_kinds => \A k \in before.check_kinds : \A v :
                  Check(before, v, k) => Check(after, v, k)
             /\ "BI" \in after.check_kinds => after.bits /= {}
             /\ {after.model} \cup after.model_aliases =
                  UNION {{m, <<m[1]>>} : m \in ToSet(ParseProfile(c.data).profile.models)}
  <1> DEFINE existing == c.existing
             profile == ParseProfile(c.data).profile
             entry == EntryFromProfiles(profile, existing, c.merge_kinds)
             before == LoadEntry(existing)
             after == LoadEntry(entry)
             kinds == KindsMerged(profile, existing, c.merge_kinds)
  <1>1. /\ IsData(c.data) /\ c.merge_kinds \in BOOLEAN
        /\ IsEntry(existing) /\ existing.model /= <<>>
    BY ReadersAssumption DEF IsEntry
  <1>2. PICK m \in Good(c.data.members) : ParseProfile(c.data) = ParseXml(m.doc)
    BY <1>1, FirstMemberIsRead
  <1>3. profile.models \in Seq(Seq(STRING) \ {<<>>}) /\ profile.models /= <<>>
    <2>1. m \in c.data.members
      BY Zenon DEF Good, Tried
    <2>2. m.doc.models \in Seq(Seq(STRING) \ {<<>>})
      BY <1>1, <2>1 DEF IsData
    <2>3. Reads(ParseXml(m.doc))
      BY <1>2
    <2>4. m.doc.models /= <<>> /\ ParseXml(m.doc).profile.models = m.doc.models
      BY <2>3, ParseXmlIs
    <2> QED
      BY <1>2, <2>2, <2>4
  <1> HIDE DEF profile, existing
  <1>4. \A x \in ToSet(profile.models) : x \in Seq(STRING) /\ x /= <<>> /\ SubSeq(x, 1, 1) = <<x[1]>>
    <2>1. \A x \in ToSet(profile.models) : x \in Seq(STRING) \ {<<>>}
      BY <1>3 DEF ToSet
    <2>2. ASSUME NEW x \in Seq(STRING) \ {<<>>} PROVE SubSeq(x, 1, 1) = <<x[1]>>
      <3>1. SubSeq(x, 1, 1) = [i \in 1..1 |-> x[i]]
        BY DEF SubSeq
      <3>2. <<x[1]>> = [i \in 1..1 |-> x[i]]
        OBVIOUS
      <3> QED
        BY <3>1, <3>2
    <2> QED
      BY <2>1, <2>2
  <1>5. profile.models[1] \in ToSet(profile.models)
    BY <1>3 DEF ToSet
  <1>6. BaseModel(profile) /= <<>>
    BY <1>4, <1>5 DEF BaseModel
  <1>7. /\ entry.model = BaseModel(profile)
        /\ entry.model_aliases = ProfileKeys(profile) \ {BaseModel(profile)}
        /\ entry.always_valid = IF existing.always_valid = {} THEN DefaultAlwaysValid
                                ELSE existing.always_valid
        /\ entry.check_kinds = CheckKindsFor(kinds, existing.bits)
        /\ entry.kinds = kinds /\ entry.bits = existing.bits
        /\ entry.patterns = existing.patterns /\ IsEntry(entry)
    BY DEF EntryFromProfiles, IsEntry
  <1> HIDE DEF entry, kinds
  <1>8. /\ after.model = entry.model /\ after.model_aliases = entry.model_aliases
        /\ after.always_valid = entry.always_valid /\ after.kinds = kinds
        /\ after.bits = existing.bits /\ after.patterns = existing.patterns
        /\ after.check_kinds = (IF entry.check_kinds = {"undeclared"} THEN {"BI"}
                                ELSE entry.check_kinds \cap Kinds)
        /\ after /= None
    BY <1>6, <1>7, LoadedEntry
  <1>9. /\ before.always_valid = existing.always_valid /\ before.kinds = existing.kinds
        /\ before.bits = existing.bits /\ before.patterns = existing.patterns
        /\ before.check_kinds = (IF existing.check_kinds = {"undeclared"} THEN {"BI"}
                                 ELSE existing.check_kinds \cap Kinds)
        /\ before /= None
    BY <1>1, LoadedEntry
  <1> HIDE DEF before, after
  <1>10. AlwaysValidFor(after) = AlwaysValidFor(before)
    <2>1. AlwaysValidFor(after) = DefaultAlwaysValid \cup after.always_valid
      BY <1>8 DEF AlwaysValidFor
    <2>2. AlwaysValidFor(before) = DefaultAlwaysValid \cup before.always_valid
      BY <1>9 DEF AlwaysValidFor
    <2> QED
      BY <1>7, <1>8, <1>9, <2>1, <2>2
  <1>11. c.merge_kinds => \A k \in Kinds : before.kinds[k] \subseteq after.kinds[k]
    BY <1>8, <1>9 DEF kinds, KindsMerged
  <1>16. ~c.merge_kinds => after.kinds = profile.kinds
    <2>1. profile.kinds = [k \in Kinds |-> profile.kinds[k]]
      <3>1. Reads(ParseXml(m.doc)) /\ profile = ParseXml(m.doc).profile
        BY <1>2 DEF profile
      <3> QED
        BY <3>1, ParseXmlIs
    <2> QED
      BY <1>8, <2>1 DEF kinds, KindsMerged
  <1>12. before.check_kinds \subseteq Kinds
    BY <1>9 DEF Kinds
  <1>13. ASSUME c.merge_kinds, NEW k \in before.check_kinds, NEW v, Check(before, v, k)
         PROVE  Check(after, v, k)
    <2>1. before.kinds[k] \subseteq after.kinds[k] /\ after.bits = before.bits
          /\ after.patterns = before.patterns
      BY <1>8, <1>9, <1>11, <1>12, <1>13
    <2>2. Domain(before, k) \subseteq Domain(after, k)
      BY <2>1 DEF Domain
    <2>3. \/ Whole(v) \in AlwaysValidFor(before)
          \/ NamesIn(k, v) \subseteq AlwaysValidFor(before) \cup Domain(before, k) \cup before.patterns
      BY <1>13 DEF Check
    <2> QED
      BY <1>10, <2>1, <2>2, <2>3 DEF Check
  <1>14. "BI" \in after.check_kinds => after.bits /= {}
    <2>1. "undeclared" \notin entry.check_kinds
      BY <1>7 DEF CheckKindsFor
    <2>2. "BI" \in entry.check_kinds => existing.bits /= {}
      BY <1>7 DEF CheckKindsFor
    <2> QED
      BY <1>8, <2>1, <2>2
  <1>15. {after.model} \cup after.model_aliases = UNION {{x, <<x[1]>>} : x \in ToSet(profile.models)}
    <2>1. ProfileKeys(profile) = UNION {{x, <<x[1]>>} : x \in ToSet(profile.models)}
      BY <1>4 DEF ProfileKeys
    <2>2. BaseModel(profile) \in ProfileKeys(profile)
      BY <1>5 DEF BaseModel, ProfileKeys
    <2> QED
      BY <1>7, <1>8, <2>1, <2>2
  <1> QED
    BY <1>8, <1>9, <1>10, <1>11, <1>13, <1>14, <1>15, <1>16 DEF before, after, entry, existing, profile

\* dnp_profile.parse: whatever a zip holds, what is read is the first of its members
\* that reads, dnpDP.xml before the others, then by name.
LEMMA FirstMembersAreRead == Spec => []FirstMemberReads
  <1>1. ReplyInv => FirstMemberReads
    <2> SUFFICES ASSUME ReplyInv, Answered("import")
                 PROVE  ReadsFirst(call.data.members, answer)
      BY DEF FirstMemberReads
    <2>1. call \in ImportCalls /\ answer = ParseProfile(call.data)
      BY CallOf DEF ReplyInv, Reply, Answered
    <2>2. IsData(call.data)
      BY <2>1, ReadersAssumption
    <2> QED
      BY <2>1, <2>2, FirstMemberIsRead, Zenon
      DEF ReadsFirst, Tried, Good, Foreign, Leads, Reads
  <1> QED
    BY <1>1, Replies, PTL

\* entry_from_profiles: no import takes a bit, a pattern or a placeholder away; one
\* that merges takes no point name away, and no value that was accepted in a block
\* that was judged before.
LEMMA ImportsKeepNames == Spec => []NamesAreKept
  <1>1. ReplyInv => NamesAreKept
    <2> SUFFICES ASSUME ReplyInv, Answered("import")
                 PROVE  ImportKeeps(call.existing, call.merge_kinds, call.values, answer)
      BY DEF NamesAreKept
    <2>1. call \in ImportCalls /\ answer = ParseProfile(call.data)
      BY CallOf DEF ReplyInv, Reply, Answered
    <2> QED
      BY <2>1, ImportFacts, Zenon DEF ImportKeeps, Reads
  <1> QED
    BY <1>1, Replies, PTL

\* parse and entry_from_profiles: an import takes the first profile there is in a
\* zip, and takes away only what `NamesAreKept` says.
THEOREM ImportsLoseNothing == Spec => []ImportLosesNothing
  BY FirstMembersAreRead, ImportsKeepNames, PTL DEF ImportLosesNothing

-----------------------------------------------------------------------------
(* GOOSE subscriptions: the bits declared for their health *)

LEMMA DeclarePrefixes ==
  ASSUME NEW private \in Seq(Declaration)
  PROVE  \E p : /\ p[0] = <<>> /\ p[Len(private)] = FoldLeft(Declare, <<>>, private)
                /\ \A k \in 0..Len(private) :
                     /\ p[k] \in Seq(Declaration)
                     /\ k < Len(private) => p[k + 1] = Declare(p[k], private[k + 1])
  <1> DEFINE n == Len(private)
             D == Seq(Declaration)
             F == [x \in D \X Declaration |-> Declare(x[1], x[2])]
             Iter(g) == g = [s \in SUBSET (1..n) |->
                               IF s = {} THEN <<>>
                               ELSE Declare(g[s \ {Max(s)}], private[Max(s)])]
  <1>1. /\ n \in Nat /\ DOMAIN private = 1..n
        /\ \A i \in 1..n : private[i] \in Declaration
    OBVIOUS
  <1>2. \A b \in D, s \in Declaration : Declare(b, s) \in D
    BY DEF Declare
  <1>3. <<>> \in D
    OBVIOUS
  <1> HIDE DEF n, D
  <1>4. F \in [D \X Declaration -> D]
    BY <1>2
  <1> HIDE DEF F
  <1>5. PICK g : FoldIn(n, D, F, <<>>, private, g)
    <2>1. CanFold(n, D, Declaration, F, <<>>, private)
      BY <1>1, <1>3, <1>4 DEF CanFold
    <2> QED
      BY <2>1, FoldExists
  <1>6. Iter(g)
    <2>1. ASSUME NEW s \in SUBSET (1..n), s /= {}
          PROVE  FoldStep(F, <<>>, private, g, s) = Declare(g[s \ {Max(s)}], private[Max(s)])
      <3>1. Max(s) \in 1..n
        BY <1>1, <2>1, MaxIsIn
      <3>2. private[Max(s)] \in Declaration /\ g[s \ {Max(s)}] \in D
        BY <1>1, <1>5, <3>1 DEF FoldIn
      <3> QED
        BY <2>1, <3>1, <3>2 DEF FoldStep, F
    <2>2. ASSUME NEW s \in SUBSET (1..n)
          PROVE  FoldStep(F, <<>>, private, g, s) =
                   IF s = {} THEN <<>> ELSE Declare(g[s \ {Max(s)}], private[Max(s)])
      BY <2>1 DEF FoldStep
    <2> QED
      BY <1>5, <2>2 DEF FoldIn, FoldOver
  <1> DEFINE h == CHOOSE x : Iter(x)
  <1>7. Iter(h)
    BY <1>6
  <1>8. FoldLeft(Declare, <<>>, private) = h[1..n]
    BY <1>1 DEF FoldLeft, MapThenFoldSet
  <1> HIDE DEF h
  <1> DEFINE p == [k \in 0..n |-> h[1..k]]
  <1>9. p[0] = <<>> /\ p[n] = FoldLeft(Declare, <<>>, private)
    <2>1. 1..0 = {} /\ 0 \in 0..n /\ n \in 0..n
      BY <1>1
    <2> QED
      BY <1>7, <1>8, <2>1
  <1>10. ASSUME NEW k \in 0..n, k < n PROVE p[k + 1] = Declare(p[k], private[k + 1])
    <2>1. /\ 1..(k + 1) \in SUBSET (1..n) /\ 1..(k + 1) /= {} /\ Max(1..(k + 1)) = k + 1
          /\ (1..(k + 1)) \ {k + 1} = 1..k
      BY <1>1, <1>10, NextPlace
    <2>2. h[1..(k + 1)] = Declare(h[1..k], private[k + 1])
      BY <1>7, <2>1
    <2>3. k + 1 \in 0..n
      BY <1>1, <1>10
    <2> QED
      BY <2>2, <2>3
  <1> HIDE DEF p
  <1> DEFINE N == {m \in Nat : m <= n => p[m] \in D}
  <1>11. 0 \in N
    BY <1>3, <1>9
  <1>12. \A m \in Nat : m \in N => m + 1 \in N
    <2> SUFFICES ASSUME NEW m \in Nat, m + 1 <= n, p[m] \in D PROVE p[m + 1] \in D
      BY <1>1
    <2>1. m \in 0..n /\ m < n /\ m + 1 \in 1..n
      BY <1>1
    <2> QED
      BY <1>1, <1>2, <1>10, <2>1
  <1> HIDE DEF N
  <1>13. \A m \in Nat : m \in N
    BY <1>11, <1>12, NatInductionSet
  <1>14. \A m \in 0..n : p[m] \in D
    BY <1>1, <1>13 DEF N
  <1> QED
    BY <1>9, <1>10, <1>14 DEF n, D

\* What is kept of the first m declarations: those that are the first of a bit, in
\* the places q.
Kept(b, private, m, q) ==
  /\ q \in [1..Len(b) -> 1..m]
  /\ \A i \in 1..Len(b) :
       /\ b[i] = private[q[i]] /\ b[i].bit /= NoBit
       /\ \A l \in 1..m : private[l].bit = b[i].bit => q[i] <= l
  /\ \A i, j \in 1..Len(b) : i < j => q[i] < q[j]
  /\ \A l \in 1..m : private[l].bit /= NoBit => \E i \in 1..Len(b) : b[i].bit = private[l].bit

LEMMA DeclareKeeps ==
  ASSUME NEW m \in Nat, NEW private, NEW b \in Seq(Declaration), NEW q, Kept(b, private, m, q)
  PROVE  \E r : Kept(Declare(b, private[m + 1]), private, m + 1, r)
  <1> DEFINE s == private[m + 1]
             n == Len(b)
  <1>1. n \in Nat /\ DOMAIN b = 1..n
    OBVIOUS
  <1>2. /\ q \in [1..n -> 1..m]
        /\ \A i \in 1..n : b[i] = private[q[i]] /\ b[i].bit /= NoBit
        /\ \A i \in 1..n : \A l \in 1..m : private[l].bit = b[i].bit => q[i] <= l
        /\ \A i, j \in 1..n : i < j => q[i] < q[j]
        /\ \A l \in 1..m : private[l].bit /= NoBit => \E i \in 1..n : b[i].bit = private[l].bit
    BY DEF Kept
  <1>3. \A l : l \in 1..(m + 1) <=> l \in 1..m \/ l = m + 1
    OBVIOUS
  <1>4. CASE s.bit = NoBit \/ \E i \in 1..n : b[i].bit = s.bit
    <2>1. Declare(b, s) = b
      BY <1>1, <1>4 DEF Declare
    <2>2. q \in [1..n -> 1..(m + 1)]
      BY <1>2, <1>3
    <2>3. \A i \in 1..n : q[i] \in 1..m /\ q[i] <= m + 1
      BY <1>2
    <2>4. \A i \in 1..n : \A l \in 1..(m + 1) : private[l].bit = b[i].bit => q[i] <= l
      BY <1>2, <1>3, <2>3
    <2>5. \A l \in 1..(m + 1) : private[l].bit /= NoBit => \E i \in 1..n : b[i].bit = private[l].bit
      BY <1>2, <1>3, <1>4
    <2>6. Kept(b, private, m + 1, q)
      BY <1>2, <2>2, <2>4, <2>5 DEF Kept
    <2> QED
      BY <2>1, <2>6
  <1>5. CASE s.bit /= NoBit /\ \A i \in 1..n : b[i].bit /= s.bit
    <2> DEFINE e == Append(b, s)
               r == [i \in 1..(n + 1) |-> IF i = n + 1 THEN m + 1 ELSE q[i]]
    <2>1. Declare(b, s) = e
      BY <1>1, <1>5 DEF Declare
    <2>2. /\ Len(e) = n + 1 /\ e[n + 1] = s
          /\ \A i \in 1..n : e[i] = b[i]
      OBVIOUS
    <2>3. \A i : i \in 1..(n + 1) <=> i \in 1..n \/ i = n + 1
      BY <1>1
    <2>4. /\ r \in [1..(n + 1) -> 1..(m + 1)] /\ r[n + 1] = m + 1
          /\ \A i \in 1..n : r[i] = q[i] /\ r[i] \in 1..m
      BY <1>1, <1>2, <1>3, <2>3
    <2>5. n + 1 \in Nat /\ \A i \in 1..n : i /= n + 1
      BY <1>1
    <2> HIDE DEF e, r, n, s
    <2>6. \A i \in 1..(n + 1) : e[i] = private[r[i]] /\ e[i].bit /= NoBit
      <3>1. \A i \in 1..n : e[i] = private[r[i]] /\ e[i].bit /= NoBit
        BY <1>2, <2>2, <2>4
      <3>2. e[n + 1] = private[r[n + 1]] /\ e[n + 1].bit /= NoBit
        BY <1>5, <2>2, <2>4 DEF s
      <3> QED
        BY <2>3, <3>1, <3>2
    <2>7. \A i \in 1..(n + 1) : \A l \in 1..(m + 1) : private[l].bit = e[i].bit => r[i] <= l
      <3>1. ASSUME NEW i \in 1..n, NEW l \in 1..(m + 1), private[l].bit = e[i].bit PROVE r[i] <= l
        <4>1. CASE l \in 1..m
          BY <1>2, <2>2, <2>4, <3>1, <4>1
        <4>2. CASE l = m + 1
          BY <1>5, <2>2, <3>1, <4>2 DEF s
        <4> QED
          BY <1>3, <4>1, <4>2
      <3>2. ASSUME NEW l \in 1..(m + 1), private[l].bit = e[n + 1].bit PROVE r[n + 1] <= l
        <4>1. CASE l \in 1..m
          BY <1>2, <1>5, <2>2, <3>2, <4>1
        <4>2. CASE l = m + 1
          BY <2>4, <4>2
        <4> QED
          BY <1>3, <4>1, <4>2
      <3> QED
        BY <2>3, <3>1, <3>2
    <2>8. \A i, j \in 1..(n + 1) : i < j => r[i] < r[j]
      <3> SUFFICES ASSUME NEW i \in 1..(n + 1), NEW j \in 1..(n + 1), i < j PROVE r[i] < r[j]
        OBVIOUS
      <3>1. i \in 1..n
        BY <1>1, <2>3
      <3>2. CASE j \in 1..n
        BY <1>2, <2>4, <3>1, <3>2
      <3>3. CASE j = n + 1
        BY <2>4, <3>1, <3>3
      <3> QED
        BY <2>3, <3>2, <3>3
    <2>9. \A l \in 1..(m + 1) : private[l].bit /= NoBit => \E i \in 1..(n + 1) : e[i].bit = private[l].bit
      <3> SUFFICES ASSUME NEW l \in 1..(m + 1), private[l].bit /= NoBit
                   PROVE  \E i \in 1..(n + 1) : e[i].bit = private[l].bit
        OBVIOUS
      <3>1. CASE l \in 1..m
        BY <1>2, <2>2, <2>3, <3>1
      <3>2. CASE l = m + 1
        BY <2>2, <2>3, <3>2 DEF s
      <3> QED
        BY <1>3, <3>1, <3>2
    <2>10. Kept(e, private, m + 1, r)
      BY <2>2, <2>4, <2>6, <2>7, <2>8, <2>9 DEF Kept
    <2> QED
      BY <2>1, <2>10 DEF s
  <1> QED
    BY <1>1, <1>4, <1>5

LEMMA RxStatusKeeps ==
  ASSUME NEW ied, ied.private \in Seq(Declaration)
  PROVE  /\ RxStatusOf(ied) \in Seq(Declaration)
         /\ \E q : Kept(RxStatusOf(ied), ied.private, Len(ied.private), q)
  <1> DEFINE private == ied.private
             n == Len(private)
  <1>1. PICK p : /\ p[0] = <<>> /\ p[n] = RxStatusOf(ied)
                 /\ \A k \in 0..n : /\ p[k] \in Seq(Declaration)
                                    /\ k < n => p[k + 1] = Declare(p[k], private[k + 1])
    BY DeclarePrefixes DEF RxStatusOf
  <1>2. n \in Nat
    OBVIOUS
  <1> HIDE DEF n, private
  <1> DEFINE N == {m \in Nat : m <= n => \E q : Kept(p[m], private, m, q)}
  <1>3. 0 \in N
    <2>1. Len(<<>>) = 0 /\ \A i : i \notin 1..0
      OBVIOUS
    <2> DEFINE q == [i \in 1..Len(<<>>) |-> 1]
    <2>2. q \in [1..Len(<<>>) -> 1..0]
      BY <2>1
    <2> HIDE DEF q
    <2>3. Kept(<<>>, private, 0, q)
      BY <2>1, <2>2 DEF Kept
    <2> QED
      BY <1>1, <2>3
  <1>4. \A m \in Nat : m \in N => m + 1 \in N
    <2> DEFINE KeptAt(m) == \E q : Kept(p[m], private, m, q)
    <2>0. \A m \in Nat : m \in N <=> (m <= n => KeptAt(m))
      OBVIOUS
    <2> HIDE DEF N, KeptAt
    <2> SUFFICES ASSUME NEW m \in Nat, m \in N, m + 1 <= n PROVE KeptAt(m + 1)
      BY <2>0
    <2>3. m \in 0..n /\ m < n /\ m <= n
      BY <1>2
    <2>4. PICK q : Kept(p[m], private, m, q)
      BY <2>0, <2>3 DEF KeptAt
    <2>1. p[m] \in Seq(Declaration) /\ p[m + 1] = Declare(p[m], private[m + 1])
      BY <1>1, <2>3
    <2>2. \E r : Kept(Declare(p[m], private[m + 1]), private, m + 1, r)
      BY <2>1, <2>4, DeclareKeeps
    <2> QED
      BY <2>1, <2>2 DEF KeptAt
  <1> HIDE DEF N
  <1>5. n \in N
    BY <1>2, <1>3, <1>4, NatInductionSet
  <1>6. \E q : Kept(p[n], private, n, q)
    BY <1>2, <1>5 DEF N
  <1>7. RxStatusOf(ied) \in Seq(Declaration)
    BY <1>1, <1>2
  <1> QED
    BY <1>1, <1>6, <1>7 DEF n, private

\* The subscriptions, of which no two have one control block.
Sub(e, cb) ==
  [key |-> e.source_key, int_addr |-> e.int_addr,
   rx_status_bit |-> IF e.source_key \in DOMAIN cb THEN cb[e.source_key] ELSE NoBit]

LEMMA SubscribePrefixes ==
  ASSUME NEW ext_refs \in Seq(ExtRef), NEW cb
  PROVE  \E p : /\ p[0] = <<>>
                /\ p[Len(ext_refs)] =
                     FoldLeft(LAMBDA subs, ext : Subscribe(subs, ext, cb), <<>>, ext_refs)
                /\ \A k \in 0..Len(ext_refs) :
                     /\ p[k] \in Seq({Sub(e, cb) : e \in ExtRef})
                     /\ k < Len(ext_refs) => p[k + 1] = Subscribe(p[k], ext_refs[k + 1], cb)
  <1> DEFINE n == Len(ext_refs)
             T == {Sub(e, cb) : e \in ExtRef}
             D == Seq(T)
             F == [x \in D \X ExtRef |-> Subscribe(x[1], x[2], cb)]
             Iter(g) == g = [s \in SUBSET (1..n) |->
                               IF s = {} THEN <<>>
                               ELSE Subscribe(g[s \ {Max(s)}], ext_refs[Max(s)], cb)]
  <1>1. /\ n \in Nat /\ DOMAIN ext_refs = 1..n
        /\ \A i \in 1..n : ext_refs[i] \in ExtRef
    OBVIOUS
  <1>2. \A b \in D, s \in ExtRef : Subscribe(b, s, cb) \in D
    <2> SUFFICES ASSUME NEW b \in D, NEW s \in ExtRef PROVE Subscribe(b, s, cb) \in D
      OBVIOUS
    <2>1. Subscribe(b, s, cb) = b \/ Subscribe(b, s, cb) = Append(b, Sub(s, cb))
      BY DEF Subscribe, Sub
    <2>2. Sub(s, cb) \in T
      OBVIOUS
    <2> HIDE DEF T
    <2> QED
      BY <2>1, <2>2
  <1>3. <<>> \in D
    OBVIOUS
  <1> HIDE DEF n, D, T
  <1>4. F \in [D \X ExtRef -> D]
    BY <1>2
  <1> HIDE DEF F
  <1>5. PICK g : FoldIn(n, D, F, <<>>, ext_refs, g)
    <2>1. CanFold(n, D, ExtRef, F, <<>>, ext_refs)
      BY <1>1, <1>3, <1>4 DEF CanFold
    <2> QED
      BY <2>1, FoldExists
  <1>6. Iter(g)
    <2>1. ASSUME NEW s \in SUBSET (1..n), s /= {}
          PROVE  FoldStep(F, <<>>, ext_refs, g, s) = Subscribe(g[s \ {Max(s)}], ext_refs[Max(s)], cb)
      <3>1. Max(s) \in 1..n
        BY <1>1, <2>1, MaxIsIn
      <3>2. ext_refs[Max(s)] \in ExtRef /\ g[s \ {Max(s)}] \in D
        BY <1>1, <1>5, <3>1 DEF FoldIn
      <3> QED
        BY <2>1, <3>1, <3>2 DEF FoldStep, F
    <2>2. ASSUME NEW s \in SUBSET (1..n)
          PROVE  FoldStep(F, <<>>, ext_refs, g, s) =
                   IF s = {} THEN <<>> ELSE Subscribe(g[s \ {Max(s)}], ext_refs[Max(s)], cb)
      BY <2>1 DEF FoldStep
    <2> QED
      BY <1>5, <2>2 DEF FoldIn, FoldOver
  <1> DEFINE h == CHOOSE x : Iter(x)
             folded == FoldLeft(LAMBDA subs, ext : Subscribe(subs, ext, cb), <<>>, ext_refs)
  <1>7. Iter(h)
    BY <1>6
  <1>8. folded = h[1..n]
    BY <1>1 DEF FoldLeft, MapThenFoldSet
  <1> HIDE DEF h, folded
  <1> DEFINE p == [k \in 0..n |-> h[1..k]]
  <1>9. p[0] = <<>> /\ p[n] = folded
    <2>1. 1..0 = {} /\ 0 \in 0..n /\ n \in 0..n
      BY <1>1
    <2> QED
      BY <1>7, <1>8, <2>1
  <1>10. ASSUME NEW k \in 0..n, k < n PROVE p[k + 1] = Subscribe(p[k], ext_refs[k + 1], cb)
    <2>1. /\ 1..(k + 1) \in SUBSET (1..n) /\ 1..(k + 1) /= {} /\ Max(1..(k + 1)) = k + 1
          /\ (1..(k + 1)) \ {k + 1} = 1..k
      BY <1>1, <1>10, NextPlace
    <2>2. h[1..(k + 1)] = Subscribe(h[1..k], ext_refs[k + 1], cb)
      BY <1>7, <2>1
    <2>3. k + 1 \in 0..n
      BY <1>1, <1>10
    <2> QED
      BY <2>2, <2>3
  <1> HIDE DEF p
  <1> DEFINE N == {m \in Nat : m <= n => p[m] \in D}
  <1>11. 0 \in N
    BY <1>3, <1>9
  <1>12. \A m \in Nat : m \in N => m + 1 \in N
    <2> SUFFICES ASSUME NEW m \in Nat, m + 1 <= n, p[m] \in D PROVE p[m + 1] \in D
      BY <1>1
    <2>1. m \in 0..n /\ m < n /\ m + 1 \in 1..n
      BY <1>1
    <2> QED
      BY <1>1, <1>2, <1>10, <2>1
  <1> HIDE DEF N
  <1>13. \A m \in Nat : m \in N
    BY <1>11, <1>12, NatInductionSet
  <1>14. \A m \in 0..n : p[m] \in D
    BY <1>1, <1>13 DEF N
  <1> QED
    BY <1>9, <1>10, <1>14 DEF n, D, T, folded

\* Each subscription is of a control block of its own, and has its bit.
OneEach(subs, cb) ==
  /\ \A i \in 1..Len(subs) :
       subs[i].rx_status_bit = IF subs[i].key \in DOMAIN cb THEN cb[subs[i].key] ELSE NoBit
  /\ \A i, j \in 1..Len(subs) : i /= j => subs[i].key /= subs[j].key

LEMMA SubscribeOneEach ==
  ASSUME NEW subs, NEW cb, NEW T, subs \in Seq(T), OneEach(subs, cb), NEW e
  PROVE  OneEach(Subscribe(subs, e, cb), cb)
  <1>1. CASE Subscribe(subs, e, cb) = subs
    BY <1>1
  <1>2. CASE /\ \A i \in DOMAIN subs : subs[i].key /= e.source_key
             /\ Subscribe(subs, e, cb) = Append(subs, Sub(e, cb))
    <2> DEFINE s == Sub(e, cb)
               n == Len(subs)
               a == Append(subs, s)
    <2>1. n \in Nat /\ DOMAIN subs = 1..n
      OBVIOUS
    <2>2. Len(a) = n + 1 /\ a[n + 1] = s /\ \A i \in 1..n : a[i] = subs[i]
      OBVIOUS
    <2>3. \A i : i \in 1..(n + 1) <=> i \in 1..n \/ i = n + 1
      BY <2>1
    <2>4. s.key = e.source_key
          /\ s.rx_status_bit = IF s.key \in DOMAIN cb THEN cb[s.key] ELSE NoBit
      BY DEF Sub
    <2> HIDE DEF s, a, n
    <2>5. \A i \in 1..(n + 1) :
            a[i].rx_status_bit = IF a[i].key \in DOMAIN cb THEN cb[a[i].key] ELSE NoBit
      BY <2>2, <2>3, <2>4 DEF OneEach, n
    <2>6. \A i, j \in 1..(n + 1) : i /= j => a[i].key /= a[j].key
      BY <1>2, <2>1, <2>2, <2>3, <2>4 DEF OneEach, n
    <2> QED
      BY <1>2, <2>2, <2>5, <2>6 DEF OneEach, a, s
  <1> QED
    BY <1>1, <1>2 DEF Subscribe, Sub

LEMMA SubscriptionsOneEach ==
  ASSUME NEW ied, ied.ext_refs \in Seq(ExtRef), NEW rx
  PROVE  /\ \E T : SubscriptionsOf(ied, rx) \in Seq(T)
         /\ OneEach(SubscriptionsOf(ied, rx), RxByCb(rx))
  <1> DEFINE refs == ied.ext_refs
             n == Len(refs)
             cb == RxByCb(rx)
             T == {Sub(e, cb) : e \in ExtRef}
  <1>1. PICK p : /\ p[0] = <<>> /\ p[n] = SubscriptionsOf(ied, rx)
                 /\ \A k \in 0..n : /\ p[k] \in Seq(T)
                                    /\ k < n => p[k + 1] = Subscribe(p[k], refs[k + 1], cb)
    BY SubscribePrefixes DEF SubscriptionsOf
  <1>2. n \in Nat
    OBVIOUS
  <1> HIDE DEF n, refs, cb, T
  <1> DEFINE N == {m \in Nat : m <= n => OneEach(p[m], cb)}
  <1>3. 0 \in N
    <2>1. Len(<<>>) = 0 /\ \A i : i \notin 1..0
      OBVIOUS
    <2>2. OneEach(<<>>, cb)
      BY <2>1 DEF OneEach
    <2> QED
      BY <1>1, <2>2
  <1>4. \A m \in Nat : m \in N => m + 1 \in N
    <2> SUFFICES ASSUME NEW m \in Nat, m + 1 <= n, OneEach(p[m], cb) PROVE OneEach(p[m + 1], cb)
      BY <1>2
    <2>1. m \in 0..n /\ m < n
      BY <1>2
    <2>2. p[m] \in Seq(T) /\ p[m + 1] = Subscribe(p[m], refs[m + 1], cb)
      BY <1>1, <2>1
    <2> QED
      BY <2>2, SubscribeOneEach
  <1> HIDE DEF N
  <1>5. n \in N
    BY <1>2, <1>3, <1>4, NatInductionSet
  <1>6. OneEach(p[n], cb)
    BY <1>2, <1>5 DEF N
  <1>7. n \in 0..n
    BY <1>2
  <1> QED
    BY <1>1, <1>6, <1>7 DEF cb

\* The first place of a bit that is kept is the one it is kept from.
LEMMA FirstOfKept ==
  ASSUME NEW private \in Seq(Declaration), NEW rx, NEW q, Kept(rx, private, Len(private), q),
         NEW i \in 1..Len(rx)
  PROVE  Min({l \in DOMAIN private : private[l].bit = rx[i].bit}) = q[i]
  <1> DEFINE n == Len(private)
             S == {l \in DOMAIN private : private[l].bit = rx[i].bit}
  <1>1. DOMAIN private = 1..n /\ n \in Nat
    OBVIOUS
  <1>2. q[i] \in S /\ \A l \in S : q[i] <= l
    BY <1>1 DEF Kept
  <1>3. S \subseteq Nat
    BY <1>1
  <1> HIDE DEF S
  <1> QED
    BY <1>2, <1>3 DEF Min, S

\* The bit of a control block is the last of those kept for it.
LEMMA BitOfBlock ==
  ASSUME NEW rx \in Seq(Declaration), NEW key \in DOMAIN RxByCb(rx)
  PROVE  \E i \in 1..Len(rx) :
           /\ rx[i].key = key /\ RxByCb(rx)[key] = rx[i].bit
           /\ \A j \in 1..Len(rx) : rx[j].key = key => j <= i
  <1> DEFINE n == Len(rx)
             S == {i \in DOMAIN rx : rx[i].key = key}
  <1>1. DOMAIN rx = 1..n /\ n \in Nat
    OBVIOUS
  <1>2. S \in SUBSET (1..n) /\ S /= {} /\ RxByCb(rx)[key] = rx[Max(S)].bit
    BY <1>1 DEF RxByCb
  <1>3. Max(S) \in S /\ \A j \in S : j <= Max(S)
    BY <1>1, <1>2, MaxIsIn
  <1> QED
    BY <1>1, <1>2, <1>3

LEMMA HealthFacts ==
  ASSUME NEW ied, ied.private \in Seq(Declaration), NEW rx \in Seq(Declaration), NEW q,
         Kept(rx, ied.private, Len(ied.private), q),
         NEW T, NEW subs \in Seq(T), OneEach(subs, RxByCb(rx))
  PROVE  HealthOfItsPublisher(ied, subs)
  <1> DEFINE private == ied.private
             n == Len(private)
             r == Len(rx)
             cb == RxByCb(rx)
             FirstOf(bit) == Min({i \in DOMAIN private : private[i].bit = bit})
             bits == {private[i].bit : i \in DOMAIN private} \ {NoBit}
             Shown == 1..Len(subs)
  <1>1. /\ r \in Nat /\ DOMAIN private = 1..n /\ DOMAIN subs = Shown
        /\ q \in [1..r -> 1..n] /\ n \in Nat /\ DOMAIN rx = 1..r
    BY DEF Kept
  <1>2. \A i \in 1..r : FirstOf(rx[i].bit) = q[i]
    BY FirstOfKept
  <1>3. /\ \A i \in 1..r : rx[i] = private[q[i]] /\ rx[i].bit /= NoBit /\ q[i] \in 1..n
        /\ \A i, j \in 1..r : i < j => q[i] < q[j]
        /\ \A l \in 1..n : private[l].bit /= NoBit => \E i \in 1..r : rx[i].bit = private[l].bit
    BY <1>1 DEF Kept
  <1>4. \A key \in DOMAIN cb : \E i \in 1..r : /\ rx[i].key = key /\ cb[key] = rx[i].bit
                                               /\ \A j \in 1..r : rx[j].key = key => j <= i
    BY BitOfBlock
  <1>5. \A i \in 1..r : rx[i].key \in DOMAIN cb
    BY <1>1 DEF RxByCb
  <1>6. /\ \A k \in Shown :
             subs[k].rx_status_bit = IF subs[k].key \in DOMAIN cb THEN cb[subs[k].key] ELSE NoBit
        /\ \A k, m \in Shown : k /= m => subs[k].key /= subs[m].key
    BY DEF OneEach
  <1>7. bits = {private[i].bit : i \in 1..n} \ {NoBit}
    BY <1>1
  <1> HIDE DEF private, n, r, cb, FirstOf, bits, Shown
  <1>8. ASSUME NEW k \in Shown, subs[k].rx_status_bit /= NoBit
        PROVE  private[FirstOf(subs[k].rx_status_bit)].key = subs[k].key
    <2>1. PICK i \in 1..r : rx[i].key = subs[k].key /\ subs[k].rx_status_bit = rx[i].bit
      BY <1>4, <1>6, <1>8
    <2> QED
      BY <1>2, <1>3, <2>1
  <1>9. ASSUME NEW k \in Shown, NEW m \in Shown, k /= m
        PROVE  /\ subs[k].key /= subs[m].key
               /\ subs[k].rx_status_bit /= subs[m].rx_status_bit \/ subs[k].rx_status_bit = NoBit
    BY <1>6, <1>8, <1>9
  <1>10. ASSUME NEW bit \in bits, NEW k \in Shown, subs[k].key = private[FirstOf(bit)].key,
                \A other \in bits :
                  private[FirstOf(other)].key = subs[k].key => FirstOf(other) <= FirstOf(bit)
         PROVE  subs[k].rx_status_bit = bit
    <2>1. PICK i \in 1..r : rx[i].bit = bit
      BY <1>3, <1>7
    <2>2. FirstOf(bit) = q[i] /\ rx[i].key = subs[k].key
      BY <1>2, <1>3, <1>10, <2>1
    <2>3. PICK m \in 1..r : /\ rx[m].key = subs[k].key /\ cb[subs[k].key] = rx[m].bit
                            /\ i <= m
      BY <1>4, <1>5, <2>2
    <2>4. rx[m].bit \in bits /\ FirstOf(rx[m].bit) = q[m] /\ private[q[m]] = rx[m]
      BY <1>2, <1>3, <1>7
    <2>5. q[m] <= q[i]
      BY <1>10, <2>2, <2>3, <2>4
    <2>6. q[i] \in Nat /\ q[m] \in Nat /\ i \in Nat /\ m \in Nat /\ (i < m => q[i] < q[m])
      BY <1>1, <1>3
    <2>7. i = m
      BY <2>3, <2>5, <2>6
    <2>8. subs[k].key \in DOMAIN cb
      BY <1>5, <2>2
    <2> QED
      BY <1>6, <2>1, <2>3, <2>7, <2>8
  <1> QED
    BY <1>1, <1>8, <1>9, <1>10 DEF HealthOfItsPublisher, FirstOf, bits, private

LEMMA HealthOfSubscriptions ==
  ASSUME NEW doc \in GooseDocs, NEW n \in DOMAIN doc, doc[n].resolves
  PROVE  HealthOfItsPublisher(doc[n],
           IF n \in DOMAIN SelGooseSubscriptions(doc) THEN SelGooseSubscriptions(doc)[n] ELSE <<>>)
  <1> DEFINE ied == doc[n]
             rx == RxStatusOf(ied)
             subs == SubscriptionsOf(ied, rx)
             status == SelGooseRxStatus(doc)
             read == SelGooseSubscriptions(doc)
  <1>1. ied.private \in Seq(Declaration) /\ ied.ext_refs \in Seq(ExtRef)
    BY ReadersAssumption
  <1>2. rx \in Seq(Declaration) /\ \E q : Kept(rx, ied.private, Len(ied.private), q)
    BY <1>1, RxStatusKeeps
  <1>3. (\E T : subs \in Seq(T)) /\ OneEach(subs, RxByCb(rx))
    BY <1>1, SubscriptionsOneEach
  <1>4. HealthOfItsPublisher(ied, subs)
    BY <1>1, <1>2, <1>3, HealthFacts
  <1>5. (IF n \in DOMAIN status THEN status[n] ELSE <<>>) = rx
    BY DEF SelGooseRxStatus
  <1> HIDE DEF rx, status
  <1>6. (IF n \in DOMAIN read THEN read[n] ELSE <<>>) = subs
    BY <1>5 DEF SelGooseSubscriptions, status
  <1> QED
    BY <1>4, <1>6 DEF read

\* sel_goose_subscriptions: whatever the declarations and the ExtRefs of a document
\* are, the bit that is shown for a subscription is one whose first declaration
\* names its publisher, no two subscriptions have one bit, and of the bits of a
\* control block the last is shown.
THEOREM HealthIsOfThePublisher == Spec => []HealthOfPublisher
  <1>1. ReplyInv => HealthOfPublisher
    <2> SUFFICES ASSUME ReplyInv, Answered("goose") PROVE HealthOfPublisher
      BY DEF HealthOfPublisher
    <2> DEFINE doc == call.doc
    <2>1. doc \in GooseDocs /\ answer = SelGooseSubscriptions(doc)
      BY CallOf DEF ReplyInv, Reply, Answered
    <2>2. \A r \in DOMAIN answer : doc[r].resolves
      BY <2>1 DEF SelGooseSubscriptions
    <2>3. \A r \in DOMAIN doc : doc[r].resolves =>
            HealthOfItsPublisher(doc[r], IF r \in DOMAIN answer THEN answer[r] ELSE <<>>)
      BY <2>1, HealthOfSubscriptions
    <2> QED
      BY <2>2, <2>3 DEF HealthOfPublisher
  <1> QED
    BY <1>1, Replies, PTL

-----------------------------------------------------------------------------
(* Points: where a bit is read *)

Dict(N, P) == UNION {[S -> P] : S \in SUBSET N}
NamesAt(attrs, a) == ParseSaddr(attrs[a].s_addr).names
RankAt(attrs, a) == DaRank(attrs[a].da, Decorated(attrs, a))
PointAt(attrs, a, i) ==
  [at |-> a, rank |-> RankAt(attrs, a), rule |-> RuleFor(ParseSaddr(attrs[a].s_addr), i - 1)]

LEMMA TakesIntoDict ==
  ASSUME NEW N, NEW P, NEW bits \in Dict(N, P), NEW name \in N, NEW point \in P
  PROVE  TakeBetter(bits, name, point) \in Dict(N, P)
  <1>1. PICK S \in SUBSET N : bits \in [S -> P]
    BY DEF Dict
  <1>2. With(bits, name, point) \in [S \cup {name} -> P]
    BY <1>1 DEF With
  <1>3. With(bits, name, point) \in Dict(N, P)
    BY <1>2 DEF Dict
  <1> QED
    BY <1>3 DEF TakeBetter

\* p is what the first bits of an attribute make of a dictionary, for each number.
AreOffers(p, bits, attrs, a, n, D) ==
  /\ p[0] = bits /\ p[n] = Offer(bits, attrs, a)
  /\ \A k \in 0..n :
       /\ p[k] \in D
       /\ k < n => p[k + 1] = TakeBetter(p[k], NamesAt(attrs, a)[k + 1], PointAt(attrs, a, k + 1))

LEMMA OfferPrefixes ==
  ASSUME NEW attrs, NEW a, NEW n \in Nat, DOMAIN NamesAt(attrs, a) = 1..n, NEW N, NEW P,
         \A i \in 1..n : NamesAt(attrs, a)[i] \in N /\ PointAt(attrs, a, i) \in P,
         NEW bits \in Dict(N, P)
  PROVE  \E p : AreOffers(p, bits, attrs, a, n, Dict(N, P))
  <1> DEFINE names == NamesAt(attrs, a)
             D == Dict(N, P)
             Step(b, i) == TakeBetter(b, names[i], PointAt(attrs, a, i))
             F == [x \in D \X (1..n) |-> Step(x[1], x[2])]
             seq == [i \in DOMAIN names |-> i]
             Iter(g) == g = [s \in SUBSET (1..n) |->
                               IF s = {} THEN bits ELSE Step(g[s \ {Max(s)}], Max(s))]
  <1>1. \A b \in D, i \in 1..n : Step(b, i) \in D
    BY TakesIntoDict
  <1>2. DOMAIN seq = 1..n /\ \A i \in 1..n : seq[i] = i
    OBVIOUS
  <1> HIDE DEF D, Step
  <1>3. F \in [D \X (1..n) -> D]
    BY <1>1
  <1> HIDE DEF F, seq
  <1>5. PICK g : FoldIn(n, D, F, bits, seq, g)
    <2>1. CanFold(n, D, 1..n, F, bits, seq)
      BY <1>2, <1>3 DEF CanFold, D
    <2> QED
      BY <2>1, FoldExists
  <1>6. Iter(g)
    <2>1. ASSUME NEW s \in SUBSET (1..n), s /= {}
          PROVE  FoldStep(F, bits, seq, g, s) = Step(g[s \ {Max(s)}], Max(s))
      <3>1. Max(s) \in 1..n
        BY <2>1, MaxIsIn
      <3>2. seq[Max(s)] = Max(s) /\ g[s \ {Max(s)}] \in D
        BY <1>2, <1>5, <3>1 DEF FoldIn
      <3> QED
        BY <2>1, <3>1, <3>2 DEF FoldStep, F
    <2>2. ASSUME NEW s \in SUBSET (1..n)
          PROVE  FoldStep(F, bits, seq, g, s) =
                   IF s = {} THEN bits ELSE Step(g[s \ {Max(s)}], Max(s))
      BY <2>1 DEF FoldStep
    <2> QED
      BY <1>5, <2>2 DEF FoldIn, FoldOver
  <1> DEFINE h == CHOOSE x : Iter(x)
  <1>7. Iter(h)
    BY <1>6
  <1>8. Offer(bits, attrs, a) = h[1..n]
    <2>1. \A s \in SUBSET (1..n) : s /= {} => seq[Max(s)] = Max(s)
      BY <1>2, MaxIsIn
    <2> DEFINE Over(x) == x = [s \in SUBSET DOMAIN seq |->
                                 IF s = {} THEN bits ELSE Step(x[s \ {Max(s)}], seq[Max(s)])]
    <2>2. ASSUME NEW x PROVE Over(x) <=> Iter(x)
      <3>1. \A s \in SUBSET (1..n) :
              (IF s = {} THEN bits ELSE Step(x[s \ {Max(s)}], seq[Max(s)])) =
              (IF s = {} THEN bits ELSE Step(x[s \ {Max(s)}], Max(s)))
        BY <2>1
      <3> QED
        BY <1>2, <3>1
    <2> HIDE DEF Over, Iter
    <2>3. (CHOOSE x : Over(x)) = h
      BY <2>2
    <2>4. Offer(bits, attrs, a) = (CHOOSE x : Over(x))[DOMAIN seq]
      BY DEF Offer, FoldLeft, MapThenFoldSet, Over, Step, seq, NamesAt, PointAt, RankAt, Decorated
    <2> QED
      BY <1>2, <2>3, <2>4
  <1> HIDE DEF h
  <1> DEFINE p == [k \in 0..n |-> h[1..k]]
  <1>9. p[0] = bits /\ p[n] = Offer(bits, attrs, a)
    <2>1. 1..0 = {} /\ 0 \in 0..n /\ n \in 0..n
      OBVIOUS
    <2> QED
      BY <1>7, <1>8, <2>1
  <1>10. ASSUME NEW k \in 0..n, k < n PROVE p[k + 1] = Step(p[k], k + 1)
    <2>0. /\ 1..(k + 1) \in SUBSET (1..n) /\ 1..(k + 1) /= {} /\ Max(1..(k + 1)) = k + 1
          /\ (1..(k + 1)) \ {k + 1} = 1..k
      BY <1>10, NextPlace
    <2>1. h[1..(k + 1)] = Step(h[1..k], k + 1)
      BY <1>7, <2>0
    <2>2. k + 1 \in 0..n
      BY <1>10
    <2> QED
      BY <2>1, <2>2
  <1> HIDE DEF p
  <1> DEFINE M == {m \in Nat : m <= n => p[m] \in D}
  <1>11. 0 \in M
    BY <1>9 DEF D
  <1>12. \A m \in Nat : m \in M => m + 1 \in M
    <2> SUFFICES ASSUME NEW m \in Nat, m + 1 <= n, p[m] \in D PROVE p[m + 1] \in D
      OBVIOUS
    <2>1. m \in 0..n /\ m < n /\ m + 1 \in 1..n
      OBVIOUS
    <2> QED
      BY <1>1, <1>10, <2>1
  <1> HIDE DEF M
  <1>13. \A m \in Nat : m \in M
    BY <1>11, <1>12, NatInductionSet
  <1>14. \A m \in 0..n : p[m] \in D
    BY <1>13 DEF M
  <1> QED
    BY <1>9, <1>10, <1>14 DEF AreOffers, D, Step, names

OffersInto(attrs, n, D) == \A bits \in D, a \in 1..n : Offer(bits, attrs, a) \in D

LEMMA PointsPrefixes ==
  ASSUME NEW attrs, NEW n \in Nat, DOMAIN attrs = 1..n, NEW N, NEW P,
         OffersInto(attrs, n, Dict(N, P))
  PROVE  \E p : /\ p[0] = Empty /\ p[n] = PointsOf(attrs)
                /\ \A k \in 0..n : /\ p[k] \in Dict(N, P)
                                   /\ k < n => p[k + 1] = Offer(p[k], attrs, k + 1)
  <1> DEFINE D == Dict(N, P)
             F == [x \in D \X (1..n) |-> Offer(x[1], attrs, x[2])]
             seq == [a \in DOMAIN attrs |-> a]
             Iter(g) == g = [s \in SUBSET (1..n) |->
                               IF s = {} THEN Empty ELSE Offer(g[s \ {Max(s)}], attrs, Max(s))]
  <1>1. Empty \in D
    <2>1. Empty \in [{} -> P] /\ {} \in SUBSET N
      BY DEF Empty
    <2> QED
      BY <2>1 DEF Dict
  <1>2. DOMAIN seq = 1..n /\ \A i \in 1..n : seq[i] = i
    OBVIOUS
  <1> HIDE DEF D
  <1>3. F \in [D \X (1..n) -> D]
    BY DEF D, OffersInto
  <1> HIDE DEF F, seq
  <1>5. PICK g : FoldIn(n, D, F, Empty, seq, g)
    <2>1. CanFold(n, D, 1..n, F, Empty, seq)
      BY <1>1, <1>2, <1>3 DEF CanFold
    <2> QED
      BY <2>1, FoldExists
  <1>6. Iter(g)
    <2>1. ASSUME NEW s \in SUBSET (1..n), s /= {}
          PROVE  FoldStep(F, Empty, seq, g, s) = Offer(g[s \ {Max(s)}], attrs, Max(s))
      <3>1. Max(s) \in 1..n
        BY <2>1, MaxIsIn
      <3>2. seq[Max(s)] = Max(s) /\ g[s \ {Max(s)}] \in D
        BY <1>2, <1>5, <3>1 DEF FoldIn
      <3> QED
        BY <2>1, <3>1, <3>2 DEF FoldStep, F
    <2>2. ASSUME NEW s \in SUBSET (1..n)
          PROVE  FoldStep(F, Empty, seq, g, s) =
                   IF s = {} THEN Empty ELSE Offer(g[s \ {Max(s)}], attrs, Max(s))
      BY <2>1 DEF FoldStep
    <2> QED
      BY <1>5, <2>2 DEF FoldIn, FoldOver
  <1> DEFINE h == CHOOSE x : Iter(x)
  <1>7. Iter(h)
    BY <1>6
  <1>8. PointsOf(attrs) = h[1..n]
    <2>1. \A s \in SUBSET (1..n) : s /= {} => seq[Max(s)] = Max(s)
      BY <1>2, MaxIsIn
    <2> DEFINE Over(x) == x = [s \in SUBSET DOMAIN seq |->
                                 IF s = {} THEN Empty ELSE Offer(x[s \ {Max(s)}], attrs, seq[Max(s)])]
    <2>2. \A x : Over(x) <=> Iter(x)
      BY <1>2, <2>1
    <2> HIDE DEF Over, Iter
    <2>3. (CHOOSE x : Over(x)) = h
      BY <2>2
    <2>4. PointsOf(attrs) = (CHOOSE x : Over(x))[DOMAIN seq]
      BY DEF PointsOf, FoldLeft, MapThenFoldSet, Over, seq
    <2> QED
      BY <1>2, <2>3, <2>4
  <1> HIDE DEF h
  <1> DEFINE p == [k \in 0..n |-> h[1..k]]
  <1>9. p[0] = Empty /\ p[n] = PointsOf(attrs)
    <2>1. 1..0 = {} /\ 0 \in 0..n /\ n \in 0..n
      OBVIOUS
    <2> QED
      BY <1>7, <1>8, <2>1
  <1>10. ASSUME NEW k \in 0..n, k < n PROVE p[k + 1] = Offer(p[k], attrs, k + 1)
    <2>0. /\ 1..(k + 1) \in SUBSET (1..n) /\ 1..(k + 1) /= {} /\ Max(1..(k + 1)) = k + 1
          /\ (1..(k + 1)) \ {k + 1} = 1..k
      BY <1>10, NextPlace
    <2>1. h[1..(k + 1)] = Offer(h[1..k], attrs, k + 1)
      BY <1>7, <2>0
    <2>2. k + 1 \in 0..n
      BY <1>10
    <2> QED
      BY <2>1, <2>2
  <1> HIDE DEF p
  <1> DEFINE M == {m \in Nat : m <= n => p[m] \in D}
  <1>11. 0 \in M
    BY <1>1, <1>9
  <1>12. \A m \in Nat : m \in M => m + 1 \in M
    <2> SUFFICES ASSUME NEW m \in Nat, m + 1 <= n, p[m] \in D PROVE p[m + 1] \in D
      OBVIOUS
    <2>1. m \in 0..n /\ m < n /\ m + 1 \in 1..n
      OBVIOUS
    <2> QED
      BY <1>10, <2>1 DEF D, OffersInto
  <1> HIDE DEF M
  <1>13. \A m \in Nat : m \in M
    BY <1>11, <1>12, NatInductionSet
  <1>14. \A m \in 0..n : p[m] \in D
    BY <1>13 DEF M
  <1> QED
    BY <1>9, <1>10, <1>14 DEF D

\* Of all the addresses seen, pairs of an attribute and a bit, each bit is at one
\* of the least rank and, of those, the first.
Best(bits, attrs, seen) ==
  /\ \A bit : bit \in DOMAIN bits <=> \E a : <<a, bit>> \in seen
  /\ \A bit \in DOMAIN bits :
       /\ <<bits[bit].at, bit>> \in seen
       /\ bits[bit].rank = RankAt(attrs, bits[bit].at)
       /\ bits[bit].rule /= NoRule <=> Decorated(attrs, bits[bit].at)
       /\ \A a : <<a, bit>> \in seen =>
            \/ bits[bit].rank < RankAt(attrs, a)
            \/ bits[bit].rank = RankAt(attrs, a) /\ bits[bit].at <= a
Ranked(attrs, seen) == \A s \in seen : s[1] \in Nat /\ RankAt(attrs, s[1]) \in Nat

LEMMA RankIs ==
  ASSUME NEW da, NEW dec \in BOOLEAN
  PROVE  /\ DaRank(da, dec) \in 0..3
         /\ IsControl(da) <=> DaRank(da, dec) = 3
         /\ ~dec /\ IsBooleanStatus(da) <=> DaRank(da, dec) = 0
         /\ dec /\ (IsEnumStatus(da) \/ IsBooleanStatus(da)) <=> DaRank(da, dec) = 1
  <1>1. IsEnumStatus(da) \/ IsBooleanStatus(da) => ~IsControl(da)
    BY DEF IsControl, IsEnumStatus, IsBooleanStatus, EnumStatusDAs, BooleanStatusDAs
  <1> QED
    BY <1>1 DEF DaRank

LEMMA RuleIs ==
  ASSUME NEW attrs, NEW a, NEW i
  PROVE  PointAt(attrs, a, i).rule /= NoRule <=> Decorated(attrs, a)
  <1> DEFINE spec == ParseSaddr(attrs[a].s_addr)
  <1>1. RuleFor(spec, i - 1) /= NoRule <=> IsDecorated(spec)
    <2>1. NoRule.alternatives = <<>>
      BY DEF NoRule
    <2>2. CASE IsDecorated(spec)
      BY <2>1, <2>2 DEF RuleFor, IsDecorated, Plain
    <2>3. CASE ~IsDecorated(spec)
      BY <2>3 DEF RuleFor
    <2> QED
      BY <2>2, <2>3
  <1> QED
    BY <1>1 DEF PointAt, Decorated

LEMMA TakeBetterIsBest ==
  ASSUME NEW attrs, NEW bits, NEW seen, Best(bits, attrs, seen), Ranked(attrs, seen),
         NEW a \in Nat, RankAt(attrs, a) \in Nat, \A s \in seen : s[1] <= a, NEW bit, NEW i
  PROVE  Best(TakeBetter(bits, bit, PointAt(attrs, a, i)), attrs, seen \cup {<<a, bit>>})
  <1> DEFINE point == PointAt(attrs, a, i)
             r == TakeBetter(bits, bit, point)
             now == seen \cup {<<a, bit>>}
  <1>1. /\ point.at = a /\ point.rank = RankAt(attrs, a)
        /\ point.rule /= NoRule <=> Decorated(attrs, a)
    BY RuleIs DEF PointAt
  <1>2. \A b, c : <<c, b>> \in now <=> <<c, b>> \in seen \/ (c = a /\ b = bit)
    OBVIOUS
  <1>3. \A b, c : <<c, b>> \in seen => c \in Nat /\ RankAt(attrs, c) \in Nat /\ c <= a
    BY DEF Ranked
  <1> HIDE DEF point, now
  <1>4. CASE bit \in DOMAIN bits /\ point.rank >= bits[bit].rank
    <2>1. r = bits
      BY <1>4 DEF TakeBetter
    <2>2. <<bits[bit].at, bit>> \in seen /\ bits[bit].rank = RankAt(attrs, bits[bit].at)
      BY <1>4 DEF Best
    <2>3. \/ bits[bit].rank < RankAt(attrs, a)
          \/ bits[bit].rank = RankAt(attrs, a) /\ bits[bit].at <= a
      BY <1>1, <1>3, <1>4, <2>2
    <2>4. \A b : b \in DOMAIN bits <=> \E c : <<c, b>> \in now
      BY <1>2, <1>4 DEF Best
    <2>5. ASSUME NEW b \in DOMAIN bits
          PROVE  /\ <<bits[b].at, b>> \in now
                 /\ bits[b].rank = RankAt(attrs, bits[b].at)
                 /\ bits[b].rule /= NoRule <=> Decorated(attrs, bits[b].at)
                 /\ \A c : <<c, b>> \in now =>
                      \/ bits[b].rank < RankAt(attrs, c)
                      \/ bits[b].rank = RankAt(attrs, c) /\ bits[b].at <= c
      <3>1. /\ <<bits[b].at, b>> \in seen
            /\ bits[b].rank = RankAt(attrs, bits[b].at)
            /\ bits[b].rule /= NoRule <=> Decorated(attrs, bits[b].at)
            /\ \A c : <<c, b>> \in seen =>
                 \/ bits[b].rank < RankAt(attrs, c)
                 \/ bits[b].rank = RankAt(attrs, c) /\ bits[b].at <= c
        BY DEF Best
      <3> QED
        BY <1>2, <2>3, <3>1
    <2> QED
      <3>1. Best(bits, attrs, now)
        BY <2>4, <2>5 DEF Best
      <3> QED
        BY <2>1, <3>1 DEF now, point
  <1>5. CASE bit \notin DOMAIN bits \/ ~(point.rank >= bits[bit].rank)
    <2>1. /\ DOMAIN r = DOMAIN bits \cup {bit} /\ r[bit] = point
          /\ \A b \in DOMAIN bits : b /= bit => r[b] = bits[b]
      BY <1>5 DEF TakeBetter, With
    <2> HIDE DEF r
    <2>2. \A c : <<c, bit>> \in seen => RankAt(attrs, a) < RankAt(attrs, c)
      <3> TAKE c
      <3> HAVE <<c, bit>> \in seen
      <3>1. bit \in DOMAIN bits
        BY DEF Best
      <3>2. /\ <<bits[bit].at, bit>> \in seen /\ bits[bit].rank = RankAt(attrs, bits[bit].at)
            /\ bits[bit].rank <= RankAt(attrs, c)
        BY <1>3, <3>1 DEF Best
      <3> QED
        BY <1>1, <1>3, <1>5, <3>1, <3>2
    <2>3. \A b : b \in DOMAIN r <=> \E c : <<c, b>> \in now
      BY <1>2, <2>1 DEF Best
    <2>4. ASSUME NEW b \in DOMAIN r
          PROVE  /\ <<r[b].at, b>> \in now
                 /\ r[b].rank = RankAt(attrs, r[b].at)
                 /\ r[b].rule /= NoRule <=> Decorated(attrs, r[b].at)
                 /\ \A c : <<c, b>> \in now =>
                      \/ r[b].rank < RankAt(attrs, c)
                      \/ r[b].rank = RankAt(attrs, c) /\ r[b].at <= c
      <3>1. CASE b = bit
        BY <1>1, <1>2, <2>1, <2>2, <3>1
      <3>2. CASE b /= bit
        BY <1>2, <2>1, <3>2 DEF Best
      <3> QED
        BY <3>1, <3>2
    <2> QED
      BY <2>3, <2>4 DEF Best, r, now, point
  <1> QED
    BY <1>4, <1>5 DEF r, now, point

LEMMA OfferIsBest ==
  ASSUME NEW attrs, NEW a \in Nat, RankAt(attrs, a) \in Nat,
         NEW n \in Nat, DOMAIN NamesAt(attrs, a) = 1..n, NEW N, NEW P,
         \A i \in 1..n : NamesAt(attrs, a)[i] \in N /\ PointAt(attrs, a, i) \in P,
         NEW bits \in Dict(N, P), NEW seen,
         Best(bits, attrs, seen), Ranked(attrs, seen), \A s \in seen : s[1] <= a
  PROVE  Best(Offer(bits, attrs, a), attrs, seen \cup {<<a, NamesAt(attrs, a)[i]>> : i \in 1..n})
  <1> DEFINE names == NamesAt(attrs, a)
             Now(k) == seen \cup {<<a, names[i]>> : i \in 1..k}
             Step(b, k) == TakeBetter(b, names[k], PointAt(attrs, a, k))
  <1>0. PICK p : AreOffers(p, bits, attrs, a, n, Dict(N, P))
    BY OfferPrefixes
  <1>1. /\ p[0] = bits /\ p[n] = Offer(bits, attrs, a)
        /\ \A k \in 0..n : k < n => p[k + 1] = Step(p[k], k + 1)
    BY <1>0 DEF AreOffers
  <1>2. Now(0) = seen
    OBVIOUS
  <1>3. ASSUME NEW k \in Nat PROVE Now(k + 1) = Now(k) \cup {<<a, names[k + 1]>>}
    <2>1. 1..(k + 1) = 1..k \cup {k + 1}
      OBVIOUS
    <2> QED
      BY <2>1
  <1>4. ASSUME NEW k \in Nat PROVE Ranked(attrs, Now(k)) /\ \A s \in Now(k) : s[1] <= a
    BY DEF Ranked
  <1> HIDE DEF names, Now
  <1>5. ASSUME NEW b, NEW k \in Nat, Best(b, attrs, Now(k)) PROVE Best(Step(b, k + 1), attrs, Now(k + 1))
    <2>1. Ranked(attrs, Now(k)) /\ \A s \in Now(k) : s[1] <= a
      BY <1>4
    <2>2. Best(Step(b, k + 1), attrs, Now(k) \cup {<<a, names[k + 1]>>})
      BY <1>5, <2>1, TakeBetterIsBest
    <2> QED
      BY <1>3, <2>2
  <1> HIDE DEF Step
  <1> DEFINE M == {m \in Nat : m <= n => Best(p[m], attrs, Now(m))}
  <1>6. 0 \in M
    BY <1>1, <1>2
  <1>7. \A m \in Nat : m \in M => m + 1 \in M
    <2> SUFFICES ASSUME NEW m \in Nat, m + 1 <= n, Best(p[m], attrs, Now(m))
                 PROVE  Best(p[m + 1], attrs, Now(m + 1))
      OBVIOUS
    <2>1. m \in 0..n /\ m < n
      OBVIOUS
    <2>2. p[m + 1] = Step(p[m], m + 1)
      BY <1>1, <2>1
    <2> QED
      BY <1>5, <2>2
  <1> HIDE DEF M
  <1>8. n \in M
    BY <1>6, <1>7, NatInductionSet
  <1>9. Best(p[n], attrs, Now(n))
    BY <1>8 DEF M
  <1> QED
    BY <1>1, <1>9 DEF Now, names

LEMMA NamesOfAttribute ==
  ASSUME NEW attrs \in Seq(Attribute), NEW a \in DOMAIN attrs
  PROVE  /\ \E n \in Nat : DOMAIN NamesAt(attrs, a) = 1..n
         /\ RankAt(attrs, a) \in Nat
  <1>1. attrs[a] \in Attribute
    OBVIOUS
  <1>2. attrs[a].s_addr.names \in Seq(DOMAIN Upper)
    BY <1>1, ReadersAssumption DEF Pieces
  <1>3. \E n \in Nat : DOMAIN NamesAt(attrs, a) = 1..n
    <2>1. DOMAIN NamesAt(attrs, a) = DOMAIN attrs[a].s_addr.names \/ NamesAt(attrs, a) = <<>>
      BY DEF NamesAt, ParseSaddr, NoSpec
    <2>2. DOMAIN attrs[a].s_addr.names = 1..Len(attrs[a].s_addr.names)
          /\ Len(attrs[a].s_addr.names) \in Nat
      BY <1>2
    <2>3. DOMAIN <<>> = 1..0 /\ 0 \in Nat
      OBVIOUS
    <2> QED
      BY <2>1, <2>2, <2>3
  <1>4. RankAt(attrs, a) \in 0..3
    BY RankIs DEF RankAt, Decorated, IsDecorated
  <1>5. 0..3 \subseteq Nat
    OBVIOUS
  <1> QED
    BY <1>3, <1>4, <1>5

\* All the addresses of the first m attributes.
Seen(attrs, m) ==
  UNION {{<<a, NamesAt(attrs, a)[i]>> : i \in DOMAIN NamesAt(attrs, a)} : a \in 1..m}

LEMMA PointsAreBest ==
  ASSUME NEW attrs \in Seq(Attribute)
  PROVE  Best(PointsOf(attrs), attrs, Seen(attrs, Len(attrs)))
  <1> DEFINE n == Len(attrs)
             N == UNION {{NamesAt(attrs, a)[i] : i \in DOMAIN NamesAt(attrs, a)} : a \in 1..n}
             P == {PointAt(attrs, a, i) : a \in 1..n, i \in Nat}
  <1>1. n \in Nat /\ DOMAIN attrs = 1..n
    OBVIOUS
  <1>2. ASSUME NEW a \in 1..n
        PROVE  /\ a \in Nat /\ RankAt(attrs, a) \in Nat
               /\ \E l \in Nat : DOMAIN NamesAt(attrs, a) = 1..l
    BY <1>1, NamesOfAttribute
  <1>3. ASSUME NEW a \in 1..n, NEW i \in DOMAIN NamesAt(attrs, a)
        PROVE  NamesAt(attrs, a)[i] \in N /\ PointAt(attrs, a, i) \in P
    <2>1. i \in Nat
      BY <1>2
    <2> QED
      BY <2>1
  <1> HIDE DEF n, N, P
  <1>4. ASSUME NEW bits \in Dict(N, P), NEW a \in 1..n PROVE Offer(bits, attrs, a) \in Dict(N, P)
    <2>1. PICK l \in Nat : DOMAIN NamesAt(attrs, a) = 1..l
      BY <1>2
    <2>2. \A i \in 1..l : NamesAt(attrs, a)[i] \in N /\ PointAt(attrs, a, i) \in P
      BY <1>3, <2>1
    <2>3. PICK p : AreOffers(p, bits, attrs, a, l, Dict(N, P))
      BY <2>1, <2>2, OfferPrefixes
    <2>4. l \in 0..l
      OBVIOUS
    <2> QED
      BY <2>3, <2>4 DEF AreOffers
  <1>5. PICK p : /\ p[0] = Empty /\ p[n] = PointsOf(attrs)
                 /\ \A k \in 0..n : /\ p[k] \in Dict(N, P)
                                    /\ k < n => p[k + 1] = Offer(p[k], attrs, k + 1)
    <2>1. OffersInto(attrs, n, Dict(N, P))
      BY <1>4 DEF OffersInto
    <2> QED
      BY <1>1, <2>1, PointsPrefixes
  <1> DEFINE M == {m \in Nat : m <= n => Best(p[m], attrs, Seen(attrs, m))}
  <1>6. 0 \in M
    <2>1. Seen(attrs, 0) = {}
      BY DEF Seen
    <2>2. Best(Empty, attrs, {})
      BY DEF Best, Empty
    <2> QED
      BY <1>5, <2>1, <2>2
  <1>7. \A m \in Nat : m \in M => m + 1 \in M
    <2> SUFFICES ASSUME NEW m \in Nat, m + 1 <= n, Best(p[m], attrs, Seen(attrs, m))
                 PROVE  Best(p[m + 1], attrs, Seen(attrs, m + 1))
      BY <1>1
    <2>1. m \in 0..n /\ m < n /\ m + 1 \in 1..n /\ m + 1 \in Nat /\ 1..m \subseteq 1..n
      BY <1>1
    <2>2. p[m] \in Dict(N, P) /\ p[m + 1] = Offer(p[m], attrs, m + 1)
      BY <1>5, <2>1
    <2>3. PICK l \in Nat : DOMAIN NamesAt(attrs, m + 1) = 1..l
      BY <1>2, <2>1
    <2>4. /\ \A i \in 1..l : NamesAt(attrs, m + 1)[i] \in N /\ PointAt(attrs, m + 1, i) \in P
          /\ RankAt(attrs, m + 1) \in Nat
      BY <1>2, <1>3, <2>1, <2>3
    <2>5. \A s \in Seen(attrs, m) : s[1] \in 1..m
      BY DEF Seen
    <2>6. Ranked(attrs, Seen(attrs, m)) /\ \A s \in Seen(attrs, m) : s[1] <= m + 1
      BY <1>2, <2>1, <2>5 DEF Ranked
    <2>7. Seen(attrs, m + 1) = Seen(attrs, m) \cup {<<m + 1, NamesAt(attrs, m + 1)[i]>> : i \in 1..l}
      <3>1. 1..(m + 1) = 1..m \cup {m + 1}
        OBVIOUS
      <3> QED
        BY <2>3, <3>1 DEF Seen
    <2>8. Best(Offer(p[m], attrs, m + 1), attrs,
               Seen(attrs, m) \cup {<<m + 1, NamesAt(attrs, m + 1)[i]>> : i \in 1..l})
      BY <2>1, <2>2, <2>3, <2>4, <2>6, OfferIsBest
    <2> QED
      BY <2>2, <2>7, <2>8
  <1> HIDE DEF M
  <1>8. n \in M
    BY <1>1, <1>6, <1>7, NatInductionSet
  <1> QED
    BY <1>1, <1>5, <1>8 DEF M, n

LEMMA ReadWhereBest ==
  ASSUME NEW attrs \in Seq(Attribute)
  PROVE  ReadAtItsState(attrs, PointsOf(attrs))
  <1> DEFINE points == PointsOf(attrs)
             n == Len(attrs)
             names(a) == ParseSaddr(attrs[a].s_addr).names
             IsPlainStatus(a) == ~Decorated(attrs, a) /\ IsBooleanStatus(attrs[a].da)
  <1>1. n \in Nat /\ DOMAIN attrs = 1..n
    OBVIOUS
  <1>2. Best(points, attrs, Seen(attrs, n))
    BY PointsAreBest
  <1> HIDE DEF points, n
  <1>3. ASSUME NEW a, NEW bit
        PROVE  <<a, bit>> \in Seen(attrs, n) <=> a \in 1..n /\ bit \in ToSet(names(a))
    <2>1. bit \in ToSet(names(a)) <=> \E i \in DOMAIN names(a) : bit = names(a)[i]
      BY DEF ToSet
    <2>2. <<a, bit>> \in Seen(attrs, n) <=>
            \E c \in 1..n : \E i \in DOMAIN names(c) : <<a, bit>> = <<c, names(c)[i]>>
      <3> DEFINE From(c) == {<<c, names(c)[i]>> : i \in DOMAIN names(c)}
      <3>1. Seen(attrs, n) = UNION {From(c) : c \in 1..n}
        BY DEF Seen, NamesAt
      <3> HIDE DEF names
      <3>2. \A c, x : x \in From(c) <=> \E i \in DOMAIN names(c) : x = <<c, names(c)[i]>>
        OBVIOUS
      <3> HIDE DEF From
      <3>3. \A x : x \in Seen(attrs, n) <=> \E c \in 1..n : x \in From(c)
        BY <3>1
      <3> QED
        BY <3>2, <3>3
    <2> HIDE DEF names
    <2>3. ASSUME NEW c, NEW i
          PROVE  <<a, bit>> = <<c, names(c)[i]>> <=> c = a /\ bit = names(a)[i]
      <3>1. \A x : <<a, bit>> = <<c, x>> <=> c = a /\ bit = x
        OBVIOUS
      <3>2. c = a => names(c) = names(a)
        OBVIOUS
      <3> QED
        BY ONLY <3>1, <3>2
    <2> QED
      BY <2>1, <2>2, <2>3
  <1>4. \A bit, a : a \in Addresses(attrs, bit) <=> <<a, bit>> \in Seen(attrs, n)
    BY <1>1, <1>3 DEF Addresses
  <1>5. \A a \in 1..n :
          /\ RankAt(attrs, a) \in 0..3
          /\ IsControl(attrs[a].da) <=> RankAt(attrs, a) = 3
          /\ IsPlainStatus(a) <=> RankAt(attrs, a) = 0
          /\ Decorated(attrs, a) /\ (IsEnumStatus(attrs[a].da) \/ IsBooleanStatus(attrs[a].da))
               <=> RankAt(attrs, a) = 1
    <2>1. \A a : Decorated(attrs, a) \in BOOLEAN
      BY DEF Decorated, IsDecorated
    <2> QED
      BY <2>1, RankIs DEF RankAt
  <1> HIDE DEF IsPlainStatus
  <1>6. DOMAIN points = UNION {ToSet(names(a)) : a \in DOMAIN attrs}
    <2>1. \A bit : bit \in DOMAIN points <=> \E a : <<a, bit>> \in Seen(attrs, n)
      BY <1>2 DEF Best
    <2>2. \A bit : bit \in DOMAIN points <=> \E a \in 1..n : bit \in ToSet(names(a))
      BY <1>3, <2>1
    <2> HIDE DEF names
    <2> QED
      BY <1>1, <2>2
  <1>7. ASSUME NEW bit \in DOMAIN points
        PROVE  LET won == points[bit].at
                   all == Addresses(attrs, bit)
               IN  /\ won \in all
                   /\ IsControl(attrs[won].da) =>
                        won = Min(all) /\ \A a \in all : IsControl(attrs[a].da)
                   /\ (\E a \in all : IsPlainStatus(a)) => won = Min({a \in all : IsPlainStatus(a)})
                   /\ points[bit].rule /= NoRule <=> Decorated(attrs, won)
                   /\ (\E a \in all : Decorated(attrs, a) /\ IsEnumStatus(attrs[a].da)) =>
                        IsPlainStatus(won) \/ points[bit].rule /= NoRule
    <2> DEFINE won == points[bit].at
               all == Addresses(attrs, bit)
               Rank(a) == RankAt(attrs, a)
    <2>1. /\ won \in all /\ (points[bit].rule /= NoRule <=> Decorated(attrs, won))
          /\ \A a \in all : Rank(won) < Rank(a) \/ (Rank(won) = Rank(a) /\ won <= a)
      BY <1>2, <1>4 DEF Best
    <2>2. all \subseteq 1..n
      BY <1>3, <1>4
    <2>3. \A a \in all : a \in Nat /\ Rank(a) \in 0..3
      BY <1>1, <1>5, <2>2
    <2> HIDE DEF won, all
    <2>4. ASSUME NEW S \in SUBSET all, won \in S, \A a \in S : won <= a PROVE won = Min(S)
      BY <2>3, <2>4 DEF Min
    <2>5. ASSUME IsControl(attrs[won].da)
          PROVE  won = Min(all) /\ \A a \in all : IsControl(attrs[a].da)
      <3>1. Rank(won) = 3
        BY <1>5, <2>1, <2>2, <2>5
      <3>2. \A a \in all : Rank(a) = 3 /\ won <= a
        BY <2>1, <2>3, <3>1
      <3> QED
        BY <1>5, <2>1, <2>2, <2>4, <3>2
    <2>6. ASSUME NEW b \in all, IsPlainStatus(b) PROVE won = Min({a \in all : IsPlainStatus(a)})
      <3>1. Rank(b) = 0
        BY <1>5, <2>2, <2>6
      <3>2. Rank(won) = 0
        BY <2>1, <2>3, <3>1
      <3>3. won \in {a \in all : IsPlainStatus(a)}
        BY <1>5, <2>1, <2>2, <3>2
      <3>4. \A a \in all : IsPlainStatus(a) => won <= a
        BY <1>5, <2>1, <2>2, <2>3, <3>2
      <3> QED
        BY <2>4, <3>3, <3>4
    <2>7. ASSUME NEW b \in all, Decorated(attrs, b), IsEnumStatus(attrs[b].da)
          PROVE  IsPlainStatus(won) \/ points[bit].rule /= NoRule
      <3>1. Rank(b) = 1
        BY <1>5, <2>2, <2>7
      <3>2. Rank(won) = 0 \/ Rank(won) = 1
        BY <2>1, <2>3, <3>1
      <3> QED
        BY <1>5, <2>1, <2>2, <3>2
    <2> QED
      BY <2>1, <2>5, <2>6, <2>7 DEF won, all
  <1> QED
    BY <1>6, <1>7 DEF ReadAtItsState, IsPlainStatus, points

-----------------------------------------------------------------------------
(* Addresses: what is encoded is decoded *)

LEMMA TwoDigits ==
  ASSUME NEW d \in Int, NEW e \in Int
  PROVE  OfBinary(<<d, e>>) = 2 * d + e
  <1> DEFINE seq == <<d, e>>
             F == [x \in Int \X Int |-> 2 * x[1] + x[2]]
             Iter(g) == g = [s \in SUBSET (1..2) |->
                               IF s = {} THEN 0 ELSE 2 * g[s \ {Max(s)}] + seq[Max(s)]]
  <1>1. DOMAIN seq = 1..2 /\ seq[1] = d /\ seq[2] = e /\ \A i \in 1..2 : seq[i] \in Int
    OBVIOUS
  <1>2. F \in [Int \X Int -> Int]
    OBVIOUS
  <1> HIDE DEF F, seq
  <1>3. PICK g : FoldIn(2, Int, F, 0, seq, g)
    <2>1. CanFold(2, Int, Int, F, 0, seq)
      BY <1>1, <1>2 DEF CanFold
    <2> QED
      BY <2>1, FoldExists
  <1>4. Iter(g)
    <2>1. ASSUME NEW s \in SUBSET (1..2), s /= {}
          PROVE  FoldStep(F, 0, seq, g, s) = 2 * g[s \ {Max(s)}] + seq[Max(s)]
      <3>1. Max(s) \in 1..2
        BY <2>1, MaxIsIn
      <3>2. seq[Max(s)] \in Int /\ g[s \ {Max(s)}] \in Int
        BY <1>1, <1>3, <3>1 DEF FoldIn
      <3> QED
        BY <2>1, <3>1, <3>2 DEF FoldStep, F
    <2>2. ASSUME NEW s \in SUBSET (1..2)
          PROVE  FoldStep(F, 0, seq, g, s) =
                   IF s = {} THEN 0 ELSE 2 * g[s \ {Max(s)}] + seq[Max(s)]
      BY <2>1 DEF FoldStep
    <2> QED
      BY <1>3, <2>2 DEF FoldIn, FoldOver
  <1> DEFINE h == CHOOSE x : Iter(x)
  <1>5. Iter(h)
    BY <1>4
  <1>6. OfBinary(seq) = h[1..2]
    BY <1>1 DEF OfBinary, FoldLeft, MapThenFoldSet
  <1> HIDE DEF h
  <1>7. h[1..1] = d
    <2>1. /\ 1..1 \in SUBSET (1..2) /\ 1..1 /= {} /\ Max(1..1) = 1 /\ (1..1) \ {1} = {}
      <3>1. /\ 1..(0 + 1) \in SUBSET (1..2) /\ 1..(0 + 1) /= {} /\ Max(1..(0 + 1)) = 0 + 1
            /\ (1..(0 + 1)) \ {0 + 1} = 1..0
        <4>1. 2 \in Nat /\ 0 \in 0..2 /\ 0 < 2
          OBVIOUS
        <4> QED
          BY ONLY <4>1, NextPlace
      <3>2. 0 + 1 = 1 /\ 1..0 = {}
        OBVIOUS
      <3> QED
        BY <3>1, <3>2
    <2>2. h[{}] = 0
      BY <1>5
    <2>3. h[1..1] = 2 * h[{}] + seq[1]
      BY <1>5, <2>1
    <2> QED
      BY <1>1, <2>2, <2>3
  <1>8. h[1..2] = 2 * h[1..1] + seq[2]
    <2>1. 1..2 \in SUBSET (1..2) /\ 1..2 /= {} /\ Max(1..2) = 2 /\ (1..2) \ {2} = 1..1
      <3>1. /\ 1..(1 + 1) \in SUBSET (1..2) /\ 1..(1 + 1) /= {} /\ Max(1..(1 + 1)) = 1 + 1
            /\ (1..(1 + 1)) \ {1 + 1} = 1..1
        <4>1. 2 \in Nat /\ 1 \in 0..2 /\ 1 < 2
          OBVIOUS
        <4> QED
          BY ONLY <4>1, NextPlace
      <3>2. 1 + 1 = 2
        OBVIOUS
      <3> QED
        BY <3>1, <3>2
    <2> QED
      BY <1>5, <2>1
  <1> QED
    BY <1>1, <1>6, <1>7, <1>8 DEF seq

\* An address that is decorated gives a value to each combination of its bits.
LEMMA DecoratedAddress ==
  ASSUME NEW sa \in ShortAddresses, IsDecorated(ParseSaddr(sa))
  PROVE  LET spec == ParseSaddr(sa)
         IN  /\ Len(spec.names) \in 1..2
             /\ spec.alternatives \in Seq(Int)
             /\ Len(spec.alternatives) = 2^Len(spec.names)
  <1>1. sa.names \in Seq(DOMAIN Upper) /\ Len(sa.names) \in 1..2 /\ sa.tail \in Seq(Int)
    BY ReadersAssumption DEF IsSaddr, Pieces
  <1> DEFINE names == [i \in DOMAIN sa.names |-> Upper[sa.names[i]]]
  <1>2. /\ ParseSaddr(sa) = [names |-> names, alternatives |-> sa.tail]
        /\ Len(sa.tail) = 2^Len(names)
    <2>1. ParseSaddr(sa) /= NoSpec
      BY DEF NoSpec, IsDecorated
    <2>2. sa.marked
      BY <2>1 DEF ParseSaddr, IsDecorated
    <2> QED
      BY <2>1, <2>2 DEF ParseSaddr
  <1>3. Len(names) = Len(sa.names)
    <2>1. DOMAIN names = 1..Len(sa.names) /\ Len(sa.names) \in Nat
      BY <1>1
    <2> HIDE DEF names
    <2> QED
      BY <2>1
  <1> QED
    BY <1>1, <1>2, <1>3

RuleOf(alts, i, n) == [alternatives |-> alts, index |-> i, nbits |-> n]
BitAt(c, i, n) == IF n = 1 THEN c ELSE IF i = 0 THEN c \div 2 ELSE c % 2
IsRule(alts, i, n) == alts \in Seq(Int) /\ n \in 1..2 /\ Len(alts) = 2^n /\ i \in 0..(n - 1)
IsReadable(value) == value.type = "int" \/ IsBinary(value)

LEMMA BitsOfCombinations ==
  ASSUME NEW n \in 1..2, NEW i \in 0..(n - 1), NEW c \in 0..(2^n - 1), NEW alts
  PROVE  BitOfCombination(c, RuleOf(alts, i, n)) = BitAt(c, i, n)
  <1>1. BitOfCombination(c, RuleOf(alts, i, n)) = (c \div 2^(n - 1 - i)) % 2
    BY DEF BitOfCombination, RuleOf
  <1>2. CASE n = 1 /\ i = 0
    <2>1. c \in 0..1 /\ n - 1 - i = 0 /\ 2^0 = 1
      BY <1>2
    <2>2. 2^(n - 1 - i) = 1
      BY <2>1
    <2>3. (c \div 1) % 2 = c
      BY <2>1
    <2> QED
      BY <1>1, <1>2, <2>2, <2>3 DEF BitAt
  <1>3. CASE n = 2 /\ i = 0
    <2>1. c \in 0..3 /\ n - 1 - i = 1 /\ 2^1 = 2
      BY <1>3
    <2>2. 2^(n - 1 - i) = 2
      BY <2>1
    <2>3. (c \div 2) % 2 = c \div 2
      BY <2>1
    <2> QED
      BY <1>1, <1>3, <2>2, <2>3 DEF BitAt
  <1>4. CASE n = 2 /\ i = 1
    <2>1. c \in 0..3 /\ n - 1 - i = 0 /\ 2^0 = 1
      BY <1>4
    <2>2. 2^(n - 1 - i) = 1
      BY <2>1
    <2>3. c \div 1 = c
      BY <2>1
    <2> QED
      BY <1>1, <1>4, <2>2, <2>3 DEF BitAt
  <1>5. (n = 1 /\ i = 0) \/ (n = 2 /\ i = 0) \/ (n = 2 /\ i = 1)
    BY ONLY n \in 1..2, i \in 0..(n - 1)
  <1> QED
    BY <1>2, <1>3, <1>4, <1>5

LEMMA DecodesFirst ==
  ASSUME NEW alts, NEW i, NEW n, IsRule(alts, i, n), NEW c \in 0..(Len(alts) - 1),
         ~ \E b \in 0..(c - 1) : alts[b + 1] = alts[c + 1],
         NEW value, IsReadable(value), Number(value) = alts[c + 1]
  PROVE  DecodeBit(RuleOf(alts, i, n), value) = BitAt(c, i, n)
  <1> DEFINE rule == RuleOf(alts, i, n)
             at == {k \in DOMAIN rule.alternatives : rule.alternatives[k] = Number(value)}
  <1>1. alts \in Seq(Int) /\ n \in 1..2 /\ Len(alts) = 2^n /\ i \in 0..(n - 1)
    BY DEF IsRule
  <1>2. Len(alts) \in Nat /\ DOMAIN alts = 1..Len(alts)
    BY <1>1
  <1>3. rule.alternatives = alts
    BY DEF RuleOf
  <1>4. rule /= NoRule
    <2>1. NoRule.alternatives = <<>> /\ alts /= <<>>
      BY <1>2 DEF NoRule
    <2> QED
      BY <1>3, <2>1
  <1>5. c + 1 \in at /\ at \subseteq 1..Len(alts)
    BY <1>2, <1>3
  <1>6. ASSUME NEW k \in at PROVE c + 1 <= k
    <2>1. k \in 1..Len(alts) /\ alts[k] = alts[c + 1]
      BY <1>3, <1>5
    <2> SUFFICES ASSUME ~ (c + 1 <= k) PROVE FALSE
      OBVIOUS
    <2>2. k - 1 \in 0..(c - 1) /\ (k - 1) + 1 = k
      BY <1>2, <2>1
    <2> QED
      BY <2>1, <2>2
  <1> HIDE DEF at
  <1>7. Min(at) = c + 1
    <2>1. \A k \in at : k \in Int
      BY <1>2, <1>5
    <2>2. \A k \in at : (\A l \in at : k <= l) => k = c + 1
      BY <1>5, <1>6, <2>1
    <2> QED
      BY <1>5, <1>6, <2>2 DEF Min
  <1>8. DecodeBit(rule, value) = BitOfCombination(Min(at) - 1, rule)
    BY <1>4, <1>5 DEF DecodeBit, IsReadable, at
  <1>9. Min(at) - 1 = c
    BY <1>7
  <1>10. c \in 0..(2^n - 1)
    BY <1>1
  <1>11. BitOfCombination(c, RuleOf(alts, i, n)) = BitAt(c, i, n)
    BY <1>1, <1>10, BitsOfCombinations
  <1> QED
    BY <1>8, <1>9, <1>11

LEMMA DecodesNothing ==
  ASSUME NEW alts, NEW i, NEW n, NEW value,
         ~IsReadable(value) \/ Number(value) \notin ToSet(alts)
  PROVE  DecodeBit(RuleOf(alts, i, n), value) = NoReading
  <1>1. RuleOf(alts, i, n).alternatives = alts
    BY DEF RuleOf
  <1>2. Number(value) \notin ToSet(alts) => {k \in DOMAIN alts : alts[k] = Number(value)} = {}
    BY DEF ToSet
  <1> QED
    BY <1>1, <1>2 DEF DecodeBit, IsReadable

LEMMA Encoded ==
  ASSUME NEW sa \in ShortAddresses
  PROVE  ReadsBackTheBits(sa)
  <1> DEFINE spec == ParseSaddr(sa)
             alts == spec.alternatives
             n == Len(spec.names)
             Bits(c, i) == IF n = 1 THEN c ELSE IF i = 0 THEN c \div 2 ELSE c % 2
             Earlier(c) == \E b \in 0..(c - 1) : alts[b + 1] = alts[c + 1]
             Read(v, i) == DecodeBit(RuleFor(spec, i), v)
             AsInt(k) == [type |-> "int", n |-> k]
             AsText(k) == [type |-> "str", digits |-> <<k \div 2, k % 2>>]
  <1>1. CASE ~IsDecorated(spec)
    <2>1. \A i : RuleFor(spec, i) = NoRule
      BY <1>1 DEF RuleFor
    <2>2. \A v \in 0..3 : Read(AsInt(v), 0) = NoReading
      BY <2>1 DEF DecodeBit
    <2> QED
      BY <1>1, <2>2 DEF ReadsBackTheBits
  <1>2. CASE IsDecorated(spec)
    <2>1. n \in 1..2 /\ alts \in Seq(Int) /\ Len(alts) = 2^n
      BY <1>2, DecoratedAddress
    <2>2. \A i : RuleFor(spec, i) = RuleOf(alts, i, n)
      BY <1>2 DEF RuleFor, RuleOf
    <2>3. \A k : /\ AsInt(k).type = "int" /\ Number(AsInt(k)) = k /\ IsReadable(AsInt(k))
      BY DEF IsReadable, Number
    <2>4. ASSUME NEW k \in 0..3 PROVE IsReadable(AsText(k)) /\ Number(AsText(k)) = k
      <3>1. /\ k \div 2 \in {0, 1} /\ k % 2 \in {0, 1} /\ 2 * (k \div 2) + (k % 2) = k
        OBVIOUS
      <3>2. OfBinary(<<k \div 2, k % 2>>) = k
        BY <3>1, TwoDigits
      <3>3. ToSet(<<k \div 2, k % 2>>) \subseteq {0, 1} /\ <<k \div 2, k % 2>> /= <<>>
        BY <3>1 DEF ToSet
      <3> QED
        BY <3>2, <3>3 DEF IsReadable, IsBinary, Number
    <2>5. ~IsReadable([type |-> "bool", n |-> alts[1]])
      BY DEF IsReadable, IsBinary
    <2>6. ~IsReadable([type |-> "str", digits |-> <<2>>])
      <3>1. 2 \in ToSet(<<2>>)
        BY DEF ToSet
      <3> QED
        BY <3>1 DEF IsReadable, IsBinary
    <2> HIDE DEF spec, n, alts, AsInt, AsText
    <2>7. ASSUME NEW i \in 0..(n - 1), NEW c \in 0..(Len(alts) - 1), ~Earlier(c)
          PROVE  /\ Read(AsInt(alts[c + 1]), i) = Bits(c, i)
                 /\ alts[c + 1] \in 0..3 => Read(AsText(alts[c + 1]), i) = Bits(c, i)
      <3>1. IsRule(alts, i, n)
        BY <2>1 DEF IsRule
      <3>2. \A value : IsReadable(value) /\ Number(value) = alts[c + 1] =>
              DecodeBit(RuleOf(alts, i, n), value) = BitAt(c, i, n)
        BY <2>7, <3>1, DecodesFirst
      <3>3. BitAt(c, i, n) = Bits(c, i)
        BY DEF BitAt
      <3>4. Read(AsInt(alts[c + 1]), i) = Bits(c, i)
        BY <2>2, <2>3, <3>2, <3>3
      <3>5. alts[c + 1] \in 0..3 => Read(AsText(alts[c + 1]), i) = Bits(c, i)
        BY <2>2, <2>4, <3>2, <3>3
      <3> QED
        BY <3>4, <3>5
    <2>8. ASSUME NEW i, NEW v \in (0..6) \ ToSet(alts) PROVE Read(AsInt(v), i) = NoReading
      BY <2>2, <2>3, DecodesNothing
    <2>9. \A i : /\ Read([type |-> "bool", n |-> alts[1]], i) = NoReading
                 /\ Read([type |-> "str", digits |-> <<2>>], i) = NoReading
      BY <2>2, <2>5, <2>6, DecodesNothing
    <2> QED
      BY <1>2, <2>7, <2>8, <2>9 DEF ReadsBackTheBits, spec, n, alts, AsInt, AsText
  <1> QED
    BY <1>1, <1>2

\* parse_saddr, decode_bit and sel_short_addresses: whatever values an address gives
\* to the combinations of its bits, they are read back, and whatever attributes a
\* relay has, each of its bits is read at the one that tells its state best.
THEOREM BitsAreReadAtTheirState == Spec => []BitsAtTheirState
  <1>1. ReplyInv => BitsAtTheirState
    <2> SUFFICES ASSUME ReplyInv PROVE BitsAtTheirState
      OBVIOUS
    <2>1. Answered("address") => ReadsBackTheBits(call.sa)
      BY CallOf, Encoded DEF ReplyInv, Answered
    <2>2. ASSUME Answered("points"), NEW r \in DOMAIN call.doc, call.doc[r].resolves
          PROVE  ReadAtItsState(call.doc[r].attrs, answer[r])
      <3>1. call.doc \in PointDocs /\ answer = SelShortAddresses(call.doc)
        BY <2>2, CallOf DEF ReplyInv, Reply, Answered
      <3>2. call.doc[r].attrs \in Seq(Attribute)
        BY <3>1, ReadersAssumption
      <3>3. answer[r] = PointsOf(call.doc[r].attrs)
        BY <2>2, <3>1 DEF SelShortAddresses
      <3> QED
        BY <3>2, <3>3, ReadWhereBest
    <2> QED
      BY <2>1, <2>2 DEF BitsAtTheirState
  <1> QED
    BY <1>1, Replies, PTL

-----------------------------------------------------------------------------
(* Profiles: what passes of a list *)

Passed(kept, x, good) == IF x \in good THEN Append(kept, x) ELSE kept

ListIn(seq, n, T) == DOMAIN seq = 1..n /\ \A i \in 1..n : seq[i] \in T

LEMMA ThosePrefixes ==
  ASSUME NEW n \in Nat, NEW seq, NEW T, ListIn(seq, n, T), NEW good,
         NEW those, those = Those(seq, good)
  PROVE  \E p : /\ p[0] = <<>> /\ p[n] = those
                /\ \A k \in 0..n :
                     /\ p[k] \in Seq(T)
                     /\ k < n => p[k + 1] = Passed(p[k], seq[k + 1], good)
  <1> DEFINE D == Seq(T)
             F == [x \in D \X T |-> Passed(x[1], x[2], good)]
             Iter(g) == g = [s \in SUBSET (1..n) |->
                               IF s = {} THEN <<>> ELSE Passed(g[s \ {Max(s)}], seq[Max(s)], good)]
  <1>1. DOMAIN seq = 1..n /\ \A i \in 1..n : seq[i] \in T
    BY DEF ListIn
  <1>2. \A b \in D, x \in T : Passed(b, x, good) \in D
    BY DEF Passed
  <1>3. <<>> \in D
    OBVIOUS
  <1> HIDE DEF D
  <1>4. F \in [D \X T -> D]
    BY <1>2
  <1> HIDE DEF F
  <1>5. PICK g : FoldIn(n, D, F, <<>>, seq, g)
    <2>1. CanFold(n, D, T, F, <<>>, seq)
      BY <1>1, <1>3, <1>4 DEF CanFold
    <2> QED
      BY <2>1, FoldExists
  <1>6. Iter(g)
    <2>1. ASSUME NEW s \in SUBSET (1..n), s /= {}
          PROVE  FoldStep(F, <<>>, seq, g, s) = Passed(g[s \ {Max(s)}], seq[Max(s)], good)
      <3>1. Max(s) \in 1..n
        BY <2>1, MaxIsIn
      <3>2. seq[Max(s)] \in T /\ g[s \ {Max(s)}] \in D
        BY <1>1, <1>5, <3>1 DEF FoldIn
      <3> QED
        BY <2>1, <3>1, <3>2 DEF FoldStep, F
    <2>2. ASSUME NEW s \in SUBSET (1..n)
          PROVE  FoldStep(F, <<>>, seq, g, s) =
                   IF s = {} THEN <<>> ELSE Passed(g[s \ {Max(s)}], seq[Max(s)], good)
      BY <2>1 DEF FoldStep
    <2> QED
      BY <1>5, <2>2 DEF FoldIn, FoldOver
  <1> DEFINE h == CHOOSE x : Iter(x)
  <1>7. Iter(h)
    BY <1>6
  <1>8. Those(seq, good) = h[1..n]
    BY <1>1 DEF Those, FoldLeft, MapThenFoldSet, Passed
  <1> HIDE DEF h
  <1> DEFINE p == [k \in 0..n |-> h[1..k]]
  <1>9. p[0] = <<>> /\ p[n] = Those(seq, good)
    <2>1. 1..0 = {} /\ 0 \in 0..n /\ n \in 0..n
      OBVIOUS
    <2> QED
      BY <1>7, <1>8, <2>1
  <1>10. ASSUME NEW k \in 0..n, k < n PROVE p[k + 1] = Passed(p[k], seq[k + 1], good)
    <2>1. /\ 1..(k + 1) \in SUBSET (1..n) /\ 1..(k + 1) /= {} /\ Max(1..(k + 1)) = k + 1
          /\ (1..(k + 1)) \ {k + 1} = 1..k
      BY <1>10, NextPlace
    <2>2. h[1..(k + 1)] = Passed(h[1..k], seq[k + 1], good)
      BY <1>7, <2>1
    <2>3. k + 1 \in 0..n
      BY <1>10
    <2> QED
      BY <2>2, <2>3
  <1> HIDE DEF p
  <1> DEFINE N == {m \in Nat : m <= n => p[m] \in D}
  <1>11. 0 \in N
    BY <1>3, <1>9
  <1>12. \A m \in Nat : m \in N => m + 1 \in N
    <2> SUFFICES ASSUME NEW m \in Nat, m + 1 <= n, p[m] \in D PROVE p[m + 1] \in D
      OBVIOUS
    <2>1. m \in 0..n /\ m < n /\ m + 1 \in 1..n
      OBVIOUS
    <2> QED
      BY <1>1, <1>2, <1>10, <2>1
  <1> HIDE DEF N
  <1>13. \A m \in Nat : m \in N
    BY <1>11, <1>12, NatInductionSet
  <1>14. \A m \in 0..n : p[m] \in D
    BY <1>13 DEF N
  <1> QED
    BY <1>9, <1>10, <1>14 DEF D

\* b are those of the first m of a list that pass, from the places q.
Passing(b, seq, good, m, q) ==
  /\ q \in [1..Len(b) -> 1..m]
  /\ \A i \in 1..Len(b) : b[i] = seq[q[i]] /\ b[i] \in good
  /\ \A i, j \in 1..Len(b) : i < j => q[i] < q[j]
  /\ \A l \in 1..m : seq[l] \in good => \E i \in 1..Len(b) : q[i] = l

LEMMA PassedPasses ==
  ASSUME NEW m \in Nat, NEW seq, NEW good, NEW T, NEW b \in Seq(T), NEW q,
         Passing(b, seq, good, m, q)
  PROVE  \E r : Passing(Passed(b, seq[m + 1], good), seq, good, m + 1, r)
  <1> DEFINE s == seq[m + 1]
             n == Len(b)
  <1>1. n \in Nat /\ DOMAIN b = 1..n
    OBVIOUS
  <1>2. /\ q \in [1..n -> 1..m]
        /\ \A i \in 1..n : b[i] = seq[q[i]] /\ b[i] \in good
        /\ \A i, j \in 1..n : i < j => q[i] < q[j]
        /\ \A l \in 1..m : seq[l] \in good => \E i \in 1..n : q[i] = l
    BY DEF Passing
  <1>3. \A l : l \in 1..(m + 1) <=> l \in 1..m \/ l = m + 1
    OBVIOUS
  <1>4. CASE s \notin good
    <2>1. Passed(b, s, good) = b
      BY <1>4 DEF Passed
    <2>2. q \in [1..n -> 1..(m + 1)]
      BY <1>2, <1>3
    <2>3. \A l \in 1..(m + 1) : seq[l] \in good => \E i \in 1..n : q[i] = l
      BY <1>2, <1>3, <1>4
    <2>4. Passing(b, seq, good, m + 1, q)
      BY <1>2, <2>2, <2>3 DEF Passing
    <2> QED
      BY <2>1, <2>4
  <1>5. CASE s \in good
    <2> DEFINE e == Append(b, s)
               r == [i \in 1..(n + 1) |-> IF i = n + 1 THEN m + 1 ELSE q[i]]
    <2>1. Passed(b, s, good) = e
      BY <1>5 DEF Passed
    <2>2. /\ Len(e) = n + 1 /\ e[n + 1] = s
          /\ \A i \in 1..n : e[i] = b[i]
      OBVIOUS
    <2>3. \A i : i \in 1..(n + 1) <=> i \in 1..n \/ i = n + 1
      BY <1>1
    <2>4. /\ r \in [1..(n + 1) -> 1..(m + 1)] /\ r[n + 1] = m + 1
          /\ \A i \in 1..n : r[i] = q[i] /\ r[i] \in 1..m
      BY <1>1, <1>2, <1>3, <2>3
    <2> HIDE DEF e, r, n, s
    <2>5. \A i \in 1..(n + 1) : e[i] = seq[r[i]] /\ e[i] \in good
      <3>1. \A i \in 1..n : e[i] = seq[r[i]] /\ e[i] \in good
        BY <1>2, <2>2, <2>4
      <3>2. e[n + 1] = seq[r[n + 1]] /\ e[n + 1] \in good
        BY <1>5, <2>2, <2>4 DEF s
      <3> QED
        BY <2>3, <3>1, <3>2
    <2>6. \A i, j \in 1..(n + 1) : i < j => r[i] < r[j]
      <3> SUFFICES ASSUME NEW i \in 1..(n + 1), NEW j \in 1..(n + 1), i < j PROVE r[i] < r[j]
        OBVIOUS
      <3>1. i \in 1..n
        BY <1>1, <2>3
      <3>2. CASE j \in 1..n
        BY <1>2, <2>4, <3>1, <3>2
      <3>3. CASE j = n + 1
        BY <2>4, <3>1, <3>3
      <3> QED
        BY <2>3, <3>2, <3>3
    <2>7. \A l \in 1..(m + 1) : seq[l] \in good => \E i \in 1..(n + 1) : r[i] = l
      <3> SUFFICES ASSUME NEW l \in 1..(m + 1), seq[l] \in good
                   PROVE  \E i \in 1..(n + 1) : r[i] = l
        OBVIOUS
      <3>1. CASE l \in 1..m
        BY <1>2, <2>3, <2>4, <3>1
      <3>2. CASE l = m + 1
        BY <2>3, <2>4, <3>2
      <3> QED
        BY <1>3, <3>1, <3>2
    <2>8. Passing(e, seq, good, m + 1, r)
      BY <2>2, <2>4, <2>5, <2>6, <2>7 DEF Passing
    <2> QED
      BY <2>1, <2>8 DEF s
  <1> QED
    BY <1>4, <1>5

LEMMA ThoseArePassing ==
  ASSUME NEW seq, IsList(seq), NEW good
  PROVE  /\ IsList(Those(seq, good))
         /\ \E q : Passing(Those(seq, good), seq, good, Len(seq), q)
  <1> DEFINE n == Len(seq)
             T == {seq[i] : i \in 1..n}
  <1>1. n \in Nat /\ DOMAIN seq = 1..n
    BY DEF IsList
  <1>0. ListIn(seq, n, T)
    BY <1>1 DEF ListIn
  <1> HIDE DEF n, T
  <1>2. PICK p : /\ p[0] = <<>> /\ p[n] = Those(seq, good)
                 /\ \A k \in 0..n : /\ p[k] \in Seq(T)
                                    /\ k < n => p[k + 1] = Passed(p[k], seq[k + 1], good)
    <2> DEFINE those == Those(seq, good)
    <2>1. those = Those(seq, good)
      OBVIOUS
    <2> HIDE DEF those
    <2>2. \E p : /\ p[0] = <<>> /\ p[n] = those
                 /\ \A k \in 0..n : /\ p[k] \in Seq(T)
                                    /\ k < n => p[k + 1] = Passed(p[k], seq[k + 1], good)
      BY <1>0, <1>1, <2>1, ThosePrefixes
    <2> QED
      BY <2>1, <2>2
  <1> DEFINE PassingAt(m) == \E q : Passing(p[m], seq, good, m, q)
             N == {m \in Nat : m <= n => PassingAt(m)}
  <1>3. 0 \in N
    <2>1. Len(<<>>) = 0 /\ \A i : i \notin 1..0
      OBVIOUS
    <2> DEFINE q == [i \in 1..Len(<<>>) |-> 1]
    <2>2. q \in [1..Len(<<>>) -> 1..0]
      BY <2>1
    <2> HIDE DEF q
    <2>3. Passing(<<>>, seq, good, 0, q)
      BY <2>1, <2>2 DEF Passing
    <2> QED
      BY <1>2, <2>3
  <1>4. \A m \in Nat : m \in N => m + 1 \in N
    <2>0. \A m \in Nat : m \in N <=> (m <= n => PassingAt(m))
      OBVIOUS
    <2> HIDE DEF N, PassingAt
    <2> SUFFICES ASSUME NEW m \in Nat, m \in N, m + 1 <= n PROVE PassingAt(m + 1)
      BY <2>0
    <2>1. m \in 0..n /\ m < n /\ m <= n
      BY <1>1
    <2>2. PICK q : Passing(p[m], seq, good, m, q)
      BY <2>0, <2>1 DEF PassingAt
    <2>3. p[m] \in Seq(T) /\ p[m + 1] = Passed(p[m], seq[m + 1], good)
      BY <1>2, <2>1
    <2>4. \E r : Passing(Passed(p[m], seq[m + 1], good), seq, good, m + 1, r)
      BY <2>2, <2>3, PassedPasses
    <2> QED
      BY <2>3, <2>4 DEF PassingAt
  <1> HIDE DEF N
  <1>5. n \in N
    BY <1>1, <1>3, <1>4, NatInductionSet
  <1>6. \E q : Passing(p[n], seq, good, n, q)
    BY <1>1, <1>5 DEF N
  <1>7. p[n] \in Seq(T)
    BY <1>1, <1>2
  <1>8. IsList(p[n])
    BY <1>7 DEF IsList
  <1> QED
    BY <1>2, <1>6, <1>8 DEF n

\* What is in the list of those that pass, and the first of them in a set S.
LEMMA ThoseHave ==
  ASSUME NEW seq, IsList(seq), NEW good, NEW those, those = Those(seq, good), NEW x
  PROVE  /\ DOMAIN those = 1..Len(those) /\ Len(those) \in Nat
         /\ (\E i \in DOMAIN those : those[i] = x) <=> x \in good /\ \E l \in DOMAIN seq : seq[l] = x
  <1>1. IsList(those) /\ \E q : Passing(those, seq, good, Len(seq), q)
    BY ThoseArePassing
  <1>2. PICK q : Passing(those, seq, good, Len(seq), q)
    BY <1>1
  <1>3. DOMAIN those = 1..Len(those) /\ DOMAIN seq = 1..Len(seq)
    BY <1>1 DEF IsList
  <1>4. \A i \in 1..Len(those) : those[i] = seq[q[i]] /\ those[i] \in good /\ q[i] \in 1..Len(seq)
    BY <1>2 DEF Passing
  <1>5. \A l \in 1..Len(seq) : seq[l] \in good => \E i \in 1..Len(those) : q[i] = l
    BY <1>2 DEF Passing
  <1>6. ASSUME NEW i \in DOMAIN those, those[i] = x
        PROVE  x \in good /\ \E l \in DOMAIN seq : seq[l] = x
    BY <1>3, <1>4, <1>6
  <1>7. ASSUME x \in good, NEW l \in DOMAIN seq, seq[l] = x PROVE \E i \in DOMAIN those : those[i] = x
    BY <1>3, <1>4, <1>5, <1>7
  <1> QED
    BY <1>1, <1>3, <1>6, <1>7 DEF IsList

Places(s, S) == {i \in 1..Len(s) : s[i] \in S}

LEMMA FirstOfThose ==
  ASSUME NEW seq, IsList(seq), NEW good, NEW those, those = Those(seq, good), NEW S,
         NEW I, I = Places(seq, good \cap S), NEW J, J = Places(those, S)
  PROVE  /\ I = {} <=> J = {}
         /\ I /= {} => Min(I) \in I /\ Min(J) \in J /\ those[Min(J)] = seq[Min(I)]
  <1> DEFINE n == Len(those)
             m == Len(seq)
  <1>1. IsList(those) /\ \E q : Passing(those, seq, good, Len(seq), q)
    BY ThoseArePassing
  <1>2. PICK q : Passing(those, seq, good, m, q)
    BY <1>1
  <1>3. n \in Nat /\ m \in Nat /\ DOMAIN seq = 1..m
    BY <1>1 DEF IsList
  <1>4. /\ q \in [1..n -> 1..m]
        /\ \A i \in 1..n : those[i] = seq[q[i]] /\ those[i] \in good
        /\ \A i, j \in 1..n : i < j => q[i] < q[j]
        /\ \A l \in 1..m : seq[l] \in good => \E i \in 1..n : q[i] = l
    BY <1>2 DEF Passing
  <1> HIDE DEF n, m
  <1>5. \A j \in J : j \in 1..n /\ q[j] \in I
    BY <1>3, <1>4 DEF n, m, Places
  <1>6. \A i \in I : \E j \in J : q[j] = i
    BY <1>3, <1>4 DEF n, m, Places
  <1>7. I = {} <=> J = {}
    BY <1>5, <1>6
  <1>8. ASSUME I /= {}
        PROVE  Min(I) \in I /\ Min(J) \in J /\ those[Min(J)] = seq[Min(I)]
    <2>1. I \in SUBSET Nat /\ J \in SUBSET Nat /\ J /= {}
      BY <1>3, <1>7, <1>8 DEF Places
    <2>2. \E r \in I : \A y \in I : r <= y
      BY <1>8, <2>1, SmallestExists
    <2>3. Min(I) \in I /\ \A y \in I : Min(I) <= y
      BY <2>2 DEF Min
    <2>4. \E r \in J : \A y \in J : r <= y
      BY <2>1, SmallestExists
    <2>5. Min(J) \in J /\ \A y \in J : Min(J) <= y
      BY <2>4 DEF Min
    <2>6. PICK j \in J : q[j] = Min(I)
      BY <1>6, <2>3
    <2>7. Min(J) = j
      <3>1. Min(J) \in 1..n /\ j \in 1..n /\ Min(J) <= j /\ q[Min(J)] \in I
        BY <1>5, <2>5, <2>6
      <3>2. Min(I) <= q[Min(J)] /\ q[Min(J)] \in 1..m /\ q[j] \in 1..m
        BY <1>4, <2>3, <3>1
      <3>3. ASSUME Min(J) < j PROVE FALSE
        BY <1>3, <1>4, <2>6, <3>1, <3>2, <3>3
      <3> QED
        BY <1>3, <3>1, <3>3
    <2>8. those[j] = seq[q[j]]
      BY <1>4, <1>5
    <2> QED
      BY <2>3, <2>5, <2>6, <2>7, <2>8
  <1> QED
    BY <1>7, <1>8

-----------------------------------------------------------------------------
(* Profiles: the name and the group of an analogue *)

Blank(name) == name = ""
IsBroken(template) == template = "broken"
ServingRules(rules, name) ==
  {i \in DOMAIN rules : /\ ~Blank(name) /\ rules[i].regex.compiles
                        /\ ~Blank(rules[i].template) /\ ~IsBroken(rules[i].template)
                        /\ Upper[name] \in rules[i].regex.matches}
ShowingGroups(groups, name) ==
  {i \in DOMAIN groups :
     /\ ~Blank(name) /\ ~Blank(groups[i].key)
     /\ \E j \in DOMAIN groups[i].patterns :
          groups[i].patterns[j].compiles /\ Upper[name] \in groups[i].patterns[j].matches}

LEMMA NameAnswered ==
  ASSUME NEW rules, IsList(rules), NEW windings, NEW name, NEW profile,
         profile.rules = ParseAliasRules([rules |-> rules]), profile.windings = windings,
         NEW serving, serving = ServingRules(rules, name)
  PROVE  ResolveAnalogName(profile, name) =
           IF serving = {} THEN [kind |-> "name", text |-> Upper[name]]
           ELSE Made(rules[Min(serving)], windings, Upper[name])
  <1> DEFINE good == {r \in ToSet(rules) : r.regex.compiles /\ ~Blank(r.template)}
             those == Those(rules, good)
             S == {r \in ToSet(rules) : Upper[name] \in r.regex.matches /\ ~IsBroken(r.template)}
             J == Places(those, S)
             I == Places(rules, good \cap S)
  <1>1. profile.rules = those
    BY DEF ParseAliasRules, Blank
  <1>2. \A i \in DOMAIN rules : rules[i] \in ToSet(rules)
    BY DEF ToSet
  <1>3. CASE Blank(name)
    BY <1>3 DEF ResolveAnalogName, ServingRules, Blank
  <1>4. CASE ~Blank(name)
    <2>1. I = serving
      BY <1>2, <1>4 DEF Places, IsList, ServingRules
    <2>2. \A i \in 1..Len(those) : those[i] \in ToSet(rules)
      <3> SUFFICES ASSUME NEW i \in 1..Len(those) PROVE those[i] \in ToSet(rules)
        OBVIOUS
      <3> DEFINE x == those[i]
      <3>1. (\E j \in DOMAIN those : those[j] = x) => x \in good
        BY ThoseHave
      <3>2. DOMAIN those = 1..Len(those)
        BY ThoseHave
      <3> QED
        BY <3>1, <3>2
    <2>3. \A r \in ToSet(rules) : Apply(r, windings, Upper[name]) /= NoneYet <=> r \in S
      BY DEF Apply, Made, NoneYet, IsBroken
    <2>4. J = {i \in 1..Len(those) : Apply(those[i], windings, Upper[name]) /= NoneYet}
      BY <2>2, <2>3 DEF Places
    <2>0. those = Those(rules, good) /\ I = Places(rules, good \cap S) /\ J = Places(those, S)
      OBVIOUS
    <2> HIDE DEF those, good, S, J, I
    <2>5. /\ I = {} <=> J = {}
          /\ I /= {} => Min(I) \in I /\ Min(J) \in J /\ those[Min(J)] = rules[Min(I)]
      BY <2>0, FirstOfThose
    <2> DEFINE first == SelectInSeq(profile.rules,
                          LAMBDA rule : Apply(rule, profile.windings, Upper[name]) /= NoneYet)
    <2>6. first = IF J /= {} THEN Min(J) ELSE 0
      BY <1>1, <2>4 DEF SelectInSeq
    <2>7. ResolveAnalogName(profile, name) =
            IF first = 0 THEN [kind |-> "name", text |-> Upper[name]]
            ELSE Apply(profile.rules[first], profile.windings, Upper[name])
      BY <1>4 DEF ResolveAnalogName, Blank
    <2> HIDE DEF first
    <2>8. CASE serving = {}
      BY <2>1, <2>5, <2>6, <2>7, <2>8
    <2>9. CASE serving /= {}
      <3>1. Min(J) \in 1..Len(those) /\ those[Min(J)] \in S /\ those[Min(J)] = rules[Min(serving)]
        BY <2>0, <2>1, <2>5, <2>9 DEF Places
      <3>2. first = Min(J) /\ first /= 0
        BY <2>1, <2>5, <2>6, <2>9, <3>1
      <3>3. Apply(those[Min(J)], windings, Upper[name]) = Made(those[Min(J)], windings, Upper[name])
        BY <3>1 DEF Apply, S, IsBroken
      <3> QED
        BY <1>1, <2>7, <2>9, <3>1, <3>2, <3>3
    <2> QED
      BY <2>8, <2>9
  <1> QED
    BY <1>3, <1>4

ParsedGroup(g) ==
  [key |-> g.key, patterns |-> Those(g.patterns, {p \in ToSet(g.patterns) : p.compiles})]
Shown(g, upper) == \E i \in DOMAIN g.patterns : upper \in g.patterns[i].matches
ShownRaw(g, upper) == \E i \in DOMAIN g.patterns : g.patterns[i].compiles /\ upper \in g.patterns[i].matches

\* A group shows what it shows, whatever patterns do not compile.
LEMMA ParsedShows ==
  ASSUME NEW g, IsList(g.patterns), NEW upper
  PROVE  /\ Shown(ParsedGroup(g), upper) <=> ShownRaw(g, upper)
         /\ Shown(ParsedGroup(g), upper) => ParsedGroup(g).patterns /= <<>>
  <1> DEFINE good == {p \in ToSet(g.patterns) : p.compiles}
             those == Those(g.patterns, good)
  <1>1. ParsedGroup(g).patterns = those /\ those = Those(g.patterns, good)
    BY DEF ParsedGroup
  <1>2. \A x : x \in good <=> x.compiles /\ \E l \in DOMAIN g.patterns : g.patterns[l] = x
    BY DEF ToSet
  <1> HIDE DEF good, those
  <1>3. ASSUME NEW i \in DOMAIN those, upper \in those[i].matches PROVE ShownRaw(g, upper)
    <2> DEFINE x == those[i]
    <2>1. (\E j \in DOMAIN those : those[j] = x) <=> x \in good /\ \E l \in DOMAIN g.patterns : g.patterns[l] = x
      BY <1>1, ThoseHave
    <2>2. x \in good /\ x.matches = those[i].matches
      BY <2>1
    <2> HIDE DEF x
    <2> QED
      BY <1>2, <1>3, <2>2 DEF ShownRaw
  <1>4. ASSUME NEW l \in DOMAIN g.patterns, g.patterns[l].compiles, upper \in g.patterns[l].matches
        PROVE  \E i \in DOMAIN those : upper \in those[i].matches
    <2> DEFINE x == g.patterns[l]
    <2>1. (\E j \in DOMAIN those : those[j] = x) <=> x \in good /\ \E k \in DOMAIN g.patterns : g.patterns[k] = x
      BY <1>1, ThoseHave
    <2>2. x \in good
      BY <1>2, <1>4
    <2>3. \E j \in DOMAIN those : those[j] = x
      BY <2>1, <2>2
    <2> QED
      BY <1>4, <2>3
  <1>5. DOMAIN <<>> = {}
    OBVIOUS
  <1> QED
    BY <1>1, <1>3, <1>4, <1>5 DEF Shown, ShownRaw

LEMMA GroupAnswered ==
  ASSUME NEW groups, IsList(groups), \A i \in DOMAIN groups : IsList(groups[i].patterns),
         NEW name, NEW profile, profile.analog_groups = ParseAnalogGroups(groups),
         NEW showing, showing = ShowingGroups(groups, name)
  PROVE  /\ showing = {} <=> AnalogGroupFor(profile, name) = NoneYet
         /\ showing /= {} => AnalogGroupFor(profile, name).key = groups[Min(showing)].key
  <1> DEFINE n == Len(groups)
             parsed == [i \in DOMAIN groups |-> ParsedGroup(groups[i])]
             good == {g \in ToSet(parsed) : ~Blank(g.key) /\ g.patterns /= <<>>}
             those == Those(parsed, good)
             S == {g \in ToSet(parsed) : Shown(g, Upper[name])}
             J == Places(those, S)
             I == Places(parsed, good \cap S)
  <1>1. profile.analog_groups = those
    BY DEF ParseAnalogGroups, ParsedGroup, Blank
  <1>2. n \in Nat /\ DOMAIN groups = 1..n /\ IsList(parsed) /\ DOMAIN parsed = 1..n /\ Len(parsed) = n
    BY DEF IsList
  <1>3. \A i \in 1..n : /\ parsed[i] = ParsedGroup(groups[i]) /\ parsed[i] \in ToSet(parsed)
                        /\ parsed[i].key = groups[i].key
    BY <1>2 DEF ToSet, ParsedGroup
  <1>4. \A g \in ToSet(parsed) : g /= NoneYet
    <2>1. \A g : ParsedGroup(g) /= NoneYet
      BY DEF ParsedGroup, NoneYet
    <2> QED
      BY <1>2, <1>3, <2>1 DEF ToSet
  <1>5. CASE Blank(name)
    BY <1>5 DEF AnalogGroupFor, ShowingGroups, Blank
  <1>6. CASE ~Blank(name)
    <2>1. \A i \in 1..n : parsed[i] \in good \cap S <=> i \in showing
      <3> SUFFICES ASSUME NEW i \in 1..n PROVE parsed[i] \in good \cap S <=> i \in showing
        OBVIOUS
      <3> DEFINE g == groups[i]
      <3>1. IsList(g.patterns)
        BY <1>2
      <3>2. /\ Shown(ParsedGroup(g), Upper[name]) <=> ShownRaw(g, Upper[name])
            /\ Shown(ParsedGroup(g), Upper[name]) => ParsedGroup(g).patterns /= <<>>
        BY <3>1, ParsedShows
      <3>3. i \in showing <=> ~Blank(g.key) /\ ShownRaw(g, Upper[name])
        BY <1>2, <1>6 DEF ShowingGroups, ShownRaw
      <3>4. parsed[i] = ParsedGroup(g) /\ parsed[i] \in ToSet(parsed) /\ parsed[i].key = g.key
        BY <1>3
      <3> HIDE DEF g, parsed
      <3> QED
        BY <3>2, <3>3, <3>4
    <2>2. I = showing
      BY <1>2, <2>1 DEF Places, ShowingGroups
    <2>3. \A i \in 1..Len(those) : those[i] \in ToSet(parsed)
      <3> SUFFICES ASSUME NEW i \in 1..Len(those) PROVE those[i] \in ToSet(parsed)
        OBVIOUS
      <3> DEFINE x == those[i]
      <3>1. (\E j \in DOMAIN those : those[j] = x) => x \in good
        BY <1>2, ThoseHave
      <3>2. DOMAIN those = 1..Len(those)
        BY <1>2, ThoseHave
      <3> QED
        BY <3>1, <3>2
    <2>4. J = {i \in 1..Len(those) : Shown(those[i], Upper[name])}
      BY <2>3 DEF Places
    <2>0. those = Those(parsed, good) /\ I = Places(parsed, good \cap S) /\ J = Places(those, S)
      OBVIOUS
    <2> HIDE DEF those, good, S, J, I, parsed
    <2>5. /\ I = {} <=> J = {}
          /\ I /= {} => Min(I) \in I /\ Min(J) \in J /\ those[Min(J)] = parsed[Min(I)]
      BY <1>2, <2>0, FirstOfThose
    <2> DEFINE first == SelectInSeq(profile.analog_groups,
             LAMBDA grp : \E i \in DOMAIN grp.patterns : Upper[name] \in grp.patterns[i].matches)
    <2>6. first = IF J /= {} THEN Min(J) ELSE 0
      BY <1>1, <2>4 DEF SelectInSeq, Shown
    <2>7. AnalogGroupFor(profile, name) = IF first = 0 THEN NoneYet ELSE profile.analog_groups[first]
      BY <1>6 DEF AnalogGroupFor, Blank
    <2> HIDE DEF first
    <2>8. CASE showing = {}
      BY <2>2, <2>5, <2>6, <2>7, <2>8
    <2>9. CASE showing /= {}
      <3>1. Min(J) \in 1..Len(those) /\ those[Min(J)] = parsed[Min(showing)] /\ Min(showing) \in 1..n
        BY <1>2, <2>0, <2>2, <2>5, <2>9 DEF Places
      <3>2. first = Min(J) /\ first /= 0
        BY <2>2, <2>5, <2>6, <2>9, <3>1
      <3> QED
        BY <1>1, <1>3, <1>4, <2>7, <2>9, <3>1, <3>2
    <2> QED
      BY <2>8, <2>9
  <1> QED
    BY <1>5, <1>6

-----------------------------------------------------------------------------
(* Profiles: identifiers *)

SourceOf(raw, k) ==
  CASE k = "ip" -> raw.ip [] k = "rid" -> raw.relay_id [] k = "mac" -> raw.mac_address
KeyOf(raw, k) ==
  IF k = "ip" /\ Blank(SourceOf(raw, k).key) THEN "IPADDR" ELSE SourceOf(raw, k).key
DeclaredIn(raw) ==
  {k \in {"ip", "rid", "mac"} :
     /\ SourceOf(raw, k) /= NoneYet /\ ~Blank(SourceOf(raw, k).file)
     /\ k = "ip" \/ ~Blank(SourceOf(raw, k).key)}
IsRawSources(raw) ==
  /\ raw.ip /= NoneYet
  /\ IsSource(raw.ip) /\ IsSource(raw.relay_id) /\ IsSource(raw.mac_address)

LEMMA SourcesAre ==
  ASSUME NEW raw, IsRawSources(raw)
  PROVE  /\ DOMAIN IdentifierSources(raw) = DeclaredIn(raw)
         /\ \A k \in DeclaredIn(raw) : /\ IdentifierSources(raw)[k].file = SourceOf(raw, k).file
                                       /\ IdentifierSources(raw)[k].key = KeyOf(raw, k)
  <1> DEFINE Half(s) == s = NoneYet \/ Blank(s.file) \/ Blank(s.key)
             Given(s) == IF Half(s) THEN NoneYet ELSE s
             ip == IF Blank(raw.ip.file) THEN NoneYet
                   ELSE [raw.ip EXCEPT !.key = IF Blank(@) THEN "IPADDR" ELSE @]
             rid == Given(raw.relay_id)
             mac == Given(raw.mac_address)
             all == [ip |-> ip, rid |-> rid, mac |-> mac]
  <1>1. \A s : ParseIdentifier(s) = Given(s)
    <2> TAKE s
    <2>1. "" \in {s.file, s.key} <=> Blank(s.file) \/ Blank(s.key)
      BY Zenon DEF Blank
    <2> QED
      BY <2>1, Zenon DEF ParseIdentifier
  <1>2. IdentifierSources(raw) = [k \in {m \in DOMAIN all : all[m] /= NoneYet} |-> all[k]]
    <2>1. ip = IF raw.ip.file = "" THEN NoneYet
               ELSE [raw.ip EXCEPT !.key = IF @ = "" THEN "IPADDR" ELSE @]
      BY Zenon DEF Blank
    <2>2. rid = ParseIdentifier(raw.relay_id) /\ mac = ParseIdentifier(raw.mac_address)
      BY <1>1, Zenon
    <2> HIDE DEF ip, rid, mac
    <2> QED
      BY <2>1, <2>2, Zenon DEF IdentifierSources
  <1>3. raw.ip = [kind |-> "source", file |-> raw.ip.file, key |-> raw.ip.key]
    BY DEF IsRawSources, IsSource
  <1>4. ~Blank(raw.ip.file) => /\ ip /= NoneYet /\ ip.file = raw.ip.file
                               /\ ip.key = IF Blank(raw.ip.key) THEN "IPADDR" ELSE raw.ip.key
    BY <1>3 DEF NoneYet
  <1>5. Blank(raw.ip.file) => ip = NoneYet
    OBVIOUS
  <1>6. rid = Given(raw.relay_id) /\ mac = Given(raw.mac_address)
    OBVIOUS
  <1> HIDE DEF ip, rid, mac
  <1>7. DOMAIN all = {"ip", "rid", "mac"} /\ all["ip"] = ip /\ all["rid"] = rid /\ all["mac"] = mac
    OBVIOUS
  <1> HIDE DEF all
  <1>8. \A k \in {"ip", "rid", "mac"} : all[k] /= NoneYet <=> k \in DeclaredIn(raw)
    BY <1>4, <1>5, <1>6, <1>7 DEF DeclaredIn, SourceOf, IsRawSources
  <1>9. \A k \in DeclaredIn(raw) : all[k].file = SourceOf(raw, k).file /\ all[k].key = KeyOf(raw, k)
    BY <1>4, <1>5, <1>6, <1>7 DEF DeclaredIn, SourceOf, KeyOf
  <1>10. DeclaredIn(raw) \subseteq {"ip", "rid", "mac"}
    BY DEF DeclaredIn
  <1> QED
    BY <1>2, <1>7, <1>8, <1>9, <1>10

\* What a set's least number is, and its greatest.
LEMMA MinIs ==
  ASSUME NEW S \in SUBSET Nat, NEW m \in S, \A x \in S : m <= x
  PROVE  Min(S) = m
  <1>1. Min(S) \in S /\ \A x \in S : Min(S) <= x
    BY DEF Min
  <1>2. m \in Nat /\ Min(S) \in Nat /\ m <= Min(S) /\ Min(S) <= m
    BY <1>1
  <1> QED
    BY <1>2
LEMMA MaxIs ==
  ASSUME NEW S \in SUBSET Nat, NEW m \in S, \A x \in S : x <= m
  PROVE  Max(S) = m
  <1>1. Max(S) \in S /\ \A x \in S : x <= Max(S)
    BY DEF Max
  <1>2. m \in Nat /\ Max(S) \in Nat /\ m <= Max(S) /\ Max(S) <= m
    BY <1>1
  <1> QED
    BY <1>2

LEMMA AfterIs ==
  ASSUME NEW text, IsList(text), NEW i \in Nat, i <= Len(text), NEW a, a = After(text, i)
  PROVE  /\ a \in (i + 1)..(Len(text) + 1)
         /\ \A j \in (i + 1)..(a - 1) : text[j] = Space
         /\ a \in DOMAIN text => text[a] /= Space
  <1> DEFINE S == {j \in (i + 1)..Len(text) : text[j] /= Space} \cup {Len(text) + 1}
  <1>1. Len(text) \in Nat /\ DOMAIN text = 1..Len(text)
    BY DEF IsList
  <1>2. S \in SUBSET Nat /\ S /= {}
    BY <1>1
  <1>3. \E r \in S : \A y \in S : r <= y
    BY <1>2, SmallestExists
  <1>4. a = Min(S)
    BY DEF After
  <1>5. a \in S /\ \A y \in S : a <= y
    <2> HIDE DEF S
    <2> QED
      BY <1>3, <1>4 DEF Min
  <1>6. a \in (i + 1)..(Len(text) + 1)
    BY <1>1, <1>5
  <1>7. \A j \in (i + 1)..(a - 1) : text[j] = Space
    <2> TAKE j \in (i + 1)..(a - 1)
    <2>1. j \notin S
      BY <1>1, <1>5, <1>6
    <2> QED
      BY <1>1, <1>6, <2>1
  <1>8. a \in DOMAIN text => text[a] /= Space
    BY <1>1, <1>5
  <1> QED
    BY <1>6, <1>7, <1>8

\* The marks of a text are told apart.
LEMMA Marks ==
  /\ Space \notin Stops /\ Space \in Blanks /\ LineEnd \in Stops /\ LineEnd \in Blanks
  /\ Comma \in Stops /\ Comma \notin Blanks /\ Quote \in Stops /\ Quote \notin Blanks
  /\ Quote /= Comma /\ LineEnd /= Comma /\ LineEnd /= Quote
  /\ \A w \in Blanks : w = Space \/ w = LineEnd
  BY DEF Space, LineEnd, Comma, Quote, Stops, Blanks

LineEndsAt(text, i) == i \in DOMAIN text /\ text[i] = LineEnd
\* Where the values of the key at q may begin: c is its comma, n what comes after it.
LEMMA ValuesFrom ==
  ASSUME NEW text, IsList(text), NEW q \in DOMAIN text, NEW c, c = After(text, q),
         c \in DOMAIN text, text[c] = Comma, NEW n, n = After(text, c),
         NEW g \in DOMAIN text, text[g] \notin Stops,
         g \in (c + 1)..n \/ (g = n + 1 /\ n \in DOMAIN text /\ text[n] = Quote)
  PROVE  g \in ValuesAt(text, q)
  <1>1. Len(text) \in Nat /\ DOMAIN text = 1..Len(text)
    BY DEF IsList
  <1>2. c \in (q + 1)..(Len(text) + 1) /\ \A j \in (q + 1)..(c - 1) : text[j] = Space
    BY <1>1, AfterIs
  <1>3. n \in (c + 1)..(Len(text) + 1) /\ \A j \in (c + 1)..(n - 1) : text[j] = Space
    BY <1>1, AfterIs
  <1>4. q < c /\ BlankBetween(text, q, c)
    BY <1>1, <1>2, Marks DEF BlankBetween
  <1>5. PICK e \in DOMAIN text : c < e /\ e <= n /\ (e = g \/ (e = g - 1 /\ text[e] = Quote))
    <2>1. g \in (c + 1)..n => c < g /\ g <= n
      BY <1>1, <1>3
    <2>2. g = n + 1 => n = g - 1 /\ c < n
      BY <1>1, <1>3
    <2> QED
      BY <1>1, <1>3, <2>1, <2>2
  <1>6. BlankBetween(text, c, e)
    BY <1>1, <1>3, <1>5, Marks DEF BlankBetween
  <1> QED
    BY <1>4, <1>5, <1>6 DEF ValuesAt, Opens

\* Nowhere else, unless the pattern reads on.
LEMMA ValuesOnly ==
  ASSUME NEW text, IsList(text), NEW q \in DOMAIN text, ~RunsOver(text, q),
         NEW g \in ValuesAt(text, q), NEW c, c = After(text, q), NEW n, n = After(text, c)
  PROVE  /\ c \in DOMAIN text /\ text[c] = Comma
         /\ g \in (c + 1)..n \/ (g = n + 1 /\ n \in DOMAIN text /\ text[n] = Quote)
  <1>1. Len(text) \in Nat /\ DOMAIN text = 1..Len(text)
    BY DEF IsList
  <1>2. /\ c \in (q + 1)..(Len(text) + 1) /\ \A j \in (q + 1)..(c - 1) : text[j] = Space
        /\ c \in DOMAIN text => text[c] /= Space
    BY <1>1, AfterIs
  <1>3. ~LineEndsAt(text, c) /\ (c \in DOMAIN text /\ text[c] = Comma => ~LineEndsAt(text, n))
    BY DEF RunsOver, LineEndsAt
  <1>4. g \in DOMAIN text /\ text[g] \notin Stops /\ Opens(text, q, g)
    BY DEF ValuesAt
  <1>5. PICK d \in DOMAIN text, e \in DOMAIN text :
          /\ q < d /\ BlankBetween(text, q, d) /\ text[d] = Comma
          /\ d < e /\ BlankBetween(text, d, e)
          /\ e = g \/ (e = g - 1 /\ text[e] = Quote)
    BY <1>4 DEF Opens
  <1>6. d = c
    <2>1. ~(d < c)
      BY <1>1, <1>2, <1>5, Marks
    <2>2. ~(c < d)
      <3> SUFFICES ASSUME c < d PROVE FALSE
        OBVIOUS
      <3>1. c \in DOMAIN text /\ c \in (q + 1)..(d - 1)
        BY <1>1, <1>2
      <3>2. text[c] \in Blanks
        BY <1>5, <3>1 DEF BlankBetween
      <3> QED
        BY <1>2, <1>3, <3>1, <3>2, Marks DEF LineEndsAt
    <2> QED
      BY <1>1, <1>2, <2>1, <2>2
  <1>7. /\ n \in (c + 1)..(Len(text) + 1) /\ \A j \in (c + 1)..(n - 1) : text[j] = Space
        /\ n \in DOMAIN text => text[n] /= Space
    BY <1>1, <1>5, <1>6, AfterIs
  <1>8. e <= n
    <2> SUFFICES ASSUME n < e PROVE FALSE
      BY <1>1, <1>7
    <2>1. n \in DOMAIN text /\ n \in (c + 1)..(e - 1)
      BY <1>1, <1>2, <1>7
    <2>2. text[n] \in Blanks
      BY <1>5, <1>6, <2>1 DEF BlankBetween
    <2> QED
      BY <1>3, <1>5, <1>6, <1>7, <2>1, <2>2, Marks DEF LineEndsAt
  <1>9. e = g => g \in (c + 1)..n
    BY <1>1, <1>5, <1>6, <1>7, <1>8
  <1>10. ASSUME e = g - 1, text[e] = Quote
         PROVE  g = n + 1 /\ n \in DOMAIN text /\ text[n] = Quote
    <2>1. e = n
      BY <1>1, <1>5, <1>6, <1>7, <1>8, <1>10, Marks
    <2> QED
      BY <1>1, <1>4, <1>10, <2>1
  <1> QED
    BY <1>5, <1>6, <1>9, <1>10

LEMMA OneSpace ==
  ASSUME NEW text, NEW i \in Int, text[i] = Space
  PROVE  Trimmed(SubSeq(text, i, i)) = <<>>
  <1> DEFINE s == SubSeq(text, i, i)
  <1>1. s = [k \in 1..(1 + i - i) |-> text[k + i - 1]]
    BY DEF SubSeq
  <1>2. \A k \in 1..1 : k + i - 1 = i
    OBVIOUS
  <1>3. s = [k \in 1..1 |-> text[i]]
    BY <1>1, <1>2
  <1> HIDE DEF s
  <1>4. {k \in DOMAIN s : s[k] /= Space} = {}
    BY <1>3
  <1> QED
    BY <1>4 DEF Trimmed, s

\* The value a greedy match takes is that of the line, unless the pattern reads
\* on; and it always finds one where the line has one.
LEMMA ValueOfLine ==
  ASSUME NEW text, IsList(text), NEW q \in DOMAIN text
  PROVE  /\ LineValue(text, q) /= NoneYet => ValuesAt(text, q) /= {}
         /\ ~RunsOver(text, q) /\ ValuesAt(text, q) /= {} =>
              LineValue(text, q) = Setting(Trimmed(Matched(text, Max(ValuesAt(text, q)))))
  <1> DEFINE c == After(text, q)
             n == After(text, c)
             g == IF n \in DOMAIN text /\ text[n] = Quote THEN n + 1 ELSE n
             V == ValuesAt(text, q)
             Valued == g \in DOMAIN text /\ text[g] \notin Stops
  <1>1. Len(text) \in Nat /\ DOMAIN text = 1..Len(text)
    BY DEF IsList
  <1>2. c \in (q + 1)..(Len(text) + 1)
    BY <1>1, AfterIs
  <1>3. V \in SUBSET Nat /\ V \in SUBSET (DOMAIN text)
    BY <1>1 DEF ValuesAt
  <1>4. ASSUME c \in DOMAIN text, text[c] = Comma
        PROVE  /\ n \in (c + 1)..(Len(text) + 1) /\ \A j \in (c + 1)..(n - 1) : text[j] = Space
               /\ n \in DOMAIN text => text[n] /= Space
               /\ LineValue(text, q) = IF Valued THEN Setting(Trimmed(Matched(text, g)))
                                       ELSE IF n > c + 1 THEN Setting(<<>>) ELSE NoneYet
               /\ \A x \in DOMAIN text :
                    /\ text[x] \notin Stops
                    /\ x \in (c + 1)..n \/ (x = n + 1 /\ n \in DOMAIN text /\ text[n] = Quote)
                    => x \in V
    <2>1. /\ n \in (c + 1)..(Len(text) + 1) /\ \A j \in (c + 1)..(n - 1) : text[j] = Space
          /\ n \in DOMAIN text => text[n] /= Space
      BY <1>1, <1>2, <1>4, AfterIs
    <2>2. LineValue(text, q) = IF Valued THEN Setting(Trimmed(Matched(text, g)))
                               ELSE IF n > c + 1 THEN Setting(<<>>) ELSE NoneYet
      BY <1>4, Zenon DEF LineValue
    <2> HIDE DEF Valued, g
    <2>3. \A x \in DOMAIN text :
            /\ text[x] \notin Stops
            /\ x \in (c + 1)..n \/ (x = n + 1 /\ n \in DOMAIN text /\ text[n] = Quote)
            => x \in V
      BY <1>4, ValuesFrom
    <2> QED
      BY <2>1, <2>2, <2>3
  <1>5. ~(c \in DOMAIN text /\ text[c] = Comma) => LineValue(text, q) = NoneYet
    BY Zenon DEF LineValue
  <1>6. ASSUME ~RunsOver(text, q), NEW x \in V
        PROVE  /\ c \in DOMAIN text /\ text[c] = Comma
               /\ x \in (c + 1)..n \/ (x = n + 1 /\ n \in DOMAIN text /\ text[n] = Quote)
    BY <1>6, ValuesOnly
  <1> HIDE DEF c, n, V
  <1>7. ASSUME LineValue(text, q) /= NoneYet PROVE V /= {}
    <2>1. c \in DOMAIN text /\ text[c] = Comma
      BY <1>5, <1>7
    <2>2. ASSUME Valued PROVE V /= {}
      BY <1>1, <1>2, <1>4, <2>1, <2>2
    <2>3. ASSUME ~Valued PROVE V /= {}
      <3>1. n > c + 1
        BY <1>4, <1>7, <2>1, <2>3
      <3>2. c + 1 \in DOMAIN text /\ text[c + 1] = Space /\ c + 1 \in (c + 1)..n
        BY <1>1, <1>2, <1>4, <2>1, <3>1
      <3> QED
        BY <1>4, <2>1, <3>2, Marks
    <2> QED
      BY <2>2, <2>3
  <1>8. ASSUME ~RunsOver(text, q), V /= {}
        PROVE  LineValue(text, q) = Setting(Trimmed(Matched(text, Max(V))))
    <2>1. c \in DOMAIN text /\ text[c] = Comma
      BY <1>6, <1>8
    <2>2. ASSUME Valued PROVE LineValue(text, q) = Setting(Trimmed(Matched(text, Max(V))))
      <3>1. g \in V /\ \A x \in V : x <= g
        BY <1>1, <1>2, <1>3, <1>4, <1>6, <1>8, <2>1, <2>2
      <3>2. Max(V) = g
        BY <1>3, <3>1, MaxIs
      <3> QED
        BY <1>4, <2>1, <2>2, <3>2
    <2>3. ASSUME ~Valued PROVE LineValue(text, q) = Setting(Trimmed(Matched(text, Max(V))))
      <3>1. \A x \in V : x \in (c + 1)..(n - 1)
        <4> TAKE x \in V
        <4>1. x \in DOMAIN text /\ text[x] \notin Stops
          BY DEF V, ValuesAt
        <4> QED
          BY <1>1, <1>2, <1>4, <1>6, <1>8, <2>1, <2>3, <4>1, Marks
      <3>2. n > c + 1
        BY <1>2, <1>4, <1>8, <2>1, <3>1
      <3>3. n - 1 \in DOMAIN text /\ text[n - 1] = Space /\ n - 1 \in V
        BY <1>1, <1>2, <1>4, <2>1, <3>2, Marks
      <3>4. Max(V) = n - 1
        BY <1>2, <1>3, <1>4, <2>1, <3>1, <3>3, MaxIs
      <3>5. n = Len(text) + 1 \/ (n \in DOMAIN text /\ text[n] \in Stops)
        BY <1>1, <1>2, <1>4, <2>1, <2>3, Marks
      <3>6. Matched(text, n - 1) = SubSeq(text, n - 1, n - 1)
        <4> DEFINE S == {j \in (n - 1)..Len(text) : text[j] \in Stops} \cup {Len(text) + 1}
        <4>1. S \in SUBSET Nat /\ n \in S /\ \A j \in S : n <= j
          BY <1>1, <1>2, <1>4, <2>1, <3>3, <3>5, Marks
        <4>2. Min(S) = n
          <5> HIDE DEF S
          <5> QED
            BY <4>1, MinIs
        <4> QED
          BY <4>2 DEF Matched
      <3>7. Trimmed(SubSeq(text, n - 1, n - 1)) = <<>>
        BY <1>1, <3>3, OneSpace
      <3> QED
        BY <1>4, <2>1, <2>3, <3>2, <3>4, <3>6, <3>7
    <2> QED
      BY <2>2, <2>3
  <1> QED
    BY <1>7, <1>8 DEF V

\* What a text answers for a key is what its lines say.
LEMMA SettingOfLines ==
  ASSUME NEW text, IsList(text), NEW key
  PROVE  /\ ~Overrun(text, key) => SettingIn(text, key) = ByLine(text, key)
         /\ SettingIn(text, key) = NoneYet => Says(text, key) = {}
         /\ text = <<>> => SettingIn(text, key) = NoneYet
  <1> DEFINE K == KeysAt(text, key)
             found == {q \in K : ValuesAt(text, q) /= {}}
             said == Says(text, key)
             Value(q) == Setting(Trimmed(Matched(text, Max(ValuesAt(text, q)))))
  <1>1. K \in SUBSET (DOMAIN text) /\ DOMAIN text \in SUBSET Nat
    BY DEF KeysAt, IsList
  <1>2. SettingIn(text, key) = IF found = {} THEN NoneYet ELSE Value(Min(found))
    BY Zenon DEF SettingIn
  <1>3. \A v : Setting(v) /= NoneYet
    BY DEF Setting, NoneYet
  <1>4. \A q \in K : /\ LineValue(text, q) /= NoneYet => ValuesAt(text, q) /= {}
                     /\ ~RunsOver(text, q) /\ ValuesAt(text, q) /= {} => LineValue(text, q) = Value(q)
    BY <1>1, ValueOfLine
  <1>5. \A q \in K : q \in said <=> LineValue(text, q) /= NoneYet
    BY DEF Says
  <1>6. said \in SUBSET K
    BY DEF Says
  <1>7. said \in SUBSET found
    BY <1>4, <1>5, <1>6
  <1>8. \A q \in found : ~RunsOver(text, q) => q \in said /\ LineValue(text, q) = Value(q)
    BY <1>3, <1>4, <1>5
  <1>9. Overrun(text, key) <=> \E r \in K : RunsOver(text, r) /\ \A q \in said : r <= q
    BY DEF Overrun
  <1>10. text = <<>> => K = {}
    BY DEF KeysAt
  <1>11. found \in SUBSET K
    OBVIOUS
  <1> HIDE DEF K, found, said, Value
  <1>12. ASSUME ~Overrun(text, key) PROVE SettingIn(text, key) = ByLine(text, key)
    <2>1. ASSUME said = {} PROVE SettingIn(text, key) = ByLine(text, key)
      <3>1. found = {}
        BY <1>8, <1>9, <1>11, <1>12, <2>1
      <3> QED
        BY <1>2, <2>1, <3>1 DEF ByLine, said
    <2>2. ASSUME said /= {} PROVE SettingIn(text, key) = ByLine(text, key)
      <3>1. said \in SUBSET Nat /\ found \in SUBSET Nat
        BY <1>1, <1>6, <1>11
      <3>2. \E r \in said : \A y \in said : r <= y
        BY <2>2, <3>1, SmallestExists
      <3>3. Min(said) \in said /\ \A y \in said : Min(said) <= y
        BY <3>2 DEF Min
      <3>4. ~RunsOver(text, Min(said))
        BY <1>6, <1>9, <1>12, <3>3
      <3>5. ASSUME NEW q \in found PROVE Min(said) <= q
        <4>1. ASSUME q < Min(said) PROVE FALSE
          <5>1. q \in Nat /\ q \in K /\ Min(said) \in Nat
            BY <1>11, <3>1, <3>3
          <5>2. \A y \in said : q <= y
            BY <3>1, <3>3, <4>1, <5>1
          <5>3. ~RunsOver(text, q)
            BY <1>9, <1>12, <5>1, <5>2
          <5>4. ~(Min(said) <= q)
            BY <4>1, <5>1
          <5> QED
            BY <1>8, <3>3, <5>3, <5>4
        <4>2. q \in Nat /\ Min(said) \in Nat
          BY <3>1, <3>3
        <4> QED
          BY <4>1, <4>2
      <3>6. Min(found) = Min(said)
        BY <1>7, <3>1, <3>3, <3>5, MinIs
      <3>7. SettingIn(text, key) = LineValue(text, Min(said))
        BY <1>2, <1>7, <1>8, <3>3, <3>4, <3>6
      <3> QED
        BY <2>2, <3>7 DEF ByLine, said
    <2> QED
      BY <2>1, <2>2
  <1>13. SettingIn(text, key) = NoneYet => said = {}
    BY <1>2, <1>3, <1>7 DEF Value
  <1>14. text = <<>> => SettingIn(text, key) = NoneYet
    BY <1>2, <1>10, <1>11
  <1> QED
    BY <1>12, <1>13, <1>14 DEF said

\* A setting is of the first file of its name, where that can be read.
FirstText(dir, named) ==
  IF named = {} THEN <<>> ELSE IF dir[Min(named)].readable THEN dir[Min(named)].text ELSE <<>>
AreFiles(dir) == IsList(dir) /\ \A i \in DOMAIN dir : IsList(dir[i].text) /\ dir[i].readable \in BOOLEAN
LEMMA SettingRead ==
  ASSUME NEW dir, AreFiles(dir), NEW src,
         NEW named, named = {i \in DOMAIN dir : Upper[dir[i].name] = Upper[src.file]}
  PROVE  /\ IsList(FirstText(dir, named))
         /\ ReadSetting(dir, src) = SettingIn(FirstText(dir, named), src.key)
  <1> DEFINE f == SelectInSeq(dir, LAMBDA file : Upper[file.name] = Upper[src.file])
  <1>1. ReadSetting(dir, src) =
          CASE f = 0 -> NoneYet
            [] f > 0 -> IF dir[f].readable THEN SettingIn(dir[f].text, src.key) ELSE NoneYet
    BY Zenon DEF ReadSetting
  <1>2. f = IF named /= {} THEN Min(named) ELSE 0
    BY DEF SelectInSeq, AreFiles, IsList
  <1>3. IsList(<<>>) /\ SettingIn(<<>>, src.key) = NoneYet
    <2>1. IsList(<<>>)
      BY DEF IsList
    <2> QED
      BY <2>1, SettingOfLines
  <1> HIDE DEF f
  <1>4. ASSUME named = {}
        PROVE  /\ IsList(FirstText(dir, named))
               /\ ReadSetting(dir, src) = SettingIn(FirstText(dir, named), src.key)
    BY <1>1, <1>2, <1>3, <1>4 DEF FirstText
  <1>5. ASSUME named /= {}
        PROVE  /\ IsList(FirstText(dir, named))
               /\ ReadSetting(dir, src) = SettingIn(FirstText(dir, named), src.key)
    <2>1. named \in SUBSET Nat /\ named \in SUBSET (DOMAIN dir) /\ 0 \notin named
      BY DEF AreFiles, IsList
    <2>2. \E r \in named : \A y \in named : r <= y
      BY <1>5, <2>1, SmallestExists
    <2>3. Min(named) \in named
      BY <2>2 DEF Min
    <2>4. f = Min(named) /\ f \in DOMAIN dir /\ f > 0
      BY <1>2, <1>5, <2>1, <2>3
    <2>5. IsList(dir[f].text) /\ dir[f].readable \in BOOLEAN
      BY <2>4 DEF AreFiles
    <2>6. ReadSetting(dir, src) =
            IF dir[f].readable THEN SettingIn(dir[f].text, src.key) ELSE NoneYet
      BY <1>1, <2>1, <2>4
    <2> QED
      BY <1>3, <1>5, <2>4, <2>5, <2>6 DEF FirstText
  <1> QED
    BY <1>4, <1>5

LEMMA IdentifiersFacts ==
  ASSUME NEW dir, AreFiles(dir), NEW raw, IsRawSources(raw), NEW cidr
  PROVE  IdentifiersAnswered(dir, raw, cidr, ReadIdentifiers(dir, raw, cidr))
  <1> DEFINE answered == ReadIdentifiers(dir, raw, cidr)
             sources == IdentifierSources(raw)
             Text(k) == TextFor(dir, raw, k)
             Key(k) == KeyFor(raw, k)
  <1>0. \A k : Key(k) = KeyOf(raw, k) /\ SourceFor(raw, k) = SourceOf(raw, k)
    BY Zenon DEF KeyFor, SourceFor, KeyOf, SourceOf, Blank
  <1>1. /\ DOMAIN sources = DeclaredIn(raw)
        /\ \A k \in DeclaredIn(raw) : /\ sources[k].file = SourceFor(raw, k).file
                                      /\ sources[k].key = Key(k)
    BY <1>0, SourcesAre
  <1> HIDE DEF Key
  <1>2. /\ DOMAIN answered = DeclaredIn(raw)
        /\ \A k \in DeclaredIn(raw) :
             answered[k] = Identified(k, ReadSetting(dir, sources[k]), cidr)
    BY <1>1 DEF ReadIdentifiers
  <1>3. ASSUME NEW k \in DeclaredIn(raw)
        PROVE  /\ ~Overrun(Text(k), Key(k)) =>
                    answered[k] = Identified(k, ByLine(Text(k), Key(k)), cidr)
               /\ answered[k] = NoneYet => Says(Text(k), Key(k)) = {}
    <2> DEFINE src == sources[k]
               named == {i \in DOMAIN dir : Upper[dir[i].name] = Upper[SourceFor(raw, k).file]}
    <2>1. named = {i \in DOMAIN dir : Upper[dir[i].name] = Upper[src.file]} /\ src.key = Key(k)
      BY <1>1
    <2>2. Text(k) = FirstText(dir, named)
      BY Zenon DEF TextFor, FirstText
    <2>3. answered[k] = Identified(k, ReadSetting(dir, src), cidr)
      BY <1>2
    <2> HIDE DEF src, named, sources, answered, Text
    <2>4. IsList(Text(k)) /\ ReadSetting(dir, src) = SettingIn(Text(k), Key(k))
      BY <2>1, <2>2, SettingRead
    <2>5. \A v : Identified(k, v, cidr) = NoneYet => v = NoneYet
      BY DEF Identified, Setting, NoneYet
    <2> QED
      BY <2>3, <2>4, <2>5, SettingOfLines
  <1> HIDE DEF answered, sources
  <1>4. IdentifiersAnswered(dir, raw, cidr, answered)
    <2>1. DeclaredIn(raw) = {k \in {"ip", "rid", "mac"} :
                               /\ SourceFor(raw, k) /= NoneYet /\ SourceFor(raw, k).file /= ""
                               /\ k = "ip" \/ SourceFor(raw, k).key /= ""}
      BY Zenon DEF DeclaredIn, Blank, SourceFor, SourceOf
    <2> QED
      BY <1>2, <1>3, <2>1 DEF IdentifiersAnswered, Key
  <1> QED
    BY <1>4 DEF answered

-----------------------------------------------------------------------------
(* Profiles: the block of a type *)

LEMMA WithInDict ==
  ASSUME NEW N, NEW P, NEW f \in Dict(N, P), NEW name \in N, NEW v \in P
  PROVE  With(f, name, v) \in Dict(N, P)
  <1>1. PICK S \in SUBSET N : f \in [S -> P]
    BY DEF Dict
  <1>2. With(f, name, v) \in [S \cup {name} -> P]
    BY <1>1 DEF With
  <1> QED
    BY <1>2 DEF Dict

EmptyInDict(N, P) == Empty \in Dict(N, P)
LEMMA EmptyIsInDict == ASSUME NEW N, NEW P PROVE EmptyInDict(N, P)
  <1>1. Empty \in [{} -> P] /\ {} \in SUBSET N
    BY DEF Empty
  <1> QED
    BY <1>1 DEF EmptyInDict, Dict

KeysIn(raws, n, N, P) ==
  \A i \in 1..n : Upper[raws[i].key] \in N /\ ParseBlock(raws[i]) \in P

LEMMA BlocksPrefixes ==
  ASSUME NEW raws, NEW n \in Nat, DOMAIN raws = 1..n, NEW N, NEW P, KeysIn(raws, n, N, P)
  PROVE  \E p : /\ p[0] = Empty /\ p[n] = Blocks(raws)
                /\ \A k \in 0..n :
                     k < n => p[k + 1] = With(p[k], Upper[raws[k + 1].key], ParseBlock(raws[k + 1]))
  <1> DEFINE D == Dict(N, P)
             Step(f, i) == With(f, Upper[raws[i].key], ParseBlock(raws[i]))
             F == [x \in D \X (1..n) |-> Step(x[1], x[2])]
             places == [i \in 1..n |-> i]
             Iter(g) == g = [s \in SUBSET (1..n) |->
                               IF s = {} THEN Empty ELSE Step(g[s \ {Max(s)}], Max(s))]
  <1>1. Empty \in D
    BY EmptyIsInDict DEF EmptyInDict
  <1>2. \A f \in D, i \in 1..n : Step(f, i) \in D
    BY WithInDict DEF KeysIn
  <1>3. \A i \in 1..n : places[i] = i
    OBVIOUS
  <1> HIDE DEF D, Step
  <1>4. F \in [D \X (1..n) -> D]
    BY <1>2
  <1> HIDE DEF F, places
  <1>5. PICK g : FoldIn(n, D, F, Empty, places, g)
    <2>1. CanFold(n, D, 1..n, F, Empty, places)
      BY <1>1, <1>3, <1>4 DEF CanFold
    <2> QED
      BY <2>1, FoldExists
  <1>6. Iter(g)
    <2>1. ASSUME NEW s \in SUBSET (1..n), s /= {}
          PROVE  FoldStep(F, Empty, places, g, s) = Step(g[s \ {Max(s)}], Max(s))
      <3>1. Max(s) \in 1..n
        BY <2>1, MaxIsIn
      <3>2. places[Max(s)] = Max(s) /\ g[s \ {Max(s)}] \in D
        BY <1>3, <1>5, <3>1 DEF FoldIn
      <3> QED
        BY <2>1, <3>1, <3>2 DEF FoldStep, F
    <2>2. ASSUME NEW s \in SUBSET (1..n)
          PROVE  FoldStep(F, Empty, places, g, s) =
                   IF s = {} THEN Empty ELSE Step(g[s \ {Max(s)}], Max(s))
      BY <2>1 DEF FoldStep
    <2> QED
      BY <1>5, <2>2 DEF FoldIn, FoldOver
  <1> DEFINE h == CHOOSE x : Iter(x)
  <1>7. Iter(h)
    BY <1>6
  <1>8. Blocks(raws) = h[1..n]
    BY DEF Blocks, FoldLeft, MapThenFoldSet, Step
  <1> HIDE DEF h
  <1> DEFINE p == [k \in 0..n |-> h[1..k]]
  <1>9. p[0] = Empty /\ p[n] = Blocks(raws)
    <2>1. 1..0 = {} /\ 0 \in 0..n /\ n \in 0..n
      OBVIOUS
    <2> QED
      BY <1>7, <1>8, <2>1
  <1>10. ASSUME NEW k \in 0..n, k < n PROVE p[k + 1] = Step(p[k], k + 1)
    <2>1. /\ 1..(k + 1) \in SUBSET (1..n) /\ 1..(k + 1) /= {} /\ Max(1..(k + 1)) = k + 1
          /\ (1..(k + 1)) \ {k + 1} = 1..k
      BY <1>10, NextPlace
    <2>2. h[1..(k + 1)] = Step(h[1..k], k + 1)
      BY <1>7, <2>1
    <2>3. k + 1 \in 0..n
      BY <1>10
    <2> QED
      BY <2>2, <2>3
  <1> HIDE DEF p
  <1> QED
    BY <1>9, <1>10 DEF Step


TypesIn(types, N) == \A i \in DOMAIN types : Upper[types[i]] \in N

LEMMA RegisteredPrefixes ==
  ASSUME NEW raw, NEW types, types = XmlTypes(raw.key, raw), NEW n \in Nat, DOMAIN types = 1..n,
         NEW N, NEW P, TypesIn(types, N), ParseBlock(raw) \in P, NEW by_xml \in Dict(N, P)
  PROVE  \E p : /\ p[0] = by_xml /\ p[n] = Registered(by_xml, raw)
                /\ \A k \in 0..n : /\ p[k] \in Dict(N, P)
                                   /\ k < n => p[k + 1] = With(p[k], Upper[types[k + 1]], ParseBlock(raw))
  <1> DEFINE D == Dict(N, P)
             Step(f, i) == With(f, Upper[types[i]], ParseBlock(raw))
             F == [x \in D \X (1..n) |-> Step(x[1], x[2])]
             places == [i \in 1..n |-> i]
             Iter(g) == g = [s \in SUBSET (1..n) |->
                               IF s = {} THEN by_xml ELSE Step(g[s \ {Max(s)}], Max(s))]
  <1>1. by_xml \in D
    OBVIOUS
  <1>2. \A f \in D, i \in 1..n : Step(f, i) \in D
    BY WithInDict DEF TypesIn
  <1>3. \A i \in 1..n : places[i] = i
    OBVIOUS
  <1> HIDE DEF D, Step
  <1>4. F \in [D \X (1..n) -> D]
    BY <1>2
  <1> HIDE DEF F, places
  <1>5. PICK g : FoldIn(n, D, F, by_xml, places, g)
    <2>1. CanFold(n, D, 1..n, F, by_xml, places)
      BY <1>1, <1>3, <1>4 DEF CanFold
    <2> QED
      BY <2>1, FoldExists
  <1>6. Iter(g)
    <2>1. ASSUME NEW s \in SUBSET (1..n), s /= {}
          PROVE  FoldStep(F, by_xml, places, g, s) = Step(g[s \ {Max(s)}], Max(s))
      <3>1. Max(s) \in 1..n
        BY <2>1, MaxIsIn
      <3>2. places[Max(s)] = Max(s) /\ g[s \ {Max(s)}] \in D
        BY <1>3, <1>5, <3>1 DEF FoldIn
      <3> QED
        BY <2>1, <3>1, <3>2 DEF FoldStep, F
    <2>2. ASSUME NEW s \in SUBSET (1..n)
          PROVE  FoldStep(F, by_xml, places, g, s) =
                   IF s = {} THEN by_xml ELSE Step(g[s \ {Max(s)}], Max(s))
      BY <2>1 DEF FoldStep
    <2> QED
      BY <1>5, <2>2 DEF FoldIn, FoldOver
  <1> DEFINE h == CHOOSE x : Iter(x)
  <1>7. Iter(h)
    BY <1>6
  <1>8. Registered(by_xml, raw) = h[1..n]
    BY DEF Registered, FoldLeft, MapThenFoldSet, Step
  <1> HIDE DEF h
  <1> DEFINE p == [k \in 0..n |-> h[1..k]]
  <1>9. p[0] = by_xml /\ p[n] = Registered(by_xml, raw)
    <2>1. 1..0 = {} /\ 0 \in 0..n /\ n \in 0..n
      OBVIOUS
    <2> QED
      BY <1>7, <1>8, <2>1
  <1>10. ASSUME NEW k \in 0..n, k < n PROVE p[k + 1] = Step(p[k], k + 1)
    <2>1. /\ 1..(k + 1) \in SUBSET (1..n) /\ 1..(k + 1) /= {} /\ Max(1..(k + 1)) = k + 1
          /\ (1..(k + 1)) \ {k + 1} = 1..k
      BY <1>10, NextPlace
    <2>2. h[1..(k + 1)] = Step(h[1..k], k + 1)
      BY <1>7, <2>1
    <2>3. k + 1 \in 0..n
      BY <1>10
    <2> QED
      BY <2>2, <2>3
  <1> HIDE DEF p
  <1> DEFINE M == {m \in Nat : m <= n => p[m] \in D}
  <1>11. 0 \in M
    BY <1>1, <1>9
  <1>12. \A m \in Nat : m \in M => m + 1 \in M
    <2> SUFFICES ASSUME NEW m \in Nat, m + 1 <= n, p[m] \in D PROVE p[m + 1] \in D
      OBVIOUS
    <2>1. m \in 0..n /\ m < n /\ m + 1 \in 1..n
      OBVIOUS
    <2> QED
      BY <1>2, <1>10, <2>1
  <1> HIDE DEF M
  <1>13. \A m \in Nat : m \in M
    BY <1>11, <1>12, NatInductionSet
  <1>14. \A m \in 0..n : p[m] \in D
    BY <1>13 DEF M
  <1> QED
    BY <1>9, <1>10, <1>14 DEF D, Step

RegistersIn(raws, n, D) == \A f \in D, i \in 1..n : Registered(f, raws[i]) \in D

LEMMA ByXmlPrefixes ==
  ASSUME NEW raws, NEW n \in Nat, DOMAIN raws = 1..n, NEW N, NEW P,
         RegistersIn(raws, n, Dict(N, P))
  PROVE  \E p : /\ p[0] = Empty /\ p[n] = ByXmlType(raws)
                /\ \A k \in 0..n : /\ p[k] \in Dict(N, P)
                                   /\ k < n => p[k + 1] = Registered(p[k], raws[k + 1])
  <1> DEFINE D == Dict(N, P)
             Step(f, i) == Registered(f, raws[i])
             F == [x \in D \X (1..n) |-> Step(x[1], x[2])]
             places == [i \in 1..n |-> i]
             Iter(g) == g = [s \in SUBSET (1..n) |->
                               IF s = {} THEN Empty ELSE Step(g[s \ {Max(s)}], Max(s))]
  <1>1. Empty \in D
    BY EmptyIsInDict DEF EmptyInDict
  <1>2. \A f \in D, i \in 1..n : Step(f, i) \in D
    BY DEF RegistersIn
  <1>3. \A i \in 1..n : places[i] = i
    OBVIOUS
  <1> HIDE DEF D, Step
  <1>4. F \in [D \X (1..n) -> D]
    BY <1>2
  <1> HIDE DEF F, places
  <1>5. PICK g : FoldIn(n, D, F, Empty, places, g)
    <2>1. CanFold(n, D, 1..n, F, Empty, places)
      BY <1>1, <1>3, <1>4 DEF CanFold
    <2> QED
      BY <2>1, FoldExists
  <1>6. Iter(g)
    <2>1. ASSUME NEW s \in SUBSET (1..n), s /= {}
          PROVE  FoldStep(F, Empty, places, g, s) = Step(g[s \ {Max(s)}], Max(s))
      <3>1. Max(s) \in 1..n
        BY <2>1, MaxIsIn
      <3>2. places[Max(s)] = Max(s) /\ g[s \ {Max(s)}] \in D
        BY <1>3, <1>5, <3>1 DEF FoldIn
      <3> QED
        BY <2>1, <3>1, <3>2 DEF FoldStep, F
    <2>2. ASSUME NEW s \in SUBSET (1..n)
          PROVE  FoldStep(F, Empty, places, g, s) =
                   IF s = {} THEN Empty ELSE Step(g[s \ {Max(s)}], Max(s))
      BY <2>1 DEF FoldStep
    <2> QED
      BY <1>5, <2>2 DEF FoldIn, FoldOver
  <1> DEFINE h == CHOOSE x : Iter(x)
  <1>7. Iter(h)
    BY <1>6
  <1>8. ByXmlType(raws) = h[1..n]
    BY DEF ByXmlType, FoldLeft, MapThenFoldSet, Step
  <1> HIDE DEF h
  <1> DEFINE p == [k \in 0..n |-> h[1..k]]
  <1>9. p[0] = Empty /\ p[n] = ByXmlType(raws)
    <2>1. 1..0 = {} /\ 0 \in 0..n /\ n \in 0..n
      OBVIOUS
    <2> QED
      BY <1>7, <1>8, <2>1
  <1>10. ASSUME NEW k \in 0..n, k < n PROVE p[k + 1] = Step(p[k], k + 1)
    <2>1. /\ 1..(k + 1) \in SUBSET (1..n) /\ 1..(k + 1) /= {} /\ Max(1..(k + 1)) = k + 1
          /\ (1..(k + 1)) \ {k + 1} = 1..k
      BY <1>10, NextPlace
    <2>2. h[1..(k + 1)] = Step(h[1..k], k + 1)
      BY <1>7, <2>1
    <2>3. k + 1 \in 0..n
      BY <1>10
    <2> QED
      BY <2>2, <2>3
  <1> HIDE DEF p
  <1> DEFINE M == {m \in Nat : m <= n => p[m] \in D}
  <1>11. 0 \in M
    BY <1>1, <1>9
  <1>12. \A m \in Nat : m \in M => m + 1 \in M
    <2> SUFFICES ASSUME NEW m \in Nat, m + 1 <= n, p[m] \in D PROVE p[m + 1] \in D
      OBVIOUS
    <2>1. m \in 0..n /\ m < n /\ m + 1 \in 1..n
      OBVIOUS
    <2> QED
      BY <1>2, <1>10, <2>1
  <1> HIDE DEF M
  <1>13. \A m \in Nat : m \in M
    BY <1>11, <1>12, NatInductionSet
  <1>14. \A m \in 0..n : p[m] \in D
    BY <1>13 DEF M
  <1> QED
    BY <1>9, <1>10, <1>14 DEF D, Step

LEMMA XmlTypesAre ==
  ASSUME NEW raw, raw.key \in DOMAIN Upper, raw.xml_types \in Pieces,
         NEW types, types = XmlTypes(raw.key, raw)
  PROVE  IsList(types) /\ \A i \in DOMAIN types : types[i] \in DOMAIN Upper
  <1> DEFINE good == {t \in ToSet(raw.xml_types) : ~Blank(Upper[t])}
             named == Those(raw.xml_types, good)
  <1>1. types = IF named = <<>> THEN <<raw.key>> ELSE named
    BY Zenon DEF XmlTypes, Blank
  <1>2. IsList(raw.xml_types) /\ \A t \in good : t \in DOMAIN Upper
    BY DEF IsList, Pieces, ToSet
  <1>3. /\ DOMAIN named = 1..Len(named) /\ Len(named) \in Nat
        /\ \A i \in DOMAIN named : named[i] \in good
    <2> DEFINE seq == raw.xml_types
    <2>1. named = Those(seq, good) /\ IsList(seq)
      BY <1>2
    <2> HIDE DEF seq, good, named
    <2>2. ASSUME NEW x
          PROVE  /\ DOMAIN named = 1..Len(named) /\ Len(named) \in Nat
                 /\ (\E i \in DOMAIN named : named[i] = x) => x \in good
      BY <2>1, ThoseHave
    <2> QED
      BY <2>2
  <1> HIDE DEF good, named
  <1>4. CASE named = <<>>
    <2>1. types = <<raw.key>>
      BY <1>1, <1>4
    <2> QED
      BY <2>1 DEF IsList
  <1>5. CASE named /= <<>>
    BY <1>1, <1>2, <1>3, <1>5 DEF IsList
  <1> QED
    BY <1>4, <1>5

\* A dictionary where the keys have been given a value.
Gets(e, f, keys, v) ==
  /\ DOMAIN e = DOMAIN f \cup keys
  /\ \A k \in DOMAIN e : e[k] = IF k \in keys THEN v ELSE f[k]
TypeNames(raw) ==
  {Upper[XmlTypes(raw.key, raw)[i]] : i \in DOMAIN XmlTypes(raw.key, raw)}

LEMMA RegisteredIs ==
  ASSUME NEW raw, raw.key \in DOMAIN Upper, raw.xml_types \in Pieces,
         NEW N, N = {Upper[t] : t \in DOMAIN Upper}, NEW P, ParseBlock(raw) \in P,
         NEW by_xml \in Dict(N, P)
  PROVE  /\ Registered(by_xml, raw) \in Dict(N, P)
         /\ Gets(Registered(by_xml, raw), by_xml, TypeNames(raw), ParseBlock(raw))
  <1> DEFINE types == XmlTypes(raw.key, raw)
             n == Len(types)
             v == ParseBlock(raw)
             Names(m) == {Upper[types[i]] : i \in 1..m}
  <1>1. IsList(types) /\ \A i \in DOMAIN types : types[i] \in DOMAIN Upper
    BY XmlTypesAre
  <1>2. n \in Nat /\ DOMAIN types = 1..n /\ TypesIn(types, N)
    BY <1>1 DEF IsList, TypesIn
  <1>3. TypeNames(raw) = Names(n)
    BY <1>2 DEF TypeNames
  <1>4. types = XmlTypes(raw.key, raw)
    OBVIOUS
  <1> HIDE DEF types, n
  <1>5. PICK p : /\ p[0] = by_xml /\ p[n] = Registered(by_xml, raw)
                 /\ \A k \in 0..n : /\ p[k] \in Dict(N, P)
                                    /\ k < n => p[k + 1] = With(p[k], Upper[types[k + 1]], v)
    <2>1. TypesIn(types, N) /\ n \in Nat /\ DOMAIN types = 1..n
      BY <1>2
    <2>2. \E p : /\ p[0] = by_xml /\ p[n] = Registered(by_xml, raw)
                 /\ \A k \in 0..n : /\ p[k] \in Dict(N, P)
                                    /\ k < n => p[k + 1] = With(p[k], Upper[types[k + 1]], ParseBlock(raw))
      <3>1. TypesIn(types, N)
        BY <2>1
      <3>2. n \in Nat
        BY <2>1
      <3>3. DOMAIN types = 1..n
        BY <2>1
      <3> QED
        BY ONLY <1>4, <3>1, <3>2, <3>3, RegisteredPrefixes, ParseBlock(raw) \in P, by_xml \in Dict(N, P)
    <2> QED
      BY <2>2
  <1> HIDE DEF v
  <1> DEFINE M == {m \in Nat : m <= n => Gets(p[m], by_xml, Names(m), v)}
  <1>6. 0 \in M
    <2>1. Names(0) = {}
      OBVIOUS
    <2>2. p[0] = by_xml
      BY <1>5
    <2> HIDE DEF Names
    <2>3. Gets(p[0], by_xml, Names(0), v)
      BY <2>1, <2>2 DEF Gets
    <2> QED
      BY <2>3
  <1> HIDE DEF Names
  <1>7. \A m \in Nat : m \in M => m + 1 \in M
    <2> SUFFICES ASSUME NEW m \in Nat, m + 1 <= n, Gets(p[m], by_xml, Names(m), v)
                 PROVE  Gets(p[m + 1], by_xml, Names(m + 1), v)
      BY <1>2
    <2>1. m \in 0..n /\ m < n
      BY <1>2
    <2>2. p[m + 1] = With(p[m], Upper[types[m + 1]], v)
      BY <1>5, <2>1
    <2>3. Names(m + 1) = Names(m) \cup {Upper[types[m + 1]]}
      <3>1. \A i : i \in 1..(m + 1) <=> i \in 1..m \/ i = m + 1
        OBVIOUS
      <3> QED
        BY <3>1 DEF Names
    <2> QED
      BY <2>2, <2>3 DEF Gets, With
  <1> HIDE DEF M
  <1>8. n \in M
    BY <1>2, <1>6, <1>7, NatInductionSet
  <1>9. Gets(p[n], by_xml, Names(n), v) /\ p[n] \in Dict(N, P)
    BY <1>2, <1>5, <1>8 DEF M
  <1> QED
    BY <1>3, <1>5, <1>9 DEF v, Names

\* A dictionary of the blocks so far has, for each key, the last block that claims it.
LastOf(f, keys, raws, m) ==
  \A k : /\ k \in DOMAIN f <=> \E i \in 1..m : k \in keys[i]
         /\ k \in DOMAIN f => \E i \in 1..m : /\ k \in keys[i] /\ f[k] = ParseBlock(raws[i])
                                              /\ \A j \in 1..m : k \in keys[j] => j <= i

LEMMA LastOfNext ==
  ASSUME NEW m \in Nat, NEW f, NEW e, NEW keys, NEW raws, LastOf(f, keys, raws, m),
         Gets(e, f, keys[m + 1], ParseBlock(raws[m + 1]))
  PROVE  LastOf(e, keys, raws, m + 1)
  <1> SUFFICES ASSUME NEW k
               PROVE  /\ k \in DOMAIN e <=> \E i \in 1..(m + 1) : k \in keys[i]
                      /\ k \in DOMAIN e =>
                           \E i \in 1..(m + 1) :
                             /\ k \in keys[i] /\ e[k] = ParseBlock(raws[i])
                             /\ \A j \in 1..(m + 1) : k \in keys[j] => j <= i
    BY DEF LastOf
  <1>1. \A i : i \in 1..(m + 1) <=> i \in 1..m \/ i = m + 1
    OBVIOUS
  <1>2. /\ k \in DOMAIN f <=> \E i \in 1..m : k \in keys[i]
        /\ k \in DOMAIN f => \E i \in 1..m : /\ k \in keys[i] /\ f[k] = ParseBlock(raws[i])
                                             /\ \A j \in 1..m : k \in keys[j] => j <= i
    BY DEF LastOf
  <1>3. /\ k \in DOMAIN e <=> k \in DOMAIN f \/ k \in keys[m + 1]
        /\ k \in DOMAIN e => e[k] = IF k \in keys[m + 1] THEN ParseBlock(raws[m + 1]) ELSE f[k]
    BY DEF Gets
  <1>4. k \in DOMAIN e <=> \E i \in 1..(m + 1) : k \in keys[i]
    BY <1>1, <1>2, <1>3
  <1>5. CASE k \in keys[m + 1]
    <2>1. \A j \in 1..(m + 1) : j <= m + 1
      OBVIOUS
    <2>2. e[k] = ParseBlock(raws[m + 1]) /\ m + 1 \in 1..(m + 1)
      BY <1>3, <1>5
    <2> QED
      BY <1>4, <1>5, <2>1, <2>2
  <1>6. CASE k \notin keys[m + 1]
    BY <1>1, <1>2, <1>3, <1>4, <1>6
  <1> QED
    BY <1>5, <1>6

IsRaw(raw) == raw.key \in DOMAIN Upper /\ raw.xml_types \in Pieces
KeysOfBlocks(raws) == [i \in DOMAIN raws |-> {Upper[raws[i].key]}]
TypesOfBlocks(raws) == [i \in DOMAIN raws |-> TypeNames(raws[i])]

LEMMA BlocksAreLast ==
  ASSUME NEW raws, IsList(raws), \A i \in DOMAIN raws : IsRaw(raws[i])
  PROVE  LastOf(Blocks(raws), KeysOfBlocks(raws), raws, Len(raws))
  <1> DEFINE n == Len(raws)
             N == {Upper[t] : t \in DOMAIN Upper}
             P == {ParseBlock(raws[i]) : i \in 1..n}
             keys == KeysOfBlocks(raws)
  <1>1. n \in Nat /\ DOMAIN raws = 1..n /\ KeysIn(raws, n, N, P)
    BY DEF IsList, IsRaw, KeysIn
  <1>2. \A i \in 1..n : keys[i] = {Upper[raws[i].key]}
    BY <1>1 DEF KeysOfBlocks
  <1> HIDE DEF n, N, P, keys
  <1>3. PICK p : /\ p[0] = Empty /\ p[n] = Blocks(raws)
                 /\ \A k \in 0..n :
                      k < n => p[k + 1] = With(p[k], Upper[raws[k + 1].key], ParseBlock(raws[k + 1]))
    BY <1>1, BlocksPrefixes
  <1> DEFINE M == {m \in Nat : m <= n => LastOf(p[m], keys, raws, m)}
  <1>4. 0 \in M
    BY <1>3 DEF LastOf, Empty
  <1>5. \A m \in Nat : m \in M => m + 1 \in M
    <2> SUFFICES ASSUME NEW m \in Nat, m + 1 <= n, LastOf(p[m], keys, raws, m)
                 PROVE  LastOf(p[m + 1], keys, raws, m + 1)
      BY <1>1
    <2>1. m \in 0..n /\ m < n /\ m + 1 \in 1..n
      BY <1>1
    <2>2. p[m + 1] = With(p[m], Upper[raws[m + 1].key], ParseBlock(raws[m + 1]))
      BY <1>3, <2>1
    <2>3. Gets(p[m + 1], p[m], keys[m + 1], ParseBlock(raws[m + 1]))
      BY <1>2, <2>1, <2>2 DEF Gets, With
    <2> QED
      BY <2>3, LastOfNext
  <1> HIDE DEF M
  <1>6. n \in M
    BY <1>1, <1>4, <1>5, NatInductionSet
  <1> QED
    BY <1>1, <1>3, <1>6 DEF M, n, keys

LEMMA ByXmlIsLast ==
  ASSUME NEW raws, IsList(raws), \A i \in DOMAIN raws : IsRaw(raws[i])
  PROVE  LastOf(ByXmlType(raws), TypesOfBlocks(raws), raws, Len(raws))
  <1> DEFINE n == Len(raws)
             N == {Upper[t] : t \in DOMAIN Upper}
             P == {ParseBlock(raws[i]) : i \in 1..n}
             keys == TypesOfBlocks(raws)
             D == Dict(N, P)
  <1>1. n \in Nat /\ DOMAIN raws = 1..n
    BY DEF IsList
  <1>2. \A i \in 1..n : keys[i] = TypeNames(raws[i])
    BY <1>1 DEF TypesOfBlocks
  <1>3. \A i \in 1..n : ParseBlock(raws[i]) \in P /\ IsRaw(raws[i])
    BY <1>1
  <1>4. N = {Upper[t] : t \in DOMAIN Upper}
    OBVIOUS
  <1> HIDE DEF n, N, P, keys
  <1>5. \A f \in D, i \in 1..n : /\ Registered(f, raws[i]) \in D
                                 /\ Gets(Registered(f, raws[i]), f, TypeNames(raws[i]), ParseBlock(raws[i]))
    <2> SUFFICES ASSUME NEW f \in D, NEW i \in 1..n
                 PROVE  /\ Registered(f, raws[i]) \in D
                        /\ Gets(Registered(f, raws[i]), f, TypeNames(raws[i]), ParseBlock(raws[i]))
      OBVIOUS
    <2> DEFINE raw == raws[i]
    <2>1. raw.key \in DOMAIN Upper /\ raw.xml_types \in Pieces /\ ParseBlock(raw) \in P
      BY <1>3 DEF IsRaw
    <2> HIDE DEF raw
    <2>2. /\ Registered(f, raw) \in Dict(N, P)
          /\ Gets(Registered(f, raw), f, TypeNames(raw), ParseBlock(raw))
      BY ONLY <1>4, <2>1, f \in D, RegisteredIs DEF D
    <2> QED
      BY <2>2 DEF raw, D
  <1>6. RegistersIn(raws, n, D)
    BY <1>5 DEF RegistersIn
  <1>7. PICK p : /\ p[0] = Empty /\ p[n] = ByXmlType(raws)
                 /\ \A k \in 0..n : /\ p[k] \in D
                                    /\ k < n => p[k + 1] = Registered(p[k], raws[k + 1])
    BY <1>1, <1>6, ByXmlPrefixes
  <1> HIDE DEF D
  <1> DEFINE M == {m \in Nat : m <= n => LastOf(p[m], keys, raws, m)}
  <1>8. 0 \in M
    BY <1>7 DEF LastOf, Empty
  <1>9. \A m \in Nat : m \in M => m + 1 \in M
    <2> SUFFICES ASSUME NEW m \in Nat, m + 1 <= n, LastOf(p[m], keys, raws, m)
                 PROVE  LastOf(p[m + 1], keys, raws, m + 1)
      BY <1>1
    <2>1. m \in 0..n /\ m < n /\ m + 1 \in 1..n
      BY <1>1
    <2>2. p[m] \in D /\ p[m + 1] = Registered(p[m], raws[m + 1])
      BY <1>7, <2>1
    <2>3. Gets(p[m + 1], p[m], keys[m + 1], ParseBlock(raws[m + 1]))
      BY <1>2, <1>5, <2>1, <2>2
    <2> QED
      BY <2>3, LastOfNext
  <1> HIDE DEF M
  <1>10. n \in M
    BY <1>1, <1>8, <1>9, NatInductionSet
  <1> QED
    BY <1>1, <1>7, <1>10 DEF M, n, keys

\* The block of an XML type, where the profile is asked for a type and has one.
LEMMA AskedBlock ==
  ASSUME NEW by_xml, NEW blocks, NEW t, t \in DOMAIN Upper,
         \A u \in DOMAIN by_xml \cup DOMAIN blocks : u \in DOMAIN Upper => u = Upper[u],
         NEW profile, profile = [blocks |-> blocks, by_xml |-> by_xml]
  PROVE  BlockForXmlType(profile, t) =
           IF Blank(t) THEN NoneYet
           ELSE IF Upper[t] \in DOMAIN by_xml THEN by_xml[Upper[t]]
           ELSE IF Upper[t] \in DOMAIN blocks THEN blocks[Upper[t]] ELSE NoneYet
  <1> DEFINE keys == <<t, Upper[t]>>
             k == FirstIn(keys, DOMAIN profile.by_xml)
             m == FirstIn(keys, DOMAIN profile.blocks)
  <1>1. Len(keys) = 2 /\ keys[1] = t /\ keys[2] = Upper[t]
    OBVIOUS
  <1>2. profile.by_xml = by_xml /\ profile.blocks = blocks
    OBVIOUS
  <1>3. BlockForXmlType(profile, t) =
          CASE Blank(t) -> NoneYet
            [] ~Blank(t) /\ k > 0 -> profile.by_xml[keys[k]]
            [] ~Blank(t) /\ k = 0 /\ m > 0 -> profile.blocks[keys[m]]
            [] OTHER -> NoneYet
    BY Zenon DEF BlockForXmlType, Blank
  <1> HIDE DEF keys
  <1>4. \/ k = 0 /\ Upper[t] \notin DOMAIN by_xml
        \/ k \in 1..2 /\ keys[k] = Upper[t] /\ Upper[t] \in DOMAIN by_xml
    BY <1>1, <1>2, FirstInIs
  <1>5. \/ m = 0 /\ Upper[t] \notin DOMAIN blocks
        \/ m \in 1..2 /\ keys[m] = Upper[t] /\ Upper[t] \in DOMAIN blocks
    BY <1>1, <1>2, FirstInIs
  <1> HIDE DEF k, m
  <1> QED
    BY <1>2, <1>3, <1>4, <1>5

\* The raw blocks that claim a type; what a profile answers, told with them.
ClaimingBlocks(raws, u) == {i \in DOMAIN raws : u \in TypeNames(raws[i])}

LEMMA BlockAnswers ==
  ASSUME NEW raws, IsList(raws), \A i \in DOMAIN raws : IsRaw(raws[i]),
         NEW t, t \in DOMAIN Upper, NEW instance \in Int,
         NEW profile, profile = [blocks |-> Blocks(raws), by_xml |-> ByXmlType(raws)],
         NEW block, block = BlockForXmlType(profile, t),
         NEW bit, bit = DerivedBit(profile, t, instance),
         NEW claiming, claiming = ClaimingBlocks(raws, Upper[t])
  PROVE  /\ claiming /= {} /\ ~Blank(t) => block = ParseBlock(raws[Max(claiming)])
         /\ claiming = {} /\ block /= NoneYet => Upper[block.key] = Upper[t]
         /\ bit /= NoneYet => t = Upper[t] /\ instance > 0
         /\ bit /= NoneYet /\ ~Blank(t) => bit.pattern = block.pattern
         /\ t = Upper[t] /\ ~Blank(t) /\ instance > 0 /\ block /= NoneYet =>
              (block.pattern.shape = "template" <=> bit /= NoneYet)
  <1> DEFINE by_xml == ByXmlType(raws)
             blocks == Blocks(raws)
             n == Len(raws)
             u == Upper[t]
  <1>1. n \in Nat /\ DOMAIN raws = 1..n
    BY DEF IsList
  <1>2. LastOf(by_xml, TypesOfBlocks(raws), raws, n)
    BY ByXmlIsLast
  <1>3. LastOf(blocks, KeysOfBlocks(raws), raws, n)
    BY BlocksAreLast
  <1>4. profile = [blocks |-> blocks, by_xml |-> by_xml]
    OBVIOUS
  <1> HIDE DEF by_xml, blocks
  <1>5. \A i \in 1..n : /\ TypesOfBlocks(raws)[i] = TypeNames(raws[i])
                        /\ KeysOfBlocks(raws)[i] = {Upper[raws[i].key]}
    BY <1>1 DEF TypesOfBlocks, KeysOfBlocks
  <1>6. ASSUME NEW x \in DOMAIN by_xml \cup DOMAIN blocks, x \in DOMAIN Upper PROVE x = Upper[x]
    <2>1. \E y \in DOMAIN Upper : x = Upper[y]
      <3>1. CASE x \in DOMAIN by_xml
        <4>1. PICK i \in 1..n : x \in TypeNames(raws[i])
          BY <1>2, <1>5, <3>1 DEF LastOf
        <4> DEFINE raw == raws[i]
                   types == XmlTypes(raw.key, raw)
        <4>2. types = XmlTypes(raw.key, raw) /\ raw.key \in DOMAIN Upper /\ raw.xml_types \in Pieces
          BY <1>1 DEF IsRaw
        <4>3. \E j \in DOMAIN types : x = Upper[types[j]]
          BY <4>1 DEF TypeNames
        <4> HIDE DEF raw, types
        <4>4. \A j \in DOMAIN types : types[j] \in DOMAIN Upper
          BY <4>2, XmlTypesAre
        <4> QED
          BY <4>3, <4>4
      <3>2. CASE x \in DOMAIN blocks
        <4>1. PICK i \in 1..n : x \in {Upper[raws[i].key]}
          BY <1>3, <1>5, <3>2 DEF LastOf
        <4> QED
          BY <1>1, <4>1 DEF IsRaw
      <3> QED
        BY <3>1, <3>2
    <2> QED
      BY <1>6, <2>1, NamingAssumption
  <1>7. block = IF Blank(t) THEN NoneYet
                ELSE IF u \in DOMAIN by_xml THEN by_xml[u]
                ELSE IF u \in DOMAIN blocks THEN blocks[u] ELSE NoneYet
    BY <1>4, <1>6, AskedBlock
  <1> DEFINE derived == DerivedBlock(profile, t)
  <1>8. derived = IF t \in DOMAIN by_xml THEN by_xml[t]
                  ELSE IF t \in DOMAIN blocks THEN blocks[t] ELSE NoneYet
    <2>1. profile.by_xml = by_xml /\ profile.blocks = blocks
      BY <1>4
    <2> QED
      BY <2>1 DEF DerivedBlock
  <1>9. bit = IF derived = NoneYet THEN NoneYet
              ELSE IF derived.pattern.shape /= "template" \/ instance <= 0 THEN NoneYet
              ELSE [kind |-> "bit", pattern |-> derived.pattern, instance |-> instance]
    BY DEF DerivedBit
  <1> HIDE DEF derived
  <1>10. u \in DOMAIN by_xml <=> claiming /= {}
    BY <1>1, <1>2, <1>5 DEF LastOf, ClaimingBlocks
  <1>11. claiming /= {} => by_xml[u] = ParseBlock(raws[Max(claiming)])
    <2> SUFFICES ASSUME claiming /= {} PROVE by_xml[u] = ParseBlock(raws[Max(claiming)])
      OBVIOUS
    <2>1. PICK i \in 1..n : /\ u \in TypeNames(raws[i]) /\ by_xml[u] = ParseBlock(raws[i])
                            /\ \A j \in 1..n : u \in TypeNames(raws[j]) => j <= i
      BY <1>2, <1>5, <1>10 DEF LastOf
    <2>2. claiming \in SUBSET (1..n)
      BY <1>1 DEF ClaimingBlocks
    <2>3. Max(claiming) \in claiming /\ \A x \in claiming : x <= Max(claiming)
      BY <1>1, <2>2, MaxIsIn
    <2>4. i \in claiming /\ Max(claiming) <= i
      BY <1>1, <2>1, <2>3 DEF ClaimingBlocks
    <2>5. Max(claiming) = i
      BY <2>2, <2>3, <2>4
    <2> QED
      BY <2>1, <2>5
  <1>12. u \in DOMAIN blocks => Upper[blocks[u].key] = u
    <2> SUFFICES ASSUME u \in DOMAIN blocks PROVE Upper[blocks[u].key] = u
      OBVIOUS
    <2>1. PICK i \in 1..n : u \in {Upper[raws[i].key]} /\ blocks[u] = ParseBlock(raws[i])
      BY <1>3, <1>5 DEF LastOf
    <2>2. ParseBlock(raws[i]).key = raws[i].key
      BY DEF ParseBlock
    <2> QED
      BY <2>1, <2>2
  <1>13. derived /= NoneYet => t = u
    BY <1>6, <1>8
  <1>14. t = u /\ ~Blank(t) => block = derived
    BY <1>7, <1>8
  <1>15. \A p : [kind |-> "bit", pattern |-> p, instance |-> instance] /= NoneYet
    BY DEF NoneYet
  <1>16. bit /= NoneYet => derived /= NoneYet /\ instance > 0 /\ bit.pattern = derived.pattern
    BY <1>9
  <1>17. instance > 0 /\ derived /= NoneYet =>
           (derived.pattern.shape = "template" <=> bit /= NoneYet)
    BY <1>9, <1>15
  <1> HIDE DEF u
  <1>18. claiming /= {} /\ ~Blank(t) => block = ParseBlock(raws[Max(claiming)])
    BY <1>7, <1>10, <1>11
  <1>19. claiming = {} /\ block /= NoneYet => Upper[block.key] = u
    BY <1>7, <1>10, <1>12
  <1> QED
    BY <1>13, <1>14, <1>16, <1>17, <1>18, <1>19 DEF u

LEMMA BlockFacts ==
  ASSUME NEW raws, IsList(raws), \A i \in DOMAIN raws : IsRaw(raws[i]),
         NEW t, t \in DOMAIN Upper, NEW instance \in Int,
         NEW profile, profile = [blocks |-> Blocks(raws), by_xml |-> ByXmlType(raws)]
  PROVE  BlockAnswersAgree(raws, t, instance, DerivedBit(profile, t, instance))
  <1> DEFINE block == BlockForXmlType(profile, t)
             bit == DerivedBit(profile, t, instance)
             claiming == ClaimingBlocks(raws, Upper[t])
             Claims(i, u) == \E n \in DOMAIN XmlTypes(raws[i].key, raws[i]) :
                               Upper[XmlTypes(raws[i].key, raws[i])[n]] = u
  <1>1. claiming = {i \in DOMAIN raws : Claims(i, Upper[t])}
    BY DEF ClaimingBlocks, TypeNames
  <1>2. block = BlockForXmlType(profile, t) /\ bit = DerivedBit(profile, t, instance)
    OBVIOUS
  <1>3. claiming = ClaimingBlocks(raws, Upper[t])
    OBVIOUS
  <1> HIDE DEF block, bit, claiming
  <1>4. /\ claiming /= {} /\ ~Blank(t) => block = ParseBlock(raws[Max(claiming)])
        /\ claiming = {} /\ block /= NoneYet => Upper[block.key] = Upper[t]
        /\ bit /= NoneYet => t = Upper[t] /\ instance > 0
        /\ bit /= NoneYet /\ ~Blank(t) => bit.pattern = block.pattern
        /\ t = Upper[t] /\ ~Blank(t) /\ instance > 0 /\ block /= NoneYet =>
             (block.pattern.shape = "template" <=> bit /= NoneYet)
    BY <1>2, <1>3, BlockAnswers
  <1>5. BlockForXmlType([blocks |-> Blocks(raws), by_xml |-> ByXmlType(raws)], t) = block
    BY DEF block
  <1>6. BlockAnswersAgree(raws, t, instance, bit)
    BY <1>1, <1>4, <1>5, Zenon DEF BlockAnswersAgree, Blank
  <1> QED
    BY <1>6 DEF bit

LEMMA AnalogFacts ==
  ASSUME NEW rules, IsList(rules), NEW groups, IsList(groups),
         \A i \in DOMAIN groups : IsList(groups[i].patterns), NEW windings, NEW name,
         NEW profile, profile.rules = ParseAliasRules([rules |-> rules]),
         profile.windings = windings, profile.analog_groups = ParseAnalogGroups(groups),
         NEW reply, reply.group = AnalogGroupFor(profile, name),
         reply.name = ResolveAnalogName(profile, name)
  PROVE  AnalogAnswered(rules, groups, windings, name, reply)
  <1> DEFINE serving == ServingRules(rules, name)
             showing == ShowingGroups(groups, name)
             Serves(r) == /\ ~Blank(name) /\ r.regex.compiles /\ r.template \notin {"", "broken"}
                          /\ Upper[name] \in r.regex.matches
             Shows(g) == ~Blank(name) /\ ~Blank(g.key) /\ \E i \in DOMAIN g.patterns :
                           g.patterns[i].compiles /\ Upper[name] \in g.patterns[i].matches
  <1>1. serving = {i \in DOMAIN rules : Serves(rules[i])}
    <2>1. \A x : x \notin {"", "broken"} <=> ~Blank(x) /\ ~IsBroken(x)
      BY Zenon DEF Blank, IsBroken
    <2>2. \A i \in DOMAIN rules : i \in serving <=> Serves(rules[i])
      BY <2>1, Zenon DEF ServingRules
    <2>3. serving \subseteq DOMAIN rules
      BY Zenon DEF ServingRules
    <2> HIDE DEF serving, Serves
    <2> QED
      BY <2>2, <2>3
  <1>2. showing = {i \in DOMAIN groups : Shows(groups[i])}
    BY DEF ShowingGroups
  <1>3. serving = ServingRules(rules, name) /\ showing = ShowingGroups(groups, name)
    OBVIOUS
  <1> HIDE DEF serving, showing, Serves, Shows
  <1>4. reply.name = IF serving = {} THEN [kind |-> "name", text |-> Upper[name]]
                     ELSE Made(rules[Min(serving)], windings, Upper[name])
    BY <1>3, NameAnswered
  <1>5. /\ showing = {} <=> reply.group = NoneYet
        /\ showing /= {} => reply.group.key = groups[Min(showing)].key
    BY <1>3, GroupAnswered
  <1> QED
    BY <1>1, <1>2, <1>4, <1>5, Zenon DEF AnalogAnswered, Blank, Serves, Shows

\* Whatever profile a host loads: the block that labels a pin is the one its bit is
\* derived from, and no entry of a profile stands in another's way (RelayModel and
\* _load_one).
LEMMA ModelsAnswer == Spec => []ModelAnswers
  <1>1. ReplyInv => ModelAnswers
    <2> SUFFICES ASSUME ReplyInv PROVE ModelAnswers
      OBVIOUS
    <2>1. ASSUME Answered("block")
          PROVE  BlockAnswersAgree(call.raws, call.type, call.instance, answer.bit)
      <3>1. call \in BlockCalls
        BY <2>1, CallOf DEF ReplyInv, Answered
      <3>2. answer.bit = DerivedBit(Profile, call.type, call.instance)
        BY <2>1 DEF ReplyInv, Reply
      <3>3. /\ IsList(call.raws) /\ \A i \in DOMAIN call.raws : IsRaw(call.raws[i])
            /\ call.type \in DOMAIN Upper /\ call.instance \in Int
        BY <3>1, ReadersAssumption DEF IsRaw
      <3> QED
        BY <3>2, <3>3, BlockFacts DEF Profile
    <2>2. ASSUME Answered("analog")
          PROVE  AnalogAnswered(call.rules, call.groups, call.windings, call.name, answer)
      <3>1. call \in AnalogCalls
        BY <2>2, CallOf DEF ReplyInv, Answered
      <3>2. /\ answer.group = AnalogGroupFor(AnalogProfile, call.name)
            /\ answer.name = ResolveAnalogName(AnalogProfile, call.name)
        BY <2>2 DEF ReplyInv, Reply
      <3>3. /\ IsList(call.rules) /\ IsList(call.groups)
            /\ \A i \in DOMAIN call.groups : IsList(call.groups[i].patterns)
        BY <3>1, ReadersAssumption
      <3>4. /\ AnalogProfile.rules = ParseAliasRules([rules |-> call.rules])
            /\ AnalogProfile.windings = call.windings
            /\ AnalogProfile.analog_groups = ParseAnalogGroups(call.groups)
        BY DEF AnalogProfile
      <3> QED
        BY <3>2, <3>3, <3>4, AnalogFacts
    <2> QED
      BY <2>1, <2>2 DEF ModelAnswers
  <1> QED
    BY <1>1, Replies, PTL

\* read_identifiers: what a settings file says of a relay is what its lines say, the
\* first that says anything, where the pattern does not read on into the next line.
LEMMA IdentifiersAreRead == Spec => []IdentifiersRead
  <1>1. ReplyInv => IdentifiersRead
    <2> SUFFICES ASSUME ReplyInv, Answered("identifiers")
                 PROVE  IdentifiersAnswered(call.dir, call.raw, Cidr, answer)
      BY DEF IdentifiersRead
    <2>1. call \in IdentifierCalls
      BY CallOf DEF ReplyInv, Answered
    <2>2. answer = ReadIdentifiers(call.dir, call.raw, Cidr)
      BY DEF ReplyInv, Reply
    <2>3. AreFiles(call.dir) /\ IsRawSources(call.raw)
      BY <2>1, ReadersAssumption DEF IsRawSources, AreFiles
    <2> QED
      BY <2>2, <2>3, IdentifiersFacts
  <1> QED
    BY <1>1, Replies, PTL

\* Whatever relay profile a host loads: each question it is asked is answered by
\* the right entry, and each identifier it declares by the right line of a file.
THEOREM ProfilesAnswer == Spec => []ProfileAnswers
  BY ModelsAnswer, IdentifiersAreRead, PTL DEF ProfileAnswers

-----------------------------------------------------------------------------
(* SELOGIC: what a truth table depends on *)

\* The value of an equation depends on the bits in it alone (evaluate).
LEMMA EvaluateFrame ==
  ASSUME NEW node, NEW e, NEW d, \A n \in Atoms(node) : n \in e <=> n \in d
  PROVE  Evaluate(node, e) = Evaluate(node, d)
  <1> DEFINE Is(f, env) == f = [n \in Nodes(node) |-> ValueOf(n, env, f)]
  <1>1. \A env : Evaluate(node, env) = (CHOOSE f : Is(f, env))[node]
    BY DEF Evaluate
  <1>2. ASSUME NEW f, NEW n \in Nodes(node) PROVE ValueOf(n, e, f) = ValueOf(n, d, f)
    <2>1. n.op = "atom" => (n \in e <=> n \in d)
      BY DEF Atoms
    <2> QED
      BY <2>1, Zenon DEF ValueOf
  <1>3. \A f : Is(f, e) <=> Is(f, d)
    BY <1>2
  <1> HIDE DEF Is
  <1>4. (CHOOSE f : Is(f, e)) = (CHOOSE f : Is(f, d))
    BY <1>3
  <1> QED
    BY <1>1, <1>4

\* Two equations are one function of the bits.
SameEverywhere(x, y) == \A env : Evaluate(x, env) = Evaluate(y, env)

LEMMA TableIsEverywhere ==
  ASSUME NEW x, NEW y
  PROVE  SameTable(x, y, Atoms(x) \cup Atoms(y)) <=> SameEverywhere(x, y)
  <1> DEFINE union == Atoms(x) \cup Atoms(y)
  <1>1. ASSUME SameTable(x, y, union), NEW env PROVE Evaluate(x, env) = Evaluate(y, env)
    <2>1. Evaluate(x, env \cap union) = Evaluate(y, env \cap union)
      BY <1>1 DEF SameTable
    <2>2. Evaluate(x, env) = Evaluate(x, env \cap union)
      BY EvaluateFrame
    <2>3. Evaluate(y, env) = Evaluate(y, env \cap union)
      BY EvaluateFrame
    <2> QED
      BY <2>1, <2>2, <2>3
  <1> QED
    BY <1>1 DEF SameTable, SameEverywhere

-----------------------------------------------------------------------------
(* SELOGIC: verdicts *)

Verdicts == {"EQUAL", "EQUAL_LOGIC_DIFF_COMMENT", "EQUIVALENT", "DIFFERENT"}
Kinds4 == {"logic", "set_list", "string", "enum"}
TreeOf(v, dialect) == Parse(Body(v), dialect)
CanonOf(v, dialect) == Canonicalize(TreeOf(v, dialect))
TooManyBits(a, b, dialect) == Cardinality(TableBits(a, b, dialect)) > MaxTruthAtoms

LEMMA Severities ==
  /\ DOMAIN Severity = Verdicts
  /\ Severity["EQUAL"] = 0 /\ Severity["EQUAL_LOGIC_DIFF_COMMENT"] = 1
  /\ Severity["EQUIVALENT"] = 2 /\ Severity["DIFFERENT"] = 3
  BY DEF Severity, Verdicts

\* The verdict on two equations that are not one text (compare_logic).
LEMMA BodyVerdict ==
  ASSUME NEW a, NEW b, NEW dialect, NEW verdict, verdict = CompareBodies(a, b, dialect).verdict,
         Normal(a) /= Normal(b)
  PROVE  /\ verdict \in {"EQUIVALENT", "DIFFERENT"}
         /\ verdict = "EQUIVALENT" =>
              /\ TreeOf(a, dialect) /= NoTree /\ TreeOf(b, dialect) /= NoTree
              /\ SameEverywhere(CanonOf(a, dialect), CanonOf(b, dialect))
         /\ /\ ~TooManyBits(a, b, dialect)
            /\ TreeOf(a, dialect) /= NoTree /\ TreeOf(b, dialect) /= NoTree
            /\ SameEverywhere(CanonOf(a, dialect), CanonOf(b, dialect))
            => verdict = "EQUIVALENT"
  <1> DEFINE ta == TreeOf(a, dialect)
             tb == TreeOf(b, dialect)
             ca == CanonOf(a, dialect)
             cb == CanonOf(b, dialect)
             union == Atoms(ca) \cup Atoms(cb)
             HasVerdict(r, v) == r.verdict = v
  <1>1. \A v, note : HasVerdict(Result(v, note), v)
    BY DEF Result
  <1>2. verdict = CompareTrees(a, b, ta, tb).verdict
    BY DEF CompareBodies, TreeOf
  <1>3. CASE ta = NoTree \/ tb = NoTree
    <2>1. CompareTrees(a, b, ta, tb) = Result("DIFFERENT", "not boolean")
      BY <1>3, Zenon DEF CompareTrees
    <2>2. verdict = "DIFFERENT"
      BY <1>1, <1>2, <2>1
    <2> QED
      BY <1>3, <2>2
  <1>4. CASE ta /= NoTree /\ tb /= NoTree
    <2>1. verdict = CompareCanonical(ca, cb, union).verdict
      BY <1>2, <1>4, Zenon DEF CompareTrees, CanonOf
    <2>2. TooManyBits(a, b, dialect) <=> Cardinality(union) > MaxTruthAtoms
      BY <1>4 DEF TooManyBits, TableBits, BitsOf, CanonOf, TreeOf
    <2> DEFINE Same == SameEverywhere(ca, cb)
    <2>3. SameTable(ca, cb, union) <=> Same
      BY TableIsEverywhere
    <2>4. ca = cb => Same
      BY Zenon DEF SameEverywhere
    <2> HIDE DEF ca, cb, union
    <2>5. CASE ca = cb
      <3>1. \E note : CompareCanonical(ca, cb, union) = Result("EQUIVALENT", note)
        BY <2>5, Zenon DEF CompareCanonical
      <3>2. verdict = "EQUIVALENT"
        BY <1>1, <2>1, <3>1
      <3> QED
        BY <1>4, <2>4, <2>5, <3>2 DEF ca, cb
    <2>6. CASE ca /= cb /\ Cardinality(union) > MaxTruthAtoms
      <3>1. \E note : CompareCanonical(ca, cb, union) = Result("DIFFERENT", note)
        BY <2>6, Zenon DEF CompareCanonical
      <3>2. verdict = "DIFFERENT"
        BY <1>1, <2>1, <3>1
      <3> QED
        BY <2>2, <2>6, <3>2
    <2>7. CASE ca /= cb /\ ~(Cardinality(union) > MaxTruthAtoms)
      <3>1. \E note : CompareCanonical(ca, cb, union) =
                        Result(IF SameTable(ca, cb, union) THEN "EQUIVALENT" ELSE "DIFFERENT", note)
        BY <2>7, Zenon DEF CompareCanonical
      <3>2. verdict = IF Same THEN "EQUIVALENT" ELSE "DIFFERENT"
        BY <1>1, <2>1, <2>3, <3>1
      <3> HIDE DEF Same
      <3>3. verdict = "EQUIVALENT" <=> Same
        BY <3>2
      <3>4. verdict \in {"EQUIVALENT", "DIFFERENT"}
        BY <3>2
      <3> QED
        BY <1>4, <3>3, <3>4 DEF Same, ca, cb
    <2> QED
      BY <2>5, <2>6, <2>7
  <1> QED
    BY <1>3, <1>4

LEMMA LogicVerdict ==
  ASSUME NEW a, NEW b, NEW dialect, NEW verdict, verdict = CompareLogic(a, b, dialect).verdict
  PROVE  /\ Normal(a) = Normal(b) =>
              verdict = IF Comment(a) = Comment(b) THEN "EQUAL" ELSE "EQUAL_LOGIC_DIFF_COMMENT"
         /\ Normal(a) /= Normal(b) => verdict = CompareBodies(a, b, dialect).verdict
  <1> DEFINE HasVerdict(r, v) == r.verdict = v
  <1>1. \A v, note : HasVerdict(Result(v, note), v)
    BY DEF Result
  <1>2. CASE Normal(a) = Normal(b)
    <2>1. \E note : CompareLogic(a, b, dialect) =
            Result(IF Comment(a) = Comment(b) THEN "EQUAL" ELSE "EQUAL_LOGIC_DIFF_COMMENT", note)
      BY <1>2, Zenon DEF CompareLogic
    <2> QED
      BY <1>1, <1>2, <2>1
  <1>3. CASE Normal(a) /= Normal(b)
    BY <1>3, Zenon DEF CompareLogic
  <1> QED
    BY <1>2, <1>3

\* One text has one body.
LEMMA NormalBody ==
  ASSUME NEW a, NEW b, Normal(a) = Normal(b)
  PROVE  Body(a) = Body(b)
  <1>1. Normal(a)[1] = Body(a) /\ Normal(b)[1] = Body(b)
    BY DEF Normal
  <1> QED
    BY <1>1

\* What the pivot finds of two equations holds between them, up to the truth table.
LEMMA LogicIsEuclidean ==
  ASSUME NEW p, NEW a, NEW b, NEW dialect, NEW s \in 0..3,
         Severity[CompareLogic(p, a, dialect).verdict] <= s,
         Severity[CompareLogic(p, b, dialect).verdict] <= s,
         ~TooManyBits(a, b, dialect)
  PROVE  Severity[CompareLogic(a, b, dialect).verdict] <= s
  <1> DEFINE pa == CompareLogic(p, a, dialect).verdict
             pb == CompareLogic(p, b, dialect).verdict
             ab == CompareLogic(a, b, dialect).verdict
             Tree(v) == TreeOf(v, dialect)
             Canon(v) == CanonOf(v, dialect)
  <1>1. /\ Normal(p) = Normal(a) =>
             pa = IF Comment(p) = Comment(a) THEN "EQUAL" ELSE "EQUAL_LOGIC_DIFF_COMMENT"
        /\ Normal(p) /= Normal(a) => pa = CompareBodies(p, a, dialect).verdict
    BY LogicVerdict
  <1>2. /\ Normal(p) = Normal(b) =>
             pb = IF Comment(p) = Comment(b) THEN "EQUAL" ELSE "EQUAL_LOGIC_DIFF_COMMENT"
        /\ Normal(p) /= Normal(b) => pb = CompareBodies(p, b, dialect).verdict
    BY LogicVerdict
  <1>3. /\ Normal(a) = Normal(b) =>
             ab = IF Comment(a) = Comment(b) THEN "EQUAL" ELSE "EQUAL_LOGIC_DIFF_COMMENT"
        /\ Normal(a) /= Normal(b) => ab = CompareBodies(a, b, dialect).verdict
    BY LogicVerdict
  <1>4. Severity[pa] <= s /\ Severity[pb] <= s
    OBVIOUS
  <1> HIDE DEF pa, pb, ab, Tree, Canon
  <1>5. CASE s = 3
    <2>1. Normal(a) /= Normal(b) => ab \in {"EQUIVALENT", "DIFFERENT"}
      BY <1>3, BodyVerdict
    <2>2. ab \in Verdicts
      BY <1>3, <2>1 DEF Verdicts
    <2>3. Severity[ab] <= 3
      BY <2>2, Severities DEF Verdicts
    <2> QED
      BY <1>5, <2>3 DEF ab
  <1>6. CASE s <= 2 /\ Normal(p) = Normal(a) /\ Normal(p) = Normal(b)
    <2>1. Severity[ab] <= s
      <3>1. s \in 0..2 /\ Severity["EQUAL"] <= s
        BY <1>6, Severities
      <3>2. CASE Comment(a) = Comment(b)
        BY <1>3, <1>6, <3>1, <3>2
      <3>3. CASE Comment(a) /= Comment(b)
        <4>1. ab = "EQUAL_LOGIC_DIFF_COMMENT"
          BY <1>3, <1>6, <3>3
        <4>2. pa = "EQUAL_LOGIC_DIFF_COMMENT" \/ pb = "EQUAL_LOGIC_DIFF_COMMENT"
          BY <1>1, <1>2, <1>6, <3>3
        <4> QED
          BY <1>4, <4>1, <4>2
      <3> QED
        BY <3>2, <3>3
    <2> QED
      BY <2>1 DEF ab
  <1>7. CASE s <= 2 /\ (Normal(p) /= Normal(a) \/ Normal(p) /= Normal(b))
    <2>1. Normal(p) /= Normal(a) => /\ pa = "EQUIVALENT" /\ Tree(p) /= NoTree /\ Tree(a) /= NoTree
                                    /\ SameEverywhere(Canon(p), Canon(a))
      <3> SUFFICES ASSUME Normal(p) /= Normal(a)
                   PROVE  /\ pa = "EQUIVALENT" /\ Tree(p) /= NoTree /\ Tree(a) /= NoTree
                          /\ SameEverywhere(Canon(p), Canon(a))
        OBVIOUS
      <3>1. pa = CompareBodies(p, a, dialect).verdict
        BY <1>1
      <3>2. /\ pa \in {"EQUIVALENT", "DIFFERENT"}
            /\ pa = "EQUIVALENT" => /\ Tree(p) /= NoTree /\ Tree(a) /= NoTree
                                    /\ SameEverywhere(Canon(p), Canon(a))
        BY <3>1, BodyVerdict DEF Tree, Canon
      <3>3. pa /= "DIFFERENT"
        BY <1>4, <1>7, Severities
      <3> QED
        BY <3>2, <3>3
    <2>2. Normal(p) /= Normal(b) => /\ pb = "EQUIVALENT" /\ Tree(p) /= NoTree /\ Tree(b) /= NoTree
                                    /\ SameEverywhere(Canon(p), Canon(b))
      <3> SUFFICES ASSUME Normal(p) /= Normal(b)
                   PROVE  /\ pb = "EQUIVALENT" /\ Tree(p) /= NoTree /\ Tree(b) /= NoTree
                          /\ SameEverywhere(Canon(p), Canon(b))
        OBVIOUS
      <3>1. pb = CompareBodies(p, b, dialect).verdict
        BY <1>2
      <3>2. /\ pb \in {"EQUIVALENT", "DIFFERENT"}
            /\ pb = "EQUIVALENT" => /\ Tree(p) /= NoTree /\ Tree(b) /= NoTree
                                    /\ SameEverywhere(Canon(p), Canon(b))
        BY <3>1, BodyVerdict DEF Tree, Canon
      <3>3. pb /= "DIFFERENT"
        BY <1>4, <1>7, Severities
      <3> QED
        BY <3>2, <3>3
    <2>3. s = 2
      BY <1>4, <1>7, <2>1, <2>2, Severities
    <2>4. /\ Normal(p) = Normal(a) => Tree(p) = Tree(a) /\ Canon(p) = Canon(a)
          /\ Normal(p) = Normal(b) => Tree(p) = Tree(b) /\ Canon(p) = Canon(b)
      BY NormalBody DEF Tree, Canon, TreeOf, CanonOf
    <2>5. \A v : Canon(p) = v => SameEverywhere(Canon(p), v)
      BY DEF SameEverywhere
    <2>6. Tree(a) /= NoTree /\ SameEverywhere(Canon(p), Canon(a))
      BY <1>7, <2>1, <2>2, <2>4, <2>5
    <2>7. Tree(b) /= NoTree /\ SameEverywhere(Canon(p), Canon(b))
      BY <1>7, <2>1, <2>2, <2>4, <2>5
    <2>8. SameEverywhere(Canon(a), Canon(b))
      BY <2>6, <2>7 DEF SameEverywhere
    <2>9. Normal(a) /= Normal(b) => ab = "EQUIVALENT"
      <3> SUFFICES ASSUME Normal(a) /= Normal(b) PROVE ab = "EQUIVALENT"
        OBVIOUS
      <3>1. ab = CompareBodies(a, b, dialect).verdict
        BY <1>3
      <3> QED
        BY <2>6, <2>7, <2>8, <3>1, BodyVerdict DEF Tree, Canon
    <2>10. ab \in {"EQUAL", "EQUAL_LOGIC_DIFF_COMMENT", "EQUIVALENT"}
      BY <1>3, <2>9
    <2> QED
      BY <2>3, <2>10, Severities DEF ab
  <1> QED
    BY <1>5, <1>6, <1>7

\* The verdict of the other kinds.
TextVerdict(a, b) == IF a.text = b.text THEN "EQUAL" ELSE "DIFFERENT"
SetListVerdict(a, b) ==
  IF a.text = b.text THEN "EQUAL"
  ELSE IF ToSet(a.text) = ToSet(b.text) THEN "EQUIVALENT" ELSE "DIFFERENT"

LEMMA TextVerdicts == \A a, b : CompareText(a, b).verdict = TextVerdict(a, b)
  <1> SUFFICES ASSUME NEW a, NEW b PROVE CompareText(a, b).verdict = TextVerdict(a, b)
    OBVIOUS
  <1>1. \A v, note : Result(v, note).verdict = v
    BY DEF Result
  <1>2. \E note : CompareText(a, b) = Result(TextVerdict(a, b), note)
    BY Zenon DEF CompareText, TextVerdict
  <1> QED
    BY <1>1, <1>2

LEMMA SetListVerdicts == \A a, b : CompareSetList(a, b).verdict = SetListVerdict(a, b)
  <1> SUFFICES ASSUME NEW a, NEW b PROVE CompareSetList(a, b).verdict = SetListVerdict(a, b)
    OBVIOUS
  <1>1. \A v, note : Result(v, note).verdict = v
    BY DEF Result
  <1>2. \E note : CompareSetList(a, b) = Result(SetListVerdict(a, b), note)
    BY Zenon DEF CompareSetList, SetListVerdict
  <1> QED
    BY <1>1, <1>2

LEMMA NumberVerdicts == \A a, b : CompareNumber(a, b).verdict \in Verdicts
  <1> SUFFICES ASSUME NEW a, NEW b PROVE CompareNumber(a, b).verdict \in Verdicts
    OBVIOUS
  <1>1. \A v, note : Result(v, note).verdict = v
    BY DEF Result
  <1>2. \E v, note : v \in Verdicts /\ CompareNumber(a, b) = Result(v, note)
    <2>1. "EQUAL" \in Verdicts /\ "DIFFERENT" \in Verdicts /\ "EQUIVALENT" \in Verdicts
      BY DEF Verdicts
    <2>2. CASE a.text = b.text
      BY <2>1, <2>2, Zenon DEF CompareNumber
    <2>3. CASE a.text /= b.text /\ "text" \in {a.class, b.class}
      BY <2>1, <2>3, Zenon DEF CompareNumber
    <2>4. CASE a.text /= b.text /\ "text" \notin {a.class, b.class}
      <3> DEFINE within == Within([class |-> a.class, num |-> a.num], [class |-> b.class, num |-> b.num])
      <3>1. CASE within
        BY <2>1, <2>4, <3>1, Zenon DEF CompareNumber
      <3>2. CASE ~within
        BY <2>1, <2>4, <3>2, Zenon DEF CompareNumber
      <3> QED
        BY <3>1, <3>2
    <2> QED
      BY <2>2, <2>3, <2>4
  <1> QED
    BY <1>1, <1>2

LEMMA LogicVerdicts == \A a, b, dialect : CompareLogic(a, b, dialect).verdict \in Verdicts
  <1> SUFFICES ASSUME NEW a, NEW b, NEW dialect PROVE CompareLogic(a, b, dialect).verdict \in Verdicts
    OBVIOUS
  <1> DEFINE verdict == CompareLogic(a, b, dialect).verdict
  <1>1. /\ Normal(a) = Normal(b) =>
             verdict = IF Comment(a) = Comment(b) THEN "EQUAL" ELSE "EQUAL_LOGIC_DIFF_COMMENT"
        /\ Normal(a) /= Normal(b) => verdict = CompareBodies(a, b, dialect).verdict
    BY LogicVerdict
  <1> HIDE DEF verdict
  <1>2. Normal(a) /= Normal(b) => verdict \in {"EQUIVALENT", "DIFFERENT"}
    BY <1>1, BodyVerdict
  <1>3. verdict \in Verdicts
    BY <1>1, <1>2 DEF Verdicts
  <1> QED
    BY <1>3 DEF verdict

LEMMA CompareKinds ==
  ASSUME NEW a, NEW b, NEW dialect
  PROVE  /\ Compare(a, b, "logic", dialect) = CompareLogic(a, b, dialect)
         /\ Compare(a, b, "number", dialect) = CompareNumber(a, b)
         /\ Compare(a, b, "set_list", dialect) = CompareSetList(a, b)
         /\ Compare(a, b, "string", dialect) = CompareText(a, b)
         /\ Compare(a, b, "enum", dialect) = CompareText(a, b)
  BY DEF Compare

\* A value is equal to itself, and what the pivot finds of two values holds
\* between them, but for numbers and up to the truth table.
LEMMA CompareIsEuclidean ==
  ASSUME NEW p, NEW a, NEW b, NEW dialect, NEW kind \in Kinds4, NEW s \in 0..3,
         Severity[Compare(p, a, kind, dialect).verdict] <= s,
         Severity[Compare(p, b, kind, dialect).verdict] <= s,
         kind = "logic" => ~TooManyBits(a, b, dialect)
  PROVE  Severity[Compare(a, b, kind, dialect).verdict] <= s
  <1>1. CASE kind = "logic"
    BY <1>1, CompareKinds, LogicIsEuclidean
  <1>2. CASE kind = "set_list"
    <2>1. /\ Severity[CompareSetList(p, a).verdict] <= s
          /\ Severity[CompareSetList(p, b).verdict] <= s
      BY <1>2, CompareKinds
    <2>2. Severity[SetListVerdict(p, a)] <= s /\ Severity[SetListVerdict(p, b)] <= s
      BY <2>1, SetListVerdicts
    <2>3. Severity[SetListVerdict(a, b)] <= s
      BY <2>2, Severities DEF SetListVerdict
    <2> QED
      BY <1>2, <2>3, CompareKinds, SetListVerdicts
  <1>3. CASE kind \in {"string", "enum"}
    <2>1. Severity[CompareText(p, a).verdict] <= s /\ Severity[CompareText(p, b).verdict] <= s
      BY <1>3, CompareKinds
    <2>2. Severity[TextVerdict(p, a)] <= s /\ Severity[TextVerdict(p, b)] <= s
      BY <2>1, TextVerdicts
    <2>3. Severity[TextVerdict(a, b)] <= s
      BY <2>2, Severities DEF TextVerdict
    <2> QED
      BY <1>3, <2>3, CompareKinds, TextVerdicts
  <1> QED
    BY <1>1, <1>2, <1>3 DEF Kinds4

LEMMA CompareSelf ==
  ASSUME NEW p, NEW dialect, NEW kind \in Kinds4
  PROVE  Compare(p, p, kind, dialect).verdict = "EQUAL"
  <1>1. CompareLogic(p, p, dialect).verdict = "EQUAL"
    BY LogicVerdict
  <1>2. CompareText(p, p).verdict = "EQUAL" /\ CompareSetList(p, p).verdict = "EQUAL"
    BY TextVerdicts, SetListVerdicts DEF TextVerdict, SetListVerdict
  <1> QED
    BY <1>1, <1>2, CompareKinds DEF Kinds4

LEMMA CompareInVerdicts ==
  ASSUME NEW a, NEW b, NEW dialect, NEW kind \in Kinds4 \cup {"number"}
  PROVE  Compare(a, b, kind, dialect).verdict \in Verdicts
  <1>1. CompareText(a, b).verdict \in Verdicts /\ CompareSetList(a, b).verdict \in Verdicts
    BY TextVerdicts, SetListVerdicts DEF Verdicts, TextVerdict, SetListVerdict
  <1>2. CompareNumber(a, b).verdict \in Verdicts /\ CompareLogic(a, b, dialect).verdict \in Verdicts
    BY NumberVerdicts, LogicVerdicts
  <1> QED
    BY <1>1, <1>2, CompareKinds DEF Kinds4

-----------------------------------------------------------------------------
(* compare_n: what the fold keeps *)

Start == Result("EQUAL", "")
Pivoted(values, kind, dialect, j) == Compare(values[1], values[j], kind, dialect)
ResultsOf(values, n, kind, dialect) ==
  {Start} \cup {Pivoted(values, kind, dialect, i + 1) : i \in 1..n}

\* p is the worst of the first results, for each number of them.
ArePivots(p, values, n, kind, dialect) ==
  /\ p[0] = Start /\ p[n] = CompareN(values, kind, dialect)
  /\ \A k \in 0..n : k < n => p[k + 1] = Worse(p[k], Pivoted(values, kind, dialect, k + 2))

LEMMA PivotPrefixes ==
  ASSUME NEW values, NEW n \in Nat \ {0}, Len(values) = n + 1, DOMAIN values = 1..(n + 1),
         NEW kind, NEW dialect
  PROVE  \E p : ArePivots(p, values, n, kind, dialect)
  <1> DEFINE D == ResultsOf(values, n, kind, dialect)
             Step(f, i) == Worse(f, Pivoted(values, kind, dialect, i + 1))
             F == [x \in D \X (1..n) |-> Step(x[1], x[2])]
             places == [i \in 1..n |-> i]
             Iter(g) == g = [s \in SUBSET (1..n) |->
                               IF s = {} THEN Start ELSE Step(g[s \ {Max(s)}], Max(s))]
  <1>1. Start \in D
    BY DEF ResultsOf
  <1>2. \A f \in D, i \in 1..n : Step(f, i) \in D
    <2>1. \A f, r : Worse(f, r) \in {f, r}
      BY Zenon DEF Worse
    <2> QED
      BY <2>1 DEF ResultsOf
  <1>3. \A i \in 1..n : places[i] = i
    OBVIOUS
  <1> HIDE DEF D, Step
  <1>4. F \in [D \X (1..n) -> D]
    BY <1>2
  <1> HIDE DEF F, places
  <1>5. PICK g : FoldIn(n, D, F, Start, places, g)
    <2>1. CanFold(n, D, 1..n, F, Start, places)
      BY <1>1, <1>3, <1>4 DEF CanFold
    <2> QED
      BY <2>1, FoldExists
  <1>6. Iter(g)
    <2>1. ASSUME NEW s \in SUBSET (1..n), s /= {}
          PROVE  FoldStep(F, Start, places, g, s) = Step(g[s \ {Max(s)}], Max(s))
      <3>1. Max(s) \in 1..n
        BY <2>1, MaxIsIn
      <3>2. places[Max(s)] = Max(s) /\ g[s \ {Max(s)}] \in D
        BY <1>3, <1>5, <3>1 DEF FoldIn
      <3> QED
        BY <2>1, <3>1, <3>2 DEF FoldStep, F
    <2>2. ASSUME NEW s \in SUBSET (1..n)
          PROVE  FoldStep(F, Start, places, g, s) =
                   IF s = {} THEN Start ELSE Step(g[s \ {Max(s)}], Max(s))
      BY <2>1 DEF FoldStep
    <2> QED
      BY <1>5, <2>2 DEF FoldIn, FoldOver
  <1> DEFINE h == CHOOSE x : Iter(x)
  <1>7. Iter(h)
    BY <1>6
  <1>8. CompareN(values, kind, dialect) = h[1..n]
    <2> DEFINE rest == Tail(values)
               Literally(f, i) == Worse(f, Compare(Head(values), rest[i], kind, dialect))
               Iter0(x) == x = [s \in SUBSET DOMAIN rest |->
                                  IF s = {} THEN Start ELSE Literally(x[s \ {Max(s)}], Max(s))]
    <2>1. DOMAIN rest = 1..n /\ Head(values) = values[1] /\ \A i \in 1..n : rest[i] = values[i + 1]
      BY DEF Head, Tail
    <2>2. ~(Len(values) < 2)
      OBVIOUS
    <2>3. CompareN(values, kind, dialect) =
            FoldLeft(LAMBDA worst, v : Worse(worst, Compare(Head(values), v, kind, dialect)), Start, rest)
      BY <2>2, Zenon DEF CompareN, Start
    <2>4. CompareN(values, kind, dialect) = (CHOOSE x : Iter0(x))[DOMAIN rest]
      BY <2>3 DEF FoldLeft, MapThenFoldSet
    <2> HIDE DEF rest, h
    <2>5. ASSUME NEW f, NEW s \in SUBSET (1..n), s /= {}
          PROVE  Literally(f, Max(s)) = Step(f, Max(s))
      <3>1. Max(s) \in 1..n
        BY <2>5, MaxIsIn
      <3> QED
        BY <2>1, <3>1 DEF Step, Pivoted
    <2> HIDE DEF Literally
    <2>6. \A x : Iter0(x) <=> Iter(x)
      <3> DEFINE Lit(x, t) == IF t = {} THEN Start ELSE Literally(x[t \ {Max(t)}], Max(t))
                 Stp(x, t) == IF t = {} THEN Start ELSE Step(x[t \ {Max(t)}], Max(t))
      <3>1. ASSUME NEW x, NEW t \in SUBSET (1..n) PROVE Lit(x, t) = Stp(x, t)
        BY <2>5
      <3>2. \A x : Iter0(x) <=> x = [t \in SUBSET (1..n) |-> Lit(x, t)]
        BY <2>1
      <3> HIDE DEF Lit, Stp, Iter0
      <3>3. \A x : [t \in SUBSET (1..n) |-> Lit(x, t)] = [t \in SUBSET (1..n) |-> Stp(x, t)]
        BY <3>1
      <3>4. \A x : Iter0(x) <=> x = [t \in SUBSET (1..n) |-> Stp(x, t)]
        BY <3>2, <3>3
      <3> QED
        BY <3>4 DEF Stp
    <2> HIDE DEF Iter0, Iter
    <2>7. (CHOOSE x : Iter0(x)) = (CHOOSE x : Iter(x))
      BY <2>6
    <2> QED
      BY <2>1, <2>4, <2>7 DEF h
  <1> HIDE DEF h
  <1> DEFINE p == [k \in 0..n |-> h[1..k]]
  <1>9. p[0] = Start /\ p[n] = CompareN(values, kind, dialect)
    <2>1. 1..0 = {} /\ 0 \in 0..n /\ n \in 0..n
      OBVIOUS
    <2> QED
      BY <1>7, <1>8, <2>1
  <1>10. ASSUME NEW k \in 0..n, k < n PROVE p[k + 1] = Step(p[k], k + 1)
    <2>1. /\ 1..(k + 1) \in SUBSET (1..n) /\ 1..(k + 1) /= {} /\ Max(1..(k + 1)) = k + 1
          /\ (1..(k + 1)) \ {k + 1} = 1..k
      BY <1>10, NextPlace
    <2>2. h[1..(k + 1)] = Step(h[1..k], k + 1)
      BY <1>7, <2>1
    <2>3. k + 1 \in 0..n
      BY <1>10
    <2> QED
      BY <2>2, <2>3
  <1> HIDE DEF p
  <1> QED
    BY <1>9, <1>10 DEF Step, ArePivots

\* The worst of a verdict so far and the next one.
LEMMA WorseIs ==
  ASSUME NEW worst, NEW next, worst.verdict \in Verdicts, next.verdict \in Verdicts
  PROVE  /\ Severity[next.verdict] > Severity[worst.verdict] => Worse(worst, next) = next
         /\ ~(Severity[next.verdict] > Severity[worst.verdict]) =>
              Worse(worst, next) = IF next.verdict = worst.verdict /\ Blank(worst.note)
                                   THEN next ELSE worst
  <1> DEFINE more == Severity[next.verdict] > Severity[worst.verdict]
             same == next.verdict = worst.verdict
  <1>1. Worse(worst, next) = CASE more -> next
                               [] same /\ Blank(worst.note) -> next
                               [] OTHER -> worst
    BY Zenon DEF Worse, Blank
  <1>2. same => ~more
    <2>1. Severity[worst.verdict] \in 0..3
      BY Severities DEF Verdicts
    <2> QED
      BY <2>1
  <1> HIDE DEF more, same
  <1> QED
    BY <1>1, <1>2 DEF more, same

LEMMA StartIs == Start.verdict = "EQUAL" /\ Blank(Start.note)
  <1>1. \E note : Blank(note) /\ Start = Result("EQUAL", note)
    BY Zenon DEF Start, Blank
  <1>2. \A v, note : Result(v, note).verdict = v /\ Result(v, note).note = note
    BY DEF Result
  <1> QED
    BY <1>1, <1>2

\* Of the k first results: none is worse than the worst, one is that bad, and its
\* note is the first that one so bad has.
FirstNote(worst, r, k) ==
  IF Blank(worst.note)
  THEN \A j \in 2..(k + 1) : r[j].verdict = worst.verdict => Blank(r[j].note)
  ELSE \E j \in 2..(k + 1) :
         /\ r[j].verdict = worst.verdict /\ r[j].note = worst.note
         /\ \A i \in 2..(k + 1) : i < j /\ r[i].verdict = worst.verdict => Blank(r[i].note)
WorstOf(worst, r, k) ==
  /\ worst.verdict \in Verdicts
  /\ \A j \in 2..(k + 1) : Severity[r[j].verdict] <= Severity[worst.verdict]
  /\ IF k = 0 THEN worst.verdict = "EQUAL"
     ELSE \E j \in 2..(k + 1) : r[j].verdict = worst.verdict
  /\ FirstNote(worst, r, k)

LEMMA WorstNext ==
  ASSUME NEW k \in Nat, NEW r, \A j \in 2..(k + 2) : r[j].verdict \in Verdicts,
         NEW worst, WorstOf(worst, r, k)
  PROVE  WorstOf(Worse(worst, r[k + 2]), r, k + 1)
  <1> DEFINE next == r[k + 2]
             new == Worse(worst, next)
             Sev(v) == Severity[v]
             Note(w, m) == FirstNote(w, r, m)
  <1>1. \A j : j \in 2..(k + 2) <=> j \in 2..(k + 1) \/ j = k + 2
    OBVIOUS
  <1>2. next.verdict \in Verdicts /\ k + 2 \in 2..(k + 2) /\ (k + 1) + 1 = k + 2 /\ k + 1 /= 0
        /\ \A j \in 2..(k + 1) : j < k + 2
    BY <1>1
  <1>3. /\ worst.verdict \in Verdicts
        /\ \A j \in 2..(k + 1) : Sev(r[j].verdict) <= Sev(worst.verdict)
        /\ Note(worst, k)
        /\ k /= 0 => \E j \in 2..(k + 1) : r[j].verdict = worst.verdict
        /\ k = 0 => worst.verdict = "EQUAL"
    BY DEF WorstOf
  <1>4. /\ \A v \in Verdicts : Sev(v) \in 0..3
        /\ \A v, w \in Verdicts : Sev(v) = Sev(w) => v = w
        /\ Sev("EQUAL") = 0
    BY Severities DEF Verdicts
  <1> HIDE DEF next, Sev, new, Note
  <1>5. CASE Sev(next.verdict) > Sev(worst.verdict)
    <2>1. new = next
      BY <1>2, <1>3, <1>5, WorseIs DEF new, Sev
    <2>2. \A j \in 2..(k + 1) : r[j].verdict /= next.verdict /\ Sev(r[j].verdict) <= Sev(next.verdict)
      BY <1>1, <1>2, <1>3, <1>4, <1>5
    <2>3. \A j \in 2..(k + 2) : Sev(r[j].verdict) <= Sev(next.verdict)
      BY <1>1, <1>2, <1>4, <2>2 DEF next
    <2>4. FirstNote(next, r, k + 1)
      BY <1>1, <1>2, <2>2 DEF FirstNote, next
    <2>5. \E j \in 2..(k + 2) : r[j].verdict = next.verdict
      BY <1>2 DEF next
    <2> QED
      BY <1>2, <2>1, <2>3, <2>4, <2>5 DEF WorstOf, Sev, new, next
  <1>6. CASE ~(Sev(next.verdict) > Sev(worst.verdict)) /\ next.verdict = worst.verdict /\ Blank(worst.note)
    <2>1. new = next
      BY <1>2, <1>3, <1>6, WorseIs DEF new, Sev
    <2>2. \A j \in 2..(k + 1) : r[j].verdict = next.verdict => Blank(r[j].note)
      BY <1>3, <1>6 DEF Note, FirstNote
    <2>3. \A j \in 2..(k + 2) : Sev(r[j].verdict) <= Sev(next.verdict)
      BY <1>1, <1>2, <1>3, <1>4, <1>6 DEF next
    <2>4. FirstNote(next, r, k + 1)
      BY <1>1, <1>2, <2>2 DEF FirstNote, next
    <2>5. \E j \in 2..(k + 2) : r[j].verdict = next.verdict
      BY <1>2 DEF next
    <2> QED
      BY <1>2, <2>1, <2>3, <2>4, <2>5 DEF WorstOf, Sev, new, next
  <1>7. CASE ~(Sev(next.verdict) > Sev(worst.verdict)) /\ ~(next.verdict = worst.verdict /\ Blank(worst.note))
    <2>1. new = worst
      BY <1>2, <1>3, <1>7, WorseIs DEF new, Sev
    <2>2. \A j \in 2..(k + 2) : Sev(r[j].verdict) <= Sev(worst.verdict)
      BY <1>1, <1>2, <1>3, <1>4, <1>7 DEF next
    <2>3. FirstNote(worst, r, k + 1)
      <3>1. CASE Blank(worst.note)
        <4>1. next.verdict /= worst.verdict
          BY <1>7, <3>1
        <4>2. \A j \in 2..(k + 1) : r[j].verdict = worst.verdict => Blank(r[j].note)
          BY <1>3, <3>1 DEF Note, FirstNote
        <4> QED
          BY <1>1, <1>2, <3>1, <4>1, <4>2 DEF FirstNote, next
      <3>2. CASE ~Blank(worst.note)
        <4>1. PICK j \in 2..(k + 1) :
                /\ r[j].verdict = worst.verdict /\ r[j].note = worst.note
                /\ \A i \in 2..(k + 1) : i < j /\ r[i].verdict = worst.verdict => Blank(r[i].note)
          BY <1>3, <3>2 DEF Note, FirstNote
        <4>2. j < k + 2 /\ j \in 2..(k + 2)
          BY <1>1, <1>2
        <4>3. \A i \in 2..(k + 2) : i < j => i \in 2..(k + 1)
          BY <1>1, <4>2
        <4> QED
          BY <1>2, <3>2, <4>1, <4>2, <4>3 DEF FirstNote
      <3> QED
        BY <3>1, <3>2
    <2>4. \E j \in 2..(k + 2) : r[j].verdict = worst.verdict
      <3>1. CASE k = 0
        <4>1. Sev(next.verdict) = Sev(worst.verdict)
          BY <1>2, <1>3, <1>4, <1>7, <3>1
        <4>2. next.verdict = worst.verdict
          BY <1>2, <1>3, <1>4, <4>1
        <4> QED
          BY <1>2, <4>2 DEF next
      <3>2. CASE k /= 0
        BY <1>1, <1>3, <3>2
      <3> QED
        BY <3>1, <3>2
    <2> QED
      BY <1>2, <1>3, <2>1, <2>2, <2>3, <2>4 DEF WorstOf, Sev, new, next
  <1> QED
    BY <1>5, <1>6, <1>7 DEF new, next

\* What compare_n answers is the worst of its pairs with the pivot.
LEMMA WorstAnswered ==
  ASSUME NEW values, NEW n \in Nat \ {0}, Len(values) = n + 1, DOMAIN values = 1..(n + 1),
         NEW kind \in Kinds4 \cup {"number"}, NEW dialect
  PROVE  WorstOf(CompareN(values, kind, dialect),
                 [j \in 2..(n + 1) |-> Pivoted(values, kind, dialect, j)], n)
  <1> DEFINE Res(j) == Pivoted(values, kind, dialect, j)
             r == [j \in 2..(n + 1) |-> Res(j)]
             reply == CompareN(values, kind, dialect)
  <1>0. PICK p : ArePivots(p, values, n, kind, dialect)
    BY PivotPrefixes
  <1>1. /\ p[0] = Start /\ p[n] = reply
        /\ \A k \in 0..n : k < n => p[k + 1] = Worse(p[k], Res(k + 2))
    BY <1>0 DEF ArePivots
  <1>2. \A j \in 2..(n + 1) : r[j] = Res(j) /\ r[j].verdict \in Verdicts
    BY CompareInVerdicts DEF Pivoted
  <1> HIDE DEF Res, r, reply
  <1> DEFINE N == {m \in Nat : m <= n => WorstOf(p[m], r, m)}
  <1>3. 0 \in N
    <2>1. Start.verdict = "EQUAL" /\ Blank(Start.note)
      BY StartIs
    <2>2. \A j : j \notin 2..(0 + 1)
      OBVIOUS
    <2>3. FirstNote(Start, r, 0)
      BY <2>1, <2>2 DEF FirstNote
    <2>4. WorstOf(Start, r, 0)
      BY <2>1, <2>2, <2>3 DEF WorstOf, Verdicts
    <2> QED
      BY <1>1, <2>4
  <1>4. \A m \in Nat : m \in N => m + 1 \in N
    <2> SUFFICES ASSUME NEW m \in Nat, m + 1 <= n, WorstOf(p[m], r, m)
                 PROVE  WorstOf(p[m + 1], r, m + 1)
      OBVIOUS
    <2>1. m \in 0..n /\ m < n /\ m + 2 \in 2..(n + 1) /\ \A j \in 2..(m + 2) : j \in 2..(n + 1)
      OBVIOUS
    <2>2. p[m + 1] = Worse(p[m], r[m + 2])
      BY <1>1, <1>2, <2>1
    <2> HIDE DEF N
    <2> QED
      BY <1>2, <2>1, <2>2, WorstNext
  <1> HIDE DEF N
  <1>5. n \in N
    BY <1>3, <1>4, NatInductionSet
  <1>6. WorstOf(p[n], r, n)
    BY <1>5 DEF N
  <1> QED
    BY <1>1, <1>6 DEF r, reply, Res

\* The pairs with the pivot that have the verdict and a note.
NotedPairs(values, kind, dialect, verdict) ==
  {j \in 2..Len(values) : /\ Compare(values[1], values[j], kind, dialect).verdict = verdict
                          /\ ~Blank(Compare(values[1], values[j], kind, dialect).note)}
\* The two values are judged alike by the pivot and by one another.
IsJudged(values, kind, dialect, i, j) ==
  /\ kind /= "number"
  /\ kind = "logic" => ~TooManyBits(values[i], values[j], dialect)

\* What is found of two values is at most the worst found with the pivot.
LEMMA PairWithinWorst ==
  ASSUME NEW values, IsList(values), NEW kind \in Kinds4, NEW dialect, NEW verdict \in Verdicts,
         \A j \in 2..Len(values) :
           Severity[Compare(values[1], values[j], kind, dialect).verdict] <= Severity[verdict],
         NEW i \in DOMAIN values, NEW j \in DOMAIN values,
         kind = "logic" => ~TooManyBits(values[i], values[j], dialect)
  PROVE  Severity[Compare(values[i], values[j], kind, dialect).verdict] <= Severity[verdict]
  <1> DEFINE s == Severity[verdict]
             Sev(x) == Severity[Compare(values[1], values[x], kind, dialect).verdict]
  <1>1. s \in 0..3
    BY Severities DEF Verdicts
  <1>2. Len(values) \in Nat /\ DOMAIN values = 1..Len(values)
    BY DEF IsList
  <1>3. ASSUME NEW x \in DOMAIN values PROVE Sev(x) <= s
    <2>1. CASE x = 1
      <3>1. Compare(values[1], values[1], kind, dialect).verdict = "EQUAL"
        BY CompareSelf
      <3>2. Sev(x) = 0
        BY <2>1, <3>1, Severities
      <3> QED
        BY <1>1, <3>2
    <2>2. CASE x /= 1
      BY <1>2, <2>2
    <2> QED
      BY <2>1, <2>2
  <1>4. Sev(i) <= s /\ Sev(j) <= s
    BY <1>3
  <1> QED
    BY <1>1, <1>4, CompareIsEuclidean

LEMMA PivotFacts ==
  ASSUME NEW values, IsList(values), NEW kind \in Kinds4 \cup {"number"}, NEW dialect
  PROVE  PivotSeesWorst(values, kind, dialect, CompareN(values, kind, dialect))
  <1> DEFINE len == Len(values)
             reply == CompareN(values, kind, dialect)
             Pair(i, j) == Compare(values[i], values[j], kind, dialect)
             noted == NotedPairs(values, kind, dialect, reply.verdict)
             Judged(i, j) == IsJudged(values, kind, dialect, i, j)
             Found == /\ reply.verdict \in Verdicts
                      /\ \A j \in 2..len : Severity[Pair(1, j).verdict] <= Severity[reply.verdict]
                      /\ IF noted = {} THEN Blank(reply.note)
                         ELSE reply.note = Pair(1, Min(noted)).note
                      /\ IF len < 2 THEN reply.verdict = "EQUAL"
                         ELSE \E j \in 2..len : Pair(1, j).verdict = reply.verdict
  <1>1. len \in Nat /\ DOMAIN values = 1..len
    BY DEF IsList
  <1>2. ASSUME len < 2 PROVE Found
    <2>1. reply = Start
      BY <1>2, Zenon DEF CompareN, Start
    <2>2. Start.verdict = "EQUAL" /\ Blank(Start.note)
      BY StartIs
    <2>3. \A j : j \notin 2..len
      BY <1>1, <1>2
    <2>4. noted = {}
      BY <2>3 DEF NotedPairs
    <2> HIDE DEF noted, reply
    <2>5. Found
      BY <1>2, <2>1, <2>2, <2>3, <2>4 DEF Verdicts
    <2> QED
      BY <2>5
  <1>3. ASSUME ~(len < 2) PROVE Found
    <2> DEFINE n == len - 1
               r == [j \in 2..(n + 1) |-> Pivoted(values, kind, dialect, j)]
    <2>1. n \in Nat \ {0} /\ len = n + 1 /\ DOMAIN values = 1..(n + 1)
      BY <1>1, <1>3
    <2>2. WorstOf(reply, r, n)
      BY <2>1, WorstAnswered
    <2>3. \A j \in 2..len : r[j] = Pair(1, j)
      BY <2>1 DEF Pivoted
    <2>4. \A j : j \in noted <=> j \in 2..len /\ r[j].verdict = reply.verdict /\ ~Blank(r[j].note)
      BY <2>3 DEF NotedPairs
    <2> HIDE DEF n, r, reply, noted, Pair
    <2>5. /\ reply.verdict \in Verdicts
          /\ \A j \in 2..len : Severity[r[j].verdict] <= Severity[reply.verdict]
          /\ \E j \in 2..len : r[j].verdict = reply.verdict
          /\ IF Blank(reply.note)
             THEN \A j \in 2..len : r[j].verdict = reply.verdict => Blank(r[j].note)
             ELSE \E j \in 2..len :
                    /\ r[j].verdict = reply.verdict /\ r[j].note = reply.note
                    /\ \A i \in 2..len : i < j /\ r[i].verdict = reply.verdict => Blank(r[i].note)
      BY <2>1, <2>2 DEF WorstOf, FirstNote
    <2>6. CASE Blank(reply.note)
      <3>1. noted = {}
        BY <2>4, <2>5, <2>6
      <3> QED
        BY <1>3, <2>3, <2>5, <2>6, <3>1
    <2>7. CASE ~Blank(reply.note)
      <3>1. PICK j \in 2..len :
              /\ r[j].verdict = reply.verdict /\ r[j].note = reply.note
              /\ \A i \in 2..len : i < j /\ r[i].verdict = reply.verdict => Blank(r[i].note)
        BY <2>5, <2>7
      <3>2. j \in noted /\ \A i \in noted : ~(i < j)
        BY <2>4, <2>7, <3>1
      <3>3. \A i \in noted : i \in Int
        BY <2>4
      <3>4. Min(noted) = j
        <4>1. \A x \in noted : (\A y \in noted : x <= y) <=> x = j
          BY <3>2, <3>3
        <4> QED
          BY <3>2, <4>1 DEF Min
      <3> QED
        BY <1>3, <2>3, <2>5, <3>1, <3>2, <3>4
    <2> QED
      BY <2>6, <2>7
  <1>4. Found
    BY <1>2, <1>3
  <1> HIDE DEF noted, reply, Found
  <1>5. ASSUME NEW i \in DOMAIN values, NEW j \in DOMAIN values, Judged(i, j)
        PROVE  Severity[Pair(i, j).verdict] <= Severity[reply.verdict]
    <2>1. kind \in Kinds4 /\ (kind = "logic" => ~TooManyBits(values[i], values[j], dialect))
      BY <1>5 DEF IsJudged
    <2> QED
      BY <1>4, <2>1, PairWithinWorst DEF Found
  <1>6. reply.note = (IF noted = {} THEN "" ELSE Pair(1, Min(noted)).note)
    BY <1>4, Zenon DEF Found, Blank
  <1>7. IF len < 2 THEN reply.verdict = "EQUAL"
        ELSE \E j \in 2..len : Pair(1, j).verdict = reply.verdict
    BY <1>4 DEF Found
  <1>8. \A p \in (DOMAIN values) \X (DOMAIN values) :
          Judged(p[1], p[2]) => Severity[Pair(p[1], p[2]).verdict] <= Severity[reply.verdict]
    BY <1>5
  <1> QED
    BY <1>6, <1>7, <1>8, Zenon DEF PivotSeesWorst, NotedPairs, IsJudged, TooManyBits, noted, reply, Blank

\* Whatever is compared: the worst verdict of any two values of a setting is not
\* hidden from the pivot, but for tolerances that add up and truth tables too large
\* to make, and the note is the first one given for it (compare_n).
THEOREM PivotIsTheWorst == Spec => []PivotIsWorst
  <1>1. ReplyInv => PivotIsWorst
    <2> SUFFICES ASSUME ReplyInv, Answered("compare_n")
                 PROVE  PivotSeesWorst(call.values, call.kind, call.dialect, answer)
      BY DEF PivotIsWorst
    <2>1. call \in CompareCalls
      BY CallOf DEF ReplyInv, Answered
    <2>2. answer = CompareN(call.values, call.kind, call.dialect)
      BY DEF ReplyInv, Reply
    <2>3. IsList(call.values) /\ call.kind \in Kinds4 \cup {"number"}
      BY <2>1, ReadersAssumption DEF Kinds4
    <2> QED
      BY <2>2, <2>3, PivotFacts
  <1> QED
    BY <1>1, Replies, PTL
=============================================================================
