---------------------------- MODULE ShortAddress ----------------------------
(***************************************************************************)
(* The SEL grammars of scl/mms_tables.py: which attribute of a point is    *)
(* worth reading as a bit, what an sAddr says, and how one bit is taken    *)
(* out of the value of a point that carries several.  An attribute is the  *)
(* sequence of its segments below the data object.                         *)
(***************************************************************************)
EXTENDS Naming

BooleanStatusDAs ==
  {"stVal", "general", "phsA", "phsB", "phsC", "phsAB", "phsBC", "phsCA",
   "neut", "res", "neg", "pos", "zer"}
EnumStatusDAs == {"stVal", "dirGeneral"}
EnumStatusDOs == {"Pos", "Health", "Mod", "Beh", "TrBeh", "EEHealth", "PhyHealth", "ExConSt1"}

\* py61850.fc_is_control_attribute.
IsControl(da) == Head(da) \in {"Oper", "SBO", "SBOw", "Cancel"}
IsBooleanStatus(da) == Len(da) = 1 /\ Head(da) \in BooleanStatusDAs
IsEnumStatus(da) == Len(da) = 1 /\ Head(da) \in EnumStatusDAs
IsEnumDo(do) == do \in EnumStatusDOs

\* da_rank: (0,), (0, 1), (1,) and (2,) are 0, 1, 2 and 3.
DaRank(da, decorated) ==
  CASE IsControl(da) -> 3
    [] ~IsControl(da) /\ decorated /\ (IsEnumStatus(da) \/ IsBooleanStatus(da)) -> 1
    [] ~IsControl(da) /\ ~decorated /\ IsBooleanStatus(da) -> 0
    [] OTHER -> 2

-----------------------------------------------------------------------------
(* db:NAME|NAME?value:value:...  An address in the file has a prefix, the  *)
(* names of its head and, after a "?", the values of its tail.             *)

Junk == -99         \* a value that is no integer
Plain == <<>>       \* an address without a "?"
NoSpec == [names |-> <<>>, alternatives |-> Plain]
NoRule == [alternatives |-> <<>>, index |-> 0, nbits |-> 0]

\* parse_saddr.
ParseSaddr(sa) ==
  LET names == [i \in DOMAIN sa.names |-> Upper[sa.names[i]]]
  IN  IF \/ sa.prefix /= "db:"
         \/ "" \in ToSet(names)
         \/ sa.marked /\ Junk \in ToSet(sa.tail)
         \/ sa.marked /\ Len(sa.tail) /= 2^Len(names)
      THEN NoSpec
      ELSE [names |-> names, alternatives |-> IF sa.marked THEN sa.tail ELSE Plain]

IsDecorated(spec) == spec.alternatives /= Plain
\* SaddrSpec.rule_for.  Bits count from 0.
RuleFor(spec, index) ==
  IF IsDecorated(spec)
  THEN [alternatives |-> spec.alternatives, index |-> index, nbits |-> Len(spec.names)]
  ELSE NoRule

\* decode_bit.  A value read from a relay has a type; the digits of a text are
\* a sequence.  NoReading for no reading.
NoReading == -1
OfBinary(digits) == FoldLeft(LAMBDA n, d : 2 * n + d, 0, digits)
IsBinary(value) ==
  value.type = "str" /\ value.digits /= <<>> /\ ToSet(value.digits) \subseteq {0, 1}
Number(value) == IF value.type = "int" THEN value.n ELSE OfBinary(value.digits)

BitOfCombination(combination, rule) ==
  (combination \div 2^(rule.nbits - 1 - rule.index)) % 2
DecodeBit(rule, value) ==
  LET at == {i \in DOMAIN rule.alternatives : rule.alternatives[i] = Number(value)}
  IN  IF rule = NoRule \/ ~(value.type = "int" \/ IsBinary(value)) THEN NoReading
      ELSE IF at = {} THEN NoReading
      ELSE BitOfCombination(Min(at) - 1, rule)

-----------------------------------------------------------------------------
\* Whatever two bits are set, the value the address gives to that combination
\* is read back as those bits, as a number and as the text of a Dbpos; where
\* an address gives one value to two combinations, as the first.  A value that
\* stands for no combination is no reading, never a 0.
ReadsBackTheBits(sa) ==
  LET spec == ParseSaddr(sa)
      alts == spec.alternatives
      Bits(c, i) == IF Len(spec.names) = 1 THEN c ELSE IF i = 0 THEN c \div 2 ELSE c % 2
      Earlier(c) == \E b \in 0..(c - 1) : alts[b + 1] = alts[c + 1]
      Read(v, i) == DecodeBit(RuleFor(spec, i), v)
      AsInt(n) == [type |-> "int", n |-> n]
      AsText(n) == [type |-> "str", digits |-> <<n \div 2, n % 2>>]
  IN  IF ~IsDecorated(spec)
      THEN \A v \in 0..3 : Read(AsInt(v), 0) = NoReading
      ELSE \A i \in 0..(Len(spec.names) - 1) :
             /\ \A c \in 0..(Len(alts) - 1) :
                  ~Earlier(c) => /\ Read(AsInt(alts[c + 1]), i) = Bits(c, i)
                                 /\ alts[c + 1] \in 0..3 =>
                                      Read(AsText(alts[c + 1]), i) = Bits(c, i)
             /\ \A v \in (0..6) \ ToSet(alts) : Read(AsInt(v), i) = NoReading
             /\ Read([type |-> "bool", n |-> alts[1]], i) = NoReading
             /\ Read([type |-> "str", digits |-> <<2>>], i) = NoReading
=============================================================================
