--------------------------- MODULE SelogicCompare ---------------------------
(***************************************************************************)
(* selogic/compare.py: the verdict on two values of a setting, and on the  *)
(* values many relays have for it.  A value carries what its kind is       *)
(* compared by: text (lexemes, with the layout of its blanks) for logic,   *)
(* num (what float makes of it, in units of 1e-6) for a number, set for a  *)
(* list.                                                                   *)
(***************************************************************************)
EXTENDS Selogic, Integers, FiniteSets

CONSTANTS
  MaxTruthAtoms,       \* _MAX_TRUTH_ATOMS
  AbsTol, RelScale     \* abs_tol, and 1 / rel_tol
ASSUME CompareAssumption == /\ MaxTruthAtoms \in Nat
                            /\ AbsTol \in Nat /\ RelScale \in Nat \ {0}

Severity == [EQUAL |-> 0, EQUAL_LOGIC_DIFF_COMMENT |-> 1, EQUIVALENT |-> 2, DIFFERENT |-> 3]
Result(verdict, note) == [verdict |-> verdict, note |-> note]

-----------------------------------------------------------------------------
(* Logic *)

Body(value) == UpToHash(value.text)
Comment(value) == SubSeq(value.text, Len(Body(value)) + 2, Len(value.text))
\* The blanks between two lexemes are part of the text; around one they go.
Normal(value) == IF Len(Body(value)) <= 1 THEN <<Body(value)>> ELSE <<Body(value), value.layout>>

SameTable(a, b, union) ==
  \A env \in SUBSET union : Evaluate(a, env) = Evaluate(b, env)

CompareCanonical(ca, cb, union) ==
  CASE ca = cb -> Result("EQUIVALENT", "")
    [] ca /= cb /\ Cardinality(union) > MaxTruthAtoms -> Result("DIFFERENT", "not verified")
    [] OTHER -> Result(IF SameTable(ca, cb, union) THEN "EQUIVALENT" ELSE "DIFFERENT", "")
CompareTrees(a, b, ta, tb) ==
  IF ta = NoTree \/ tb = NoTree
  THEN IF Normal(a) = Normal(b) THEN Result("EQUIVALENT", "text")
       ELSE Result("DIFFERENT", "not boolean")
  ELSE CompareCanonical(Canonicalize(ta), Canonicalize(tb),
                        Atoms(Canonicalize(ta)) \cup Atoms(Canonicalize(tb)))
\* _compare_logic.  Its branch for equal texts is never reached from below.
CompareBodies(a, b, dialect) ==
  CompareTrees(a, b, Parse(Body(a), dialect), Parse(Body(b), dialect))

CompareLogic(a, b, dialect) ==
  IF Normal(a) = Normal(b)
  THEN Result(IF Comment(a) = Comment(b) THEN "EQUAL" ELSE "EQUAL_LOGIC_DIFF_COMMENT", "")
  ELSE CompareBodies(a, b, dialect)

-----------------------------------------------------------------------------
(* Numbers, sets, everything else *)

Abs(x) == IF x < 0 THEN -x ELSE x
Larger(x, y) == IF x > y THEN x ELSE y
\* diff <= max(abs_tol, rel_tol * max(|a|, |b|)), for an infinity too.
Within(x, y) ==
  CASE "nan" \in {x.class, y.class} -> FALSE
    [] "nan" \notin {x.class, y.class} /\ "inf" \in {x.class, y.class} -> x /= y
    [] OTHER -> RelScale * Abs(x.num - y.num)
                  <= Larger(RelScale * AbsTol, Larger(Abs(x.num), Abs(y.num)))

CompareNumber(a, b) ==
  CASE a.text = b.text -> Result("EQUAL", "")
    [] a.text /= b.text /\ "text" \in {a.class, b.class} -> Result("DIFFERENT", "")
    [] OTHER -> IF Within([class |-> a.class, num |-> a.num], [class |-> b.class, num |-> b.num])
                THEN Result("EQUIVALENT", "numeric") ELSE Result("DIFFERENT", "")

CompareText(a, b) == Result(IF a.text = b.text THEN "EQUAL" ELSE "DIFFERENT", "")

CompareSetList(a, b) ==
  IF a.text = b.text THEN Result("EQUAL", "")
  ELSE IF ToSet(a.text) = ToSet(b.text) THEN Result("EQUIVALENT", "order")
  ELSE Result("DIFFERENT", "sets")

Compare(a, b, kind, dialect) ==
  CASE kind = "logic" -> CompareLogic(a, b, dialect)
    [] kind = "number" -> CompareNumber(a, b)
    [] kind = "set_list" -> CompareSetList(a, b)
    [] kind \in {"enum", "string"} -> CompareText(a, b)

-----------------------------------------------------------------------------
(* compare_n: every value against the first *)

\* Mutant: a verdict as bad as the worst takes its place, note or no note.
WorseLast(worst, r) ==
  IF Severity[r.verdict] >= Severity[worst.verdict] THEN r ELSE worst

Worse(worst, r) ==
  CASE Severity[r.verdict] > Severity[worst.verdict] -> r
    [] r.verdict = worst.verdict /\ worst.note = "" -> r
    [] OTHER -> worst
CompareN(values, kind, dialect) ==
  IF Len(values) < 2 THEN Result("EQUAL", "")
  ELSE FoldLeft(LAMBDA worst, v : Worse(worst, Compare(Head(values), v, kind, dialect)),
                Result("EQUAL", ""), Tail(values))

-----------------------------------------------------------------------------
(* Properties *)

\* The bits a truth table of two equations is made over.
BitsOf(tree) == IF tree = NoTree THEN {} ELSE Atoms(Canonicalize(tree))
TableBits(a, b, dialect) == BitsOf(Parse(Body(a), dialect)) \cup BitsOf(Parse(Body(b), dialect))

\* What two equations are called is what they do: equivalent or better only
\* if they are the same text or the same function of the bits (as the grammar
\* reads them), and always so while the truth table is within its limit; the
\* answer does not depend on which comes first.
VerdictIsTheFunction(a, b, bits, sameFunction, verdict, otherWay) ==
  LET same == Severity[verdict] < 3
  IN  /\ same => Normal(a) = Normal(b) \/ sameFunction
      /\ sameFunction /\ Cardinality(bits) <= MaxTruthAtoms => same
      /\ verdict = otherWay

\* "The worst verdict cannot hide in a pair the pivot did not touch", and the
\* note is one of a pair with that verdict, the first that has one.  Untrue of
\* numbers, whose tolerance does not add up, and of equations with more bits
\* between them than the truth table takes: what the pivot is found equivalent
\* to may then be different from one another.
PivotSeesWorst(values, kind, dialect, answer) ==
  LET Pair(i, j) == Compare(values[i], values[j], kind, dialect)
      shown == {j \in 2..Len(values) :
                  Pair(1, j).verdict = answer.verdict /\ Pair(1, j).note /= ""}
      Judged(p) ==
        /\ kind /= "number"
        /\ kind = "logic" =>
             ~(Cardinality(TableBits(values[p[1]], values[p[2]], dialect)) > MaxTruthAtoms)
  IN  /\ answer.note = (IF shown = {} THEN "" ELSE Pair(1, Min(shown)).note)
      /\ IF Len(values) < 2 THEN answer.verdict = "EQUAL"
         ELSE \E j \in 2..Len(values) : Pair(1, j).verdict = answer.verdict
      /\ \A p \in (DOMAIN values) \X (DOMAIN values) :
           Judged(p) => Severity[Pair(p[1], p[2]).verdict] <= Severity[answer.verdict]
=============================================================================
