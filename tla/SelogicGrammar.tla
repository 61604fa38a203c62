--------------------------- MODULE SelogicGrammar ---------------------------
(***************************************************************************)
(* What selogic/parser.py is to do, stated over the spans of the tokens:   *)
(* which of them the grammar takes, and the value its precedences give     *)
(* them.  For TLC alone, the grammar being recursive.                      *)
(***************************************************************************)
EXTENDS Selogic

\* Spans[i, j]: the token kinds i..j make a chain of op's, a unary.
RECURSIVE IsChain(_, _, _, _), IsUnary(_, _, _)
Below(op) == IF op = "OR" THEN "AND" ELSE "unary"
IsSpan(t, i, j, level) ==
  IF level = "unary" THEN IsUnary(t, i, j) ELSE IsChain(t, i, j, level)
IsChain(t, i, j, op) ==
  \/ IsSpan(t, i, j, Below(op))
  \/ \E k \in (i + 1)..(j - 1) :
       t[k].kind = op /\ IsChain(t, i, k - 1, op) /\ IsSpan(t, k + 1, j, Below(op))
IsUnary(t, i, j) ==
  /\ i <= j
  /\ \/ i = j /\ t[i].kind \in {"IDENT", "NUM"}
     \/ t[i].kind = "NOT" /\ IsUnary(t, i + 1, j)
     \/ t[i].kind \in {"RTRIG", "FTRIG"} /\ j = i + 1 /\ t[j].kind = "IDENT"
     \/ t[i].kind = "(" /\ t[j].kind = ")" /\ IsChain(t, i + 1, j - 1, "OR")

\* The value of a span, split at an OR before an AND before anything else.
RECURSIVE SpanValue(_, _, _, _)
SplitAt(t, i, j, op) ==
  {k \in (i + 1)..(j - 1) :
     t[k].kind = op /\ IsChain(t, i, k - 1, op) /\ IsSpan(t, k + 1, j, Below(op))}
UnaryValue(t, i, j, env) ==
  CASE t[i].kind = "(" -> SpanValue(t, i + 1, j - 1, env)
    [] t[i].kind = "NOT" -> ~SpanValue(t, i + 1, j, env)
    [] t[i].kind \in {"RTRIG", "FTRIG"} -> Atom(t[j].text, t[i].kind) \in env
    [] t[i].kind = "NUM" -> t[i].text = "1"
    [] OTHER -> Atom(t[i].text, "level") \in env
SplitValue(t, i, j, env, or, and) ==
  CASE or /= {} ->
         \E k \in or : SpanValue(t, i, k - 1, env) \/ SpanValue(t, k + 1, j, env)
    [] or = {} /\ and /= {} ->
         \A k \in and : SpanValue(t, i, k - 1, env) /\ SpanValue(t, k + 1, j, env)
    [] OTHER -> UnaryValue(t, i, j, env)
SpanValue(t, i, j, env) ==
  SplitValue(t, i, j, env, SplitAt(t, i, j, "OR"), SplitAt(t, i, j, "AND"))

\* A text is a boolean expression exactly when its tokens are one of the
\* grammar (no other reading, nothing left over), and its tree and canonical
\* form have the value its precedences say, whatever the bits are.
ReadsTheGrammar(toks, tree, canonical) ==
  /\ tree /= NoTree <=> toks /= <<>> /\ IsChain(toks, 1, Len(toks), "OR")
  /\ tree /= NoTree =>
       /\ canonical.op \in {"AND", "OR"} =>
            \A c \in ChildrenOf(canonical) : c.op /= canonical.op
       /\ \A env \in SUBSET Atoms(tree) :
            LET value == SpanValue(toks, 1, Len(toks), env)
            IN  Evaluate(tree, env) = value /\ Evaluate(canonical, env) = value

\* Two texts are one function of the bits.
SameFunction(ta, tb, bits) ==
  LET IsLogic(t) == t /= <<>> /\ IsChain(t, 1, Len(t), "OR")
  IN  /\ IsLogic(ta) /\ IsLogic(tb)
      /\ \A env \in SUBSET bits :
           SpanValue(ta, 1, Len(ta), env) = SpanValue(tb, 1, Len(tb), env)
=============================================================================
