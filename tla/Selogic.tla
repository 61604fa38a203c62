------------------------------ MODULE Selogic ------------------------------
(***************************************************************************)
(* selogic/parser.py: a SELOGIC equation read into a tree, the tree's      *)
(* canonical form and its value.  A source text is a sequence of lexemes:  *)
(* words, the characters that stand alone, and "#".  The 3xx write * + !   *)
(* / \ (symbolic), the others AND OR NOT R_TRIG F_TRIG (keyword).          *)
(***************************************************************************)
EXTENDS Naturals, Sequences, Bags, SequencesExt

CONSTANT Word          \* the lexemes that match [A-Za-z0-9_]+
ASSUME SelogicAssumption == Word \subseteq STRING

-----------------------------------------------------------------------------
(* Tokens *)

Symbol == ("*" :> "AND") @@ ("+" :> "OR") @@ ("!" :> "NOT")
          @@ ("/" :> "RTRIG") @@ ("\\" :> "FTRIG")
Keyword == ("AND" :> "AND") @@ ("and" :> "AND") @@ ("OR" :> "OR") @@ ("NOT" :> "NOT")
           @@ ("R_TRIG" :> "RTRIG") @@ ("F_TRIG" :> "FTRIG")
Digits == {"0", "1", "2", "12"}

KindOf(lexeme, dialect) ==
  CASE lexeme \in {"(", ")"} -> lexeme
    [] dialect = "symbolic" /\ lexeme \in DOMAIN Symbol -> Symbol[lexeme]
    [] dialect = "keyword" /\ lexeme \in DOMAIN Keyword -> Keyword[lexeme]
    [] lexeme \in {"0", "1"} -> "NUM"
    [] lexeme \in Word \ Digits -> "IDENT"
    [] OTHER -> "none"          \* a ParseError

UpToHash(src) ==
  LET h == {i \in DOMAIN src : src[i] = "#"}
  IN  IF h = {} THEN src ELSE SubSeq(src, 1, Min(h) - 1)

\* _tokenize: kind and text; a token of kind "none" ends no expression.
Tokens(src, dialect) ==
  [i \in DOMAIN UpToHash(src) |-> [kind |-> KindOf(src[i], dialect), text |-> src[i]]]

-----------------------------------------------------------------------------
(* The tree.  A node knows how deep it is: what walks a tree is a function *)
(* on its nodes.                                                           *)

Atom(name, edge) == [op |-> "atom", name |-> name, edge |-> edge, depth |-> 0]
Literal(value) == [op |-> "literal", value |-> value, depth |-> 0]
Not(child) == [op |-> "NOT", child |-> child, depth |-> child.depth + 1]
Deepest(nodes) == Max({n.depth : n \in nodes})
Nary(op, children) ==
  [op |-> op, children |-> children, depth |-> Deepest(ToSet(children)) + 1]
NoTree == [op |-> "none"]

\* What is read at a place: a node, and the place after it; of a chain, its
\* items too.
Failed == [ok |-> FALSE]
Parsed(node, next) == [ok |-> TRUE, node |-> node, next |-> next]
Chain(op, items, next) ==
  [ok |-> TRUE, items |-> items, next |-> next,
   node |-> IF Len(items) = 1 THEN Head(items) ELSE Nary(op, items)]
KindAt(toks, i) == IF i \in DOMAIN toks THEN toks[i].kind ELSE "EOF"

\* The loops of _parse_or and _parse_and: an item, and after an op the rest.
ReadChain(toks, op, item, rest) ==
  CASE ~item.ok -> Failed
    [] item.ok /\ KindAt(toks, item.next) /= op -> Chain(op, <<item.node>>, item.next)
    [] OTHER -> IF rest.ok THEN Chain(op, <<item.node>> \o rest.items, rest.next) ELSE Failed

\* _parse_unary and _parse_primary, from what is read at the next place.  An
\* edge takes one identifier.
ReadUnary(toks, i, below, inner) ==
  LET kind == KindAt(toks, i)
  IN  CASE kind = "NOT" ->
             IF below.ok THEN Parsed(Not(below.node), below.next) ELSE Failed
        [] kind \in {"RTRIG", "FTRIG"} ->
             IF KindAt(toks, i + 1) = "IDENT"
             THEN Parsed(Atom(toks[i + 1].text, kind), i + 2) ELSE Failed
        [] kind = "(" ->
             IF ~inner.ok THEN Failed
             ELSE IF KindAt(toks, inner.next) = ")"
             THEN Parsed(inner.node, inner.next + 1) ELSE Failed
        [] kind = "IDENT" -> Parsed(Atom(toks[i].text, "level"), i + 1)
        [] kind = "NUM" -> Parsed(Literal(toks[i].text = "1"), i + 1)
        [] OTHER -> Failed

\* Mutant: AND binds no tighter than OR.
ItemFlat(op) == "unary"

\* OR is a chain of ANDs, AND a chain of unaries.
Item(op) == IF op = "OR" THEN "AND" ELSE "unary"

\* _Parser: what each of its methods reads at each place.
ReadAt(toks, level, i, at) ==
  IF level = "unary" THEN ReadUnary(toks, i, at["unary", i + 1], at["OR", i + 1])
  ELSE LET item == at[Item(level), i]
       IN  ReadChain(toks, level, item, at[level, item.next + 1])
ReadAll(toks) ==
  LET At[level \in {"OR", "AND", "unary"}, i \in 1..(Len(toks) + 1)] ==
        ReadAt(toks, level, i, At)
  IN  At["OR", 1]

\* parse, NoTree for a ParseError.
ParseTokens(toks) ==
  IF \E i \in DOMAIN toks : toks[i].kind = "none" THEN NoTree
  ELSE LET expr == ReadAll(toks)
       IN  IF expr.ok /\ expr.next = Len(toks) + 1 THEN expr.node ELSE NoTree
Parse(src, dialect) == ParseTokens(Tokens(src, dialect))
IsBooleanExpression(src, dialect) == Parse(src, dialect) /= NoTree

-----------------------------------------------------------------------------
(* atoms, evaluate, canonicalize *)

\* The children of a node: of a canonical one they are a bag, which two
\* nodes share when the sorted texts of their children are the same.
ChildrenOf(node) ==
  CASE node.op = "NOT" -> {node.child}
    [] "bag" \in DOMAIN node -> BagToSet(node.bag)
    [] "children" \in DOMAIN node -> ToSet(node.children)
    [] OTHER -> {}
Nodes(node) ==
  LET Down[k \in 0..node.depth] ==
        IF k = 0 THEN {node} ELSE UNION {ChildrenOf(n) : n \in Down[k - 1]}
  IN  UNION {Down[k] : k \in 0..node.depth}

Atoms(node) == {n \in Nodes(node) : n.op = "atom"}

\* env is the set of the atoms that are true, value that of the nodes below.
ValueOf(n, env, value) ==
  \/ n.op = "atom" /\ n \in env
  \/ n.op = "literal" /\ n.value
  \/ n.op = "NOT" /\ ~value[n.child]
  \/ n.op = "AND" /\ \A c \in ChildrenOf(n) : value[c]
  \/ n.op = "OR" /\ \E c \in ChildrenOf(n) : value[c]
Evaluate(node, env) ==
  LET Value[n \in Nodes(node)] == ValueOf(n, env, Value) IN Value[node]

\* Mutant: any chain is flattened into the one around it.
FlatAny(op, canonical) ==
  IF "bag" \in DOMAIN canonical THEN canonical.bag ELSE SetToBag({canonical})

\* What a child adds to a chain: its own children if it is one of the same.
Flat(op, canonical) ==
  IF canonical.op = op THEN canonical.bag ELSE SetToBag({canonical})
Joined(op, bag) ==
  CASE bag = EmptyBag -> Literal(op = "AND")
    [] BagCardinality(bag) = 1 -> CHOOSE c \in BagToSet(bag) : TRUE
    [] OTHER -> [op |-> op, bag |-> bag, depth |-> Deepest(BagToSet(bag)) + 1]
CanonicalOf(n, canonical) ==
  CASE n.op \in {"atom", "literal"} -> n
    [] n.op = "NOT" ->
         LET inner == canonical[n.child]
         IN  IF inner.op = "NOT" THEN inner.child ELSE Not(inner)
    [] OTHER ->
         LET parts == [i \in DOMAIN n.children |-> Flat(n.op, canonical[n.children[i]])]
         IN  Joined(n.op, FoldSeq(LAMBDA part, acc : part (+) acc, EmptyBag, parts))
Canonicalize(node) ==
  LET Canonical[n \in Nodes(node)] == CanonicalOf(n, Canonical) IN Canonical[node]
=============================================================================
