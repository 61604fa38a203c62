------------------------------- MODULE Naming -------------------------------
(* What the readers share: names that are told apart without case, and       *)
(* dictionaries as functions.                                                *)
EXTENDS Integers, Sequences, FiniteSets, SequencesExt

CONSTANT Upper         \* strip().upper(), a function on names
ASSUME NamingAssumption == \A n \in DOMAIN Upper : Upper[n] \in DOMAIN Upper => Upper[Upper[n]] = Upper[n]

Empty == [k \in {} |-> 0]
With(f, k, v) == [x \in (DOMAIN f) \cup {k} |-> IF x = k THEN v ELSE f[x]]
\* setdefault
Default(f, k, v) == IF k \in DOMAIN f THEN f ELSE With(f, k, v)
\* The members of a list that pass, in its order.
Those(seq, good) == FoldLeft(LAMBDA kept, x : IF x \in good THEN Append(kept, x) ELSE kept, <<>>, seq)
\* The first of the keys that is there.
FirstIn(keys, S) == SelectInSeq(keys, LAMBDA k : k \in S)
=============================================================================
