------------------------- MODULE RdbCacheRefinement -------------------------
(***************************************************************************)
(* RdbCache implements ExtractionStore.                                    *)
(***************************************************************************)
EXTENDS RdbCache

\* The thread past the check that decided to extract, if there is one.
Building(t, h) == sha[t] = h /\ pc[t] \in Rewriting
builderBar ==
  [h \in Sha |-> IF \E t \in Thread : Building(t, h)
                   THEN CHOOSE t \in Thread : Building(t, h) ELSE None]
wholeBar == {h \in Sha : Complete(h) /\ extracted[h] = Content[h]}
\* A thread on its way out of the with block without an exception.
answerBar ==
  [t \in Thread |-> IF pc[t] = "cleanup" /\ ok[t]
                     THEN <<sha[t], relays[t]>> ELSE None]
BarrenBar == {h \in Sha : Content[h] \cap Gle = {}}

Store == INSTANCE ExtractionStore WITH
           Upload <- Thread, RdbSha <- Sha, Barren <- BarrenBar, Nobody <- None,
           Listing <- [h \in Sha |-> ExpectedRelays(h)],
           builder <- builderBar, whole <- wholeBar, answer <- answerBar

\* Every behaviour of uploads, errors and kills is one of the abstract store:
\* whole extractions only, one builder per content, reuse, no half answer.
ImplementsStore == Store!StoreSpec
=============================================================================
