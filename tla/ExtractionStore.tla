-------------------------- MODULE ExtractionStore --------------------------
(***************************************************************************)
(* What the extraction cache promises its host, without threads' program   *)
(* counters, locks or files: an extraction is whole or not there, one      *)
(* upload at a time builds it, a whole one that lists relays is reused and *)
(* never rebuilt, and an upload is only answered from a whole one.         *)
(* RdbCache is shown to implement it.                                      *)
(***************************************************************************)
CONSTANTS Upload,   \* those who upload
          RdbSha,   \* contents
          Barren,   \* contents that list no relay: rebuilt on every upload
          Listing,  \* Listing[h]: the relays of the RDB whose content is h
          Nobody

VARIABLES builder,  \* who is building each content's extraction
          whole,    \* contents whose extraction is there
          answer    \* what each upload was answered: its content and relays

storeVars == <<builder, whole, answer>>

StoreInit ==
  /\ builder = [h \in RdbSha |-> Nobody]
  /\ whole = {}
  /\ answer = [u \in Upload |-> Nobody]

Begin(u, h) ==
  /\ builder[h] = Nobody
  /\ h \in whole => h \in Barren
  /\ builder' = [builder EXCEPT ![h] = u]
  /\ UNCHANGED <<whole, answer>>

Discard(u, h) ==
  /\ builder[h] = u /\ h \in Barren
  /\ whole' = whole \ {h}
  /\ UNCHANGED <<builder, answer>>

Commit(u, h) ==
  /\ builder[h] = u
  /\ whole' = whole \cup {h}
  /\ UNCHANGED <<builder, answer>>

Leave(u, h) ==
  /\ builder[h] = u
  /\ builder' = [builder EXCEPT ![h] = Nobody]
  /\ UNCHANGED <<whole, answer>>

Answer(u, h) ==
  /\ h \in whole /\ builder[h] = Nobody
  /\ answer' = [answer EXCEPT ![u] = <<h, Listing[h]>>]
  /\ UNCHANGED <<builder, whole>>

\* The answer is taken by its session.
Take(u) ==
  /\ answer' = [answer EXCEPT ![u] = Nobody]
  /\ UNCHANGED <<builder, whole>>

\* The process dies: what is whole stays whole.
Die ==
  /\ builder' = [h \in RdbSha |-> Nobody]
  /\ answer' = [u \in Upload |-> Nobody]
  /\ UNCHANGED whole

StoreNext ==
  \/ \E u \in Upload : Take(u) \/ \E h \in RdbSha :
       Begin(u, h) \/ Discard(u, h) \/ Commit(u, h) \/ Leave(u, h) \/ Answer(u, h)
  \/ Die

StoreSpec == StoreInit /\ [][StoreNext]_storeVars
=============================================================================
