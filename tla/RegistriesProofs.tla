-------------------------- MODULE RegistriesProofs --------------------------
(***************************************************************************)
(* Proofs about Registries: the in-place table of scl.mms_tables is right  *)
(* for any number of threads, files and imports.                           *)
(***************************************************************************)
EXTENDS Registries, NumberLemmas, SequenceTheorems

\* What FirstOf chooses exists.
LEMMA FirstOfIsFirst ==
  ASSUME NEW S \in SUBSET File, S /= {}
  PROVE  FirstOf(S) \in S /\ \A g \in S : Rank[FirstOf(S)] <= Rank[g]
  <1>1. {Rank[g] : g \in S} \in SUBSET Nat /\ {Rank[g] : g \in S} /= {}
    BY FileAssumption
  <1>2. PICK r \in {Rank[g] : g \in S} : \A q \in {Rank[g] : g \in S} : r <= q
    BY <1>1, SmallestExists
  <1>3. PICK f \in S : Rank[f] = r
    OBVIOUS
  <1>4. \A g \in S : Rank[f] <= Rank[g]
    BY <1>2, <1>3
  <1> QED
    BY <1>4 DEF FirstOf

\* Merging a file defines its keys, and changes no key that was defined.
LEMMA MergeIsSetdefault ==
  ASSUME NEW table \in [Key -> File \cup {None}], NEW f \in File, NEW k \in Key
  PROVE  /\ Merge(table, f) \in [Key -> File \cup {None}]
         /\ table[k] /= None => Merge(table, f)[k] = table[k]
         /\ table[k] = None =>
              Merge(table, f)[k] = IF k \in KeysOf[f] THEN f ELSE None
  BY DEF Merge

\* The newest of some groups is one of them.
LEMMA NewestIsOne ==
  ASSUME NEW S \in SUBSET Key, S /= {}
  PROVE  Newest(S) \in S
  <1>1. {Age[k] : k \in S} \in SUBSET Nat /\ {Age[k] : k \in S} /= {}
    BY FileAssumption
  <1>2. PICK r \in {Age[k] : k \in S} : \A q \in {Age[k] : k \in S} : r <= q
    BY <1>1, SmallestExists
  <1>3. PICK k \in S : Age[k] = r
    OBVIOUS
  <1>4. \A j \in S : Age[k] <= Age[j]
    BY <1>2, <1>3
  <1> QED
    BY <1>4 DEF Newest

-----------------------------------------------------------------------------
(* Types *)

\* Each thread has its place, and what is imported is on the disk.
WroteInv ==
  /\ imported \subseteq disk
  /\ \A t \in Thread : pc[t] \in {"invalidate", "clear"} => wrote[t] \in disk
\* A thread that has a part's groups in hand, of which there is one at least:
\* the table's own dict, or one that an invalidate() let go of.
Asking == {"groups", "newest", "max"}
AskingInv ==
  /\ kind /= "mms_map" => \A t \in Thread : pc[t] \notin Asking
  /\ kind /= "relay_models" => \A t \in Thread : pc[t] \notin {"mark", "clear"}
  /\ \A t \in live : pc[t] \in Asking /\ GroupsOf(index) /= {}
  /\ \A t \in Thread : pc[t] \in Asking =>
       query[t] /= <<>> /\ (t \notin live => GroupsOf(held[t]) /= {})
TypeInv == RegTypeOK /\ WroteInv /\ AskingInv

LEMMA InitTypeInv == Init => TypeInv
  <1> SUFFICES ASSUME Init PROVE TypeInv
    OBVIOUS
  <1> USE FileAssumption DEF Init
  <1>1. NoTable \in [Key -> File \cup {None}] /\ <<>> \in Seq(Key)
    BY DEF NoTable
  <1>2. /\ query \in [Thread -> Seq(Key)] /\ asked \in [Thread -> Seq(Key)]
        /\ index \in [Key -> File \cup {None}]
        /\ mine \in [Thread -> [Key -> File \cup {None}]]
        /\ held \in [Thread -> [Key -> File \cup {None}]]
    BY <1>1
  <1>3. calls \in 0..MaxCalls
    OBVIOUS
  <1>4. WroteInv /\ AskingInv
    BY DEF WroteInv, AskingInv, Asking
  <1> QED
    BY <1>2, <1>3, <1>4 DEF TypeInv, RegTypeOK

\* Filling a table takes no group away.
LEMMA MergeGrows ==
  ASSUME NEW table \in [Key -> File \cup {None}], NEW f \in File
  PROVE  GroupsOf(table) \subseteq GroupsOf(Merge(table, f))
  BY MergeIsSetdefault, FileAssumption DEF GroupsOf

LEMMA NextAskingInv == TypeInv /\ [Next]_vars => AskingInv'
  <1> SUFFICES ASSUME TypeInv, [Next]_vars PROVE AskingInv'
    OBVIOUS
  <1> USE DEF Goto, registry, callers, history, groups
  <1>0. /\ AskingInv /\ live \in SUBSET Thread
        /\ query \in [Thread -> Seq(Key)] /\ \E P : pc \in [Thread -> P]
        /\ index \in [Key -> File \cup {None}]
        /\ held \in [Thread -> [Key -> File \cup {None}]]
    BY DEF TypeInv, RegTypeOK
  \* A step of one thread that has no groups in hand, before or after.
  <1>1. ASSUME NEW t \in Thread, kind' = kind, live' = live, held' = held,
               pc[t] \notin Asking, pc'[t] \notin Asking,
               pc'[t] \in {"mark", "clear"} => kind = "relay_models",
               \A u \in Thread \ {t} : pc'[u] = pc[u] /\ query'[u] = query[u],
               index' = index \/ live = {} \/ GroupsOf(index) \subseteq GroupsOf(index')
        PROVE  AskingInv'
    <2>1. live /= {} /\ GroupsOf(index) /= {} => GroupsOf(index') /= {}
      BY <1>1
    <2> QED
      BY <1>0, <1>1, <2>1 DEF AskingInv
  \* A thread lets go of its groups.
  <1>2. ASSUME NEW t \in Thread, UNCHANGED <<kind, index>>, LetGo(t), pc'[t] \in {"read", "raised"},
               \A u \in Thread \ {t} : pc'[u] = pc[u] /\ query'[u] = query[u]
        PROVE  AskingInv'
    BY <1>0, <1>2 DEF AskingInv, LetGo, Asking, GroupsOf
  \* It goes on with them.
  <1>3. ASSUME NEW t \in Thread, UNCHANGED <<kind, index, live, held, query>>,
               pc[t] \in Asking, pc'[t] \in Asking, \A u \in Thread \ {t} : pc'[u] = pc[u]
        PROVE  AskingInv'
    BY <1>0, <1>3 DEF AskingInv, Asking, GroupsOf
  <1>4. ASSUME NEW t \in Thread, NEW q \in Queries, Lookup(t, q) PROVE AskingInv'
    BY <1>0, <1>1, <1>4 DEF Lookup, Asking
  <1>5. ASSUME NEW t \in Thread, NEW f \in File \ Packaged, Import(t, f) PROVE AskingInv'
    BY <1>0, <1>1, <1>5 DEF Import, Asking
  <1>6. ASSUME NEW t \in Thread, Loaded(t) \/ BeginLoad(t) \/ LoadRaises(t) PROVE AskingInv'
    BY <1>0, <1>1, <1>6 DEF Loaded, BeginLoad, LoadRaises, Asking
  <1>7. ASSUME NEW t \in Thread, ReadFile(t) PROVE AskingInv'
    <2>1. FirstOf(toRead[t]) \in File
      BY <1>7, FirstOfIsFirst DEF ReadFile, TypeInv, RegTypeOK
    <2>2. index' = index \/ GroupsOf(index) \subseteq GroupsOf(index')
      BY <1>0, <1>7, <2>1, MergeGrows DEF ReadFile
    <2> QED
      BY <1>0, <1>1, <1>7, <2>2 DEF ReadFile, Asking
  <1>8. ASSUME NEW t \in Thread, Publish(t) PROVE AskingInv'
    <2>1. live /= {} => index' = index
      BY <1>0, <1>8 DEF Publish, AskingInv
    <2> QED
      BY <1>0, <1>1, <1>8, <2>1 DEF Publish, Asking
  <1>9. ASSUME NEW t \in Thread, PublishIndex(t) \/ Unmark(t) \/ Clear(t) PROVE AskingInv'
    <2>1. kind = "relay_models" /\ live = {}
      BY <1>0, <1>9 DEF PublishIndex, Unmark, Clear, AskingInv
    <2> QED
      BY <1>0, <1>1, <1>9, <2>1 DEF PublishIndex, Unmark, Clear, Asking
  <1>10. ASSUME NEW t \in Thread, Mark(t) \/ Read(t) \/ ReadRaises(t) \/ Answer(t) \/ Return(t)
         PROVE AskingInv'
    BY <1>0, <1>1, <1>10 DEF Mark, Read, ReadRaises, Answer, Return, Asking
  <1>11. ASSUME NEW t \in Thread, GetGroups(t) PROVE AskingInv'
    <2>1. CASE index = NoTable
      <3>1. pc' = pc /\ live' = live
        BY <1>11, <2>1 DEF GetGroups
      <3> QED
        BY <1>0, <1>1, <1>11, <3>1 DEF GetGroups, Asking
    <2>2. CASE index /= NoTable
      <3>1. GroupsOf(index) /= {}
        BY <1>0, <2>2 DEF GroupsOf, NoTable
      <3>2. /\ live' = live \cup {t} /\ pc' = [pc EXCEPT ![t] = "groups"]
            /\ UNCHANGED <<kind, query, held, index>>
            /\ query[t] /= <<>> /\ kind = "mms_map"
        BY <1>11, <2>2 DEF GetGroups
      <3> QED
        BY <1>0, <3>1, <3>2 DEF AskingInv, Asking, GroupsOf
    <2> QED
      BY <2>1, <2>2
  <1>12. ASSUME NEW t \in Thread, AskedGroup(t) PROVE AskingInv'
    <2>1. CASE Held(t)[Head(query[t])] /= None
      <3>1. Give(t, Held(t)[Head(query[t])]) /\ UNCHANGED <<kind, index>>
        BY <1>12, <2>1 DEF AskedGroup
      <3> QED
        BY <1>0, <1>2, <3>1 DEF Give
    <2>2. CASE Held(t)[Head(query[t])] = None
      <3>1. pc[t] = "groups" /\ pc' = [pc EXCEPT ![t] = "newest"]
            /\ UNCHANGED <<kind, index, live, held, query>>
        BY <1>12, <2>2 DEF AskedGroup
      <3> QED
        BY <1>0, <1>3, <3>1 DEF Asking
    <2> QED
      BY <2>1, <2>2
  <1>13. ASSUME NEW t \in Thread, NewestBegins(t) PROVE AskingInv'
    BY <1>0, <1>3, <1>13 DEF NewestBegins, Asking
  <1>14. ASSUME NEW t \in Thread, NewestEnds(t) \/ NewestRaises(t) PROVE AskingInv'
    BY <1>0, <1>2, <1>14 DEF NewestEnds, NewestRaises, Give
  <1>15. ASSUME NEW t \in Thread, Invalidate(t) PROVE AskingInv'
    <2>1. /\ live' = {} /\ held' = [u \in Thread |-> Held(u)] /\ pc[t] = "invalidate"
          /\ pc' = [pc EXCEPT ![t] = "idle"] /\ UNCHANGED <<kind, query>>
      BY <1>15 DEF Invalidate, LetGoOfAll
    <2>2. \A u \in Thread : pc[u] \in Asking => GroupsOf(Held(u)) /= {}
      BY <1>0 DEF AskingInv, Held
    <2> QED
      BY <1>0, <2>1, <2>2 DEF AskingInv, Asking, GroupsOf
  <1>16. ASSUME UNCHANGED vars PROVE AskingInv'
    BY <1>0, <1>16 DEF vars, AskingInv, GroupsOf
  <1> QED
    BY <1>4, <1>5, <1>6, <1>7, <1>8, <1>9, <1>10, <1>11, <1>12, <1>13, <1>14, <1>15,
       <1>16 DEF Next, Step

LEMMA NextTypeInv == TypeInv /\ [Next]_vars => TypeInv'
  <1> SUFFICES ASSUME TypeInv, [Next]_vars PROVE TypeInv'
    OBVIOUS
  <1> SUFFICES RegTypeOK' /\ WroteInv'
    BY NextAskingInv DEF TypeInv
  <1>0. AskingInv
    BY DEF TypeInv
  <1> USE FileAssumption
      DEF TypeInv, RegTypeOK, WroteInv, Goto, registry, callers, history, groups
  <1>1. ASSUME NEW t \in Thread, NEW q \in Queries, Lookup(t, q) PROVE RegTypeOK' /\ WroteInv'
    BY <1>1 DEF Lookup
  <1>2. ASSUME NEW t \in Thread, NEW f \in File \ Packaged, Import(t, f)
        PROVE  RegTypeOK' /\ WroteInv'
    BY <1>2 DEF Import
  <1>3. ASSUME NEW t \in Thread, Loaded(t) PROVE RegTypeOK' /\ WroteInv'
    BY <1>3 DEF Loaded
  <1>4. ASSUME NEW t \in Thread, BeginLoad(t) PROVE RegTypeOK' /\ WroteInv'
    BY <1>4 DEF BeginLoad
  <1>5. ASSUME NEW t \in Thread, ReadFile(t) PROVE RegTypeOK' /\ WroteInv'
    <2> DEFINE f == FirstOf(toRead[t])
    <2>1. f \in File
      BY <1>5, FirstOfIsFirst DEF ReadFile
    <2>2. /\ Merge(index, f) \in [Key -> File \cup {None}]
          /\ Merge(mine[t], f) \in [Key -> File \cup {None}]
      BY <2>1 DEF Merge
    <2>3. /\ index' \in [Key -> File \cup {None}]
          /\ mine' \in [Thread -> [Key -> File \cup {None}]]
      <3>1. CASE kind = "mms_map"
        <4>1. index' = Merge(index, f) /\ mine' = mine
          BY <1>5, <3>1 DEF ReadFile
        <4> QED
          BY <2>2, <4>1
      <3>2. CASE kind /= "mms_map"
        <4>1. mine' = [mine EXCEPT ![t] = Merge(mine[t], f)] /\ index' = index
          BY <1>5, <3>2 DEF ReadFile
        <4> QED
          BY <2>2, <4>1
      <3> QED
        BY <3>1, <3>2
    <2>4. toRead' \in [Thread -> SUBSET File]
      BY <1>5 DEF ReadFile
    <2> QED
      BY <1>5, <2>3, <2>4 DEF ReadFile
  <1>6. ASSUME NEW t \in Thread, LoadRaises(t) PROVE RegTypeOK' /\ WroteInv'
    BY <1>6 DEF LoadRaises, NoTable
  <1>7. ASSUME NEW t \in Thread, Publish(t) PROVE RegTypeOK' /\ WroteInv'
    BY <1>7 DEF Publish, MarkNow, NoTable
  <1>8. ASSUME NEW t \in Thread, PublishIndex(t) PROVE RegTypeOK' /\ WroteInv'
    BY <1>8 DEF PublishIndex, NoTable
  <1>9. ASSUME NEW t \in Thread, Mark(t) PROVE RegTypeOK' /\ WroteInv'
    BY <1>9 DEF Mark, MarkNow
  <1>10. ASSUME NEW t \in Thread, Read(t) PROVE RegTypeOK' /\ WroteInv'
    <2>1. Head(query[t]) \in Key /\ Tail(query[t]) \in Seq(Key)
      BY <1>10 DEF Read
    <2> QED
      BY <1>10, <2>1 DEF Read
  <1>11. ASSUME NEW t \in Thread, ReadRaises(t) PROVE RegTypeOK' /\ WroteInv'
    BY <1>11 DEF ReadRaises
  <1>12. ASSUME NEW t \in Thread, GetGroups(t) PROVE RegTypeOK' /\ WroteInv'
    <2>1. UNCHANGED <<kind, disk, registry, held, begun, mine, toRead, result, wrote, calls,
                      history>>
      BY <1>12 DEF GetGroups
    <2>2. \/ pc' = pc /\ live' = live /\ query' = [query EXCEPT ![t] = <<>>]
          \/ pc' = [pc EXCEPT ![t] = "groups"] /\ live' = live \cup {t} /\ query' = query
      BY <1>12 DEF GetGroups
    <2>3. CASE pc' = pc /\ live' = live /\ query' = [query EXCEPT ![t] = <<>>]
      <3>1. <<>> \in Seq(Key)
        OBVIOUS
      <3> QED
        BY <2>1, <2>3, <3>1
    <2>4. CASE pc' = [pc EXCEPT ![t] = "groups"] /\ live' = live \cup {t} /\ query' = query
      BY <2>1, <2>4
    <2> QED
      BY <2>2, <2>3, <2>4
  <1>19. ASSUME NEW t \in Thread PROVE Held(t) \in [Key -> File \cup {None}]
    BY DEF Held
  <1>20. ASSUME NEW t \in Thread, NEW f \in File \cup {None}, Give(t, f),
                pc[t] \in Asking,
                UNCHANGED <<kind, disk, registry, mine, toRead, wrote, calls, history>>
         PROVE  RegTypeOK' /\ WroteInv'
    BY <1>20 DEF Give, LetGo, NoTable
  <1>21. ASSUME NEW t \in Thread, AskedGroup(t) PROVE RegTypeOK' /\ WroteInv'
    <2>1. Head(query[t]) \in Key
      BY <1>0, <1>21 DEF AskedGroup, AskingInv, Asking
    <2>2. Held(t)[Head(query[t])] \in File \cup {None}
      BY <1>19, <2>1
    <2>3. CASE Held(t)[Head(query[t])] /= None
      <3>1. /\ Give(t, Held(t)[Head(query[t])]) /\ pc[t] \in Asking
            /\ UNCHANGED <<kind, disk, registry, mine, toRead, wrote, calls, history>>
        BY <1>21, <2>3 DEF AskedGroup, Asking
      <3> QED
        BY <1>20, <2>2, <3>1
    <2>4. CASE Held(t)[Head(query[t])] = None
      <3>1. /\ pc' = [pc EXCEPT ![t] = "newest"] /\ UNCHANGED <<query, result, groups>>
            /\ UNCHANGED <<kind, disk, registry, mine, toRead, wrote, calls, history>>
        BY <1>21, <2>4 DEF AskedGroup
      <3> QED
        BY <3>1
    <2> QED
      BY <2>3, <2>4
  <1>22. ASSUME NEW t \in Thread, NewestBegins(t) PROVE RegTypeOK' /\ WroteInv'
    BY <1>22 DEF NewestBegins, GroupsOf
  <1>23. ASSUME NEW t \in Thread, NewestEnds(t) PROVE RegTypeOK' /\ WroteInv'
    <2>1. begun[t] = GroupsOf(Held(t)) /\ pc[t] \in Asking
      BY <1>23 DEF NewestEnds, Asking
    <2>2. begun[t] \in SUBSET Key
      BY <2>1 DEF GroupsOf
    <2>3. begun[t] /= {}
      BY <1>0, <2>1 DEF AskingInv, Held
    <2>4. Newest(begun[t]) \in Key
      BY <2>2, <2>3, NewestIsOne
    <2>5. Held(t)[Newest(begun[t])] \in File \cup {None}
      BY <1>19, <2>4
    <2> QED
      BY <1>20, <1>23, <2>1, <2>5 DEF NewestEnds
  <1>24. ASSUME NEW t \in Thread, NewestRaises(t) PROVE RegTypeOK' /\ WroteInv'
    BY <1>24 DEF NewestRaises, LetGo, NoTable
  <1>13. ASSUME NEW t \in Thread, Answer(t) PROVE RegTypeOK' /\ WroteInv'
    BY <1>13 DEF Answer
  <1>14. ASSUME NEW t \in Thread, Return(t) PROVE RegTypeOK' /\ WroteInv'
    BY <1>14 DEF Return
  <1>15. ASSUME NEW t \in Thread, Invalidate(t) PROVE RegTypeOK' /\ WroteInv'
    BY <1>15, <1>19 DEF Invalidate, LetGoOfAll, NoTable
  <1>16. ASSUME NEW t \in Thread, Unmark(t) PROVE RegTypeOK' /\ WroteInv'
    BY <1>16 DEF Unmark
  <1>17. ASSUME NEW t \in Thread, Clear(t) PROVE RegTypeOK' /\ WroteInv'
    BY <1>17 DEF Clear, NoTable
  <1>18. ASSUME UNCHANGED vars PROVE RegTypeOK' /\ WroteInv'
    BY <1>18 DEF vars
  <1> QED
    BY <1>1, <1>2, <1>3, <1>4, <1>5, <1>6, <1>7, <1>8, <1>9, <1>10, <1>11,
       <1>12, <1>13, <1>14, <1>15, <1>16, <1>17, <1>18, <1>21, <1>22, <1>23, <1>24
    DEF Next, Step

\* The variables of the model keep their types; every import is of a file that
\* is on the disk.
THEOREM RegistriesTyped == Spec => []RegTypeOK
  <1>1. TypeInv => RegTypeOK
    BY DEF TypeInv
  <1> QED
    BY <1>1, InitTypeInv, NextTypeInv, PTL DEF Spec

-----------------------------------------------------------------------------
(* The table of mms_tables *)

\* Only the thread that holds the lock is inside the load.
LockInv == \A t \in Thread : pc[t] = "reading" => lock = t
\* Whatever the table has goes before every imported file it stands in for:
\* true of a table half filled, and of what a failed load leaves in it.
BestOf(table, S) ==
  \A k \in Key : table[k] /= None =>
    /\ k \in KeysOf[table[k]]
    /\ \A g \in S : k \in KeysOf[g] => Rank[table[k]] <= Rank[g]
Best == BestOf(index, imported)
\* The table has every key of g.
Has(g) == \A k \in KeysOf[g] : index[k] /= None
\* A load has read, or is still to read, each imported file.
LoadInv ==
  \A t \in Thread : pc[t] = "reading" => \A g \in imported : g \in toRead[t] \/ Has(g)
MarkedInv == marked => \A g \in imported : Has(g)
\* relay_models alone assigns its globals one at a time.
PlaceInv == \A t \in Thread : pc[t] \notin {"mark", "clear"}
TableInv == LockInv /\ Best /\ LoadInv /\ MarkedInv /\ PlaceInv
MmsInv == TypeInv /\ (kind = "mms_map" => TableInv)

LEMMA InitMmsInv == Init => MmsInv
  <1> SUFFICES ASSUME Init PROVE MmsInv
    OBVIOUS
  <1>1. TypeInv
    BY InitTypeInv
  <1>2. TableInv
    BY DEF Init, NoTable, TableInv, LockInv, Best, BestOf, LoadInv, MarkedInv, PlaceInv
  <1> QED
    BY <1>1, <1>2 DEF MmsInv

\* Each file read goes into the table where nothing precedes it.
LEMMA ReadFileTableInv ==
  ASSUME TypeInv, kind = "mms_map", TableInv, NEW t \in Thread, ReadFile(t)
  PROVE  TableInv'
  <1>0. PICK f : f = FirstOf(toRead[t])
    OBVIOUS
  <1>1. /\ f \in toRead[t] /\ f \in File
        /\ \A g \in toRead[t] : Rank[f] <= Rank[g]
    BY <1>0, FirstOfIsFirst DEF ReadFile, TypeInv, RegTypeOK
  <1>2. /\ index \in [Key -> File \cup {None}] /\ imported \in SUBSET File
        /\ None \notin File /\ KeysOf \in [File -> SUBSET Key]
    BY FileAssumption DEF TypeInv, RegTypeOK
  <1>3. index' = Merge(index, f) /\ pc' = pc /\ lock' = lock
        /\ marked' = marked /\ imported' = imported
    BY <1>0 DEF ReadFile, history
  <1>4. toRead' = [toRead EXCEPT ![t] = @ \ {f}] /\ toRead \in [Thread -> SUBSET File]
    BY <1>0 DEF ReadFile, TypeInv, RegTypeOK
  <1>5. \A k \in Key :
          /\ index[k] /= None => index'[k] = index[k]
          /\ index[k] = None => index'[k] = IF k \in KeysOf[f] THEN f ELSE None
    BY <1>1, <1>2, <1>3, MergeIsSetdefault
  <1>6. pc[t] = "reading" /\ LockInv
    BY DEF ReadFile, TableInv
  <1>7. Has(f)'
    BY <1>1, <1>2, <1>5 DEF Has
  <1>8. \A g \in imported : Has(g) => Has(g)'
    BY <1>2, <1>5 DEF Has
  <1>9. Best'
    <2> SUFFICES ASSUME NEW k \in Key, index'[k] /= None
                 PROVE  /\ k \in KeysOf[index'[k]]
                        /\ \A g \in imported : k \in KeysOf[g] => Rank[index'[k]] <= Rank[g]
      BY <1>3 DEF Best, BestOf
    <2>1. CASE index[k] /= None
      BY <1>5, <2>1 DEF TableInv, Best, BestOf
    <2>2. CASE index[k] = None
      <3>1. index'[k] = f /\ k \in KeysOf[f]
        BY <1>5, <2>2
      <3>2. \A g \in imported : k \in KeysOf[g] => g \in toRead[t]
        BY <1>6, <2>2 DEF TableInv, LoadInv, Has
      <3> QED
        BY <1>1, <3>1, <3>2
    <2> QED
      BY <2>1, <2>2
  <1>10. LoadInv'
    <2> SUFFICES ASSUME NEW u \in Thread, pc[u] = "reading", NEW g \in imported
                 PROVE  g \in toRead'[u] \/ Has(g)'
      BY <1>3 DEF LoadInv
    <2>1. u = t
      BY <1>6 DEF LockInv
    <2>2. g \in toRead[t] \/ Has(g)
      BY <1>6 DEF TableInv, LoadInv
    <2> QED
      BY <1>4, <1>7, <1>8, <2>1, <2>2
  <1>11. MarkedInv'
    BY <1>3, <1>8 DEF TableInv, MarkedInv
  <1>12. LockInv' /\ PlaceInv'
    BY <1>3, <1>6 DEF TableInv, PlaceInv, LockInv
  <1> QED
    BY <1>9, <1>10, <1>11, <1>12 DEF TableInv

\* invalidate() empties the table before its file counts as imported.
LEMMA InvalidateTableInv ==
  ASSUME TypeInv, kind = "mms_map", TableInv, NEW t \in Thread, Invalidate(t)
  PROVE  TableInv'
  <1>1. index' = NoTable /\ marked' = FALSE /\ lock' = lock /\ lock = None
    BY DEF Invalidate, LockFree
  <1>2. pc' = [pc EXCEPT ![t] = "idle"]
    BY DEF Invalidate, Goto
  <1>3. \A u \in Thread : pc'[u] /= "reading"
    BY <1>1, <1>2, FileAssumption DEF TableInv, LockInv, TypeInv, RegTypeOK
  <1>4. PlaceInv'
    BY <1>2 DEF TableInv, PlaceInv, TypeInv, RegTypeOK
  <1> QED
    BY <1>1, <1>3, <1>4 DEF TableInv, LockInv, Best, BestOf, LoadInv, MarkedInv, NoTable

\* A load begins with every imported file still to read.
LEMMA BeginLoadTableInv ==
  ASSUME TypeInv, kind = "mms_map", TableInv, NEW t \in Thread, BeginLoad(t)
  PROVE  TableInv'
  <1>1. /\ index' = index /\ imported' = imported /\ marked' = marked
        /\ lock = None /\ lock' = t
        /\ pc' = [pc EXCEPT ![t] = "reading"]
        /\ toRead' = [toRead EXCEPT ![t] = disk]
    BY DEF BeginLoad, LockFree, Goto, history
  <1>2. \A u \in Thread : pc'[u] = "reading" => u = t
    BY <1>1, FileAssumption DEF TableInv, LockInv, TypeInv, RegTypeOK
  <1>3. toRead'[t] = disk /\ imported \subseteq disk
    BY <1>1 DEF TypeInv, RegTypeOK, WroteInv
  <1>4. LoadInv' /\ LockInv'
    BY <1>1, <1>2, <1>3 DEF LoadInv, LockInv
  <1>5. Best' /\ MarkedInv' /\ PlaceInv'
    BY <1>1 DEF TableInv, Best, BestOf, MarkedInv, Has, PlaceInv, TypeInv, RegTypeOK
  <1> QED
    BY <1>4, <1>5 DEF TableInv

\* The end of a load: nothing is left to read, so every import is there.
LEMMA PublishTableInv ==
  ASSUME TypeInv, kind = "mms_map", TableInv, NEW t \in Thread, Publish(t)
  PROVE  TableInv'
  <1>1. /\ index' = index /\ imported' = imported /\ lock' = None
        /\ pc[t] = "reading" /\ toRead[t] = {}
        /\ pc' = [pc EXCEPT ![t] = "read"]
    BY DEF Publish, Goto, history
  <1>2. \A g \in imported : Has(g)
    BY <1>1 DEF TableInv, LoadInv
  <1>3. \A u \in Thread : pc'[u] /= "reading"
    BY <1>1 DEF TableInv, LockInv, TypeInv, RegTypeOK
  <1>4. Best' /\ MarkedInv' /\ PlaceInv'
    BY <1>1, <1>2 DEF TableInv, Best, BestOf, MarkedInv, Has, PlaceInv, TypeInv, RegTypeOK
  <1> QED
    BY <1>3, <1>4 DEF TableInv, LockInv, LoadInv

\* A failed load leaves its entries behind, and the flag as it was.
LEMMA LoadRaisesTableInv ==
  ASSUME TypeInv, kind = "mms_map", TableInv, NEW t \in Thread, LoadRaises(t)
  PROVE  TableInv'
  <1>1. /\ index' = index /\ imported' = imported /\ lock' = None
        /\ marked' = marked /\ pc[t] = "reading"
        /\ pc' = [pc EXCEPT ![t] = "raised"]
    BY DEF LoadRaises, Goto, history
  <1>2. \A u \in Thread : pc'[u] /= "reading"
    BY <1>1 DEF TableInv, LockInv, TypeInv, RegTypeOK
  <1>3. Best' /\ MarkedInv' /\ PlaceInv'
    BY <1>1 DEF TableInv, Best, BestOf, MarkedInv, Has, PlaceInv, TypeInv, RegTypeOK
  <1> QED
    BY <1>2, <1>3 DEF TableInv, LockInv, LoadInv

LEMMA NextMmsInv == MmsInv /\ [Next]_vars => MmsInv'
  <1> SUFFICES ASSUME MmsInv, [Next]_vars PROVE MmsInv'
    OBVIOUS
  <1>1. TypeInv /\ TypeInv'
    BY NextTypeInv DEF MmsInv
  <1>2. kind' = kind
    BY DEF Next, Step, Lookup, Import, Loaded, BeginLoad, ReadFile, LoadRaises,
           Publish, PublishIndex, Mark, Read, ReadRaises, GetGroups, AskedGroup,
           NewestBegins, NewestEnds, NewestRaises, Answer,
           Return, Invalidate, Unmark, Clear, vars
  <1> SUFFICES ASSUME kind = "mms_map" PROVE TableInv'
    BY <1>1, <1>2 DEF MmsInv
  <1>3. TableInv
    BY DEF MmsInv
  \* The steps that touch neither the table nor the lock.
  <1>4. ASSUME NEW t \in Thread, NEW place \in {"idle", "load", "read", "raised", "groups",
                                "newest", "max", "answered", "invalidate"},
               pc' = [pc EXCEPT ![t] = place] \/ pc' = pc,
               UNCHANGED <<index, marked, lock, imported, toRead>>
        PROVE  TableInv'
    BY <1>1, <1>3, <1>4
       DEF TableInv, LockInv, Best, BestOf, LoadInv, MarkedInv, PlaceInv, Has, TypeInv,
           RegTypeOK
  <1> USE DEF Goto, registry, callers, history
  <1>5. ASSUME NEW t \in Thread, NEW q \in Queries, Lookup(t, q) PROVE TableInv'
    BY <1>4, <1>5 DEF Lookup
  <1>6. ASSUME NEW t \in Thread, NEW f \in File \ Packaged, Import(t, f)
        PROVE  TableInv'
    BY <1>4, <1>6 DEF Import
  <1>7. ASSUME NEW t \in Thread, Loaded(t) PROVE TableInv'
    BY <1>4, <1>7 DEF Loaded
  <1>8. ASSUME NEW t \in Thread, ReadRaises(t) \/ Answer(t) \/ Return(t) PROVE TableInv'
    BY <1>4, <1>8 DEF ReadRaises, Answer, Return
  <1>11. ASSUME NEW t \in Thread,
                \/ GetGroups(t) \/ AskedGroup(t)
                \/ NewestBegins(t) \/ NewestEnds(t) \/ NewestRaises(t)
         PROVE  TableInv'
    <2>1. UNCHANGED <<index, marked, lock, imported, toRead>>
      BY <1>11 DEF GetGroups, AskedGroup, NewestBegins, NewestEnds, NewestRaises
    <2>2. \/ pc' = pc
          \/ \E place \in {"groups", "newest", "max", "read", "raised"} :
               pc' = [pc EXCEPT ![t] = place]
      BY <1>11 DEF GetGroups, AskedGroup, NewestBegins, NewestEnds, NewestRaises, Give
    <2> QED
      BY <1>4, <2>1, <2>2
  <1>9. ASSUME NEW t \in Thread,
               PublishIndex(t) \/ Mark(t) \/ Read(t) \/ Unmark(t) \/ Clear(t)
        PROVE  TableInv'
    BY <1>3, <1>9 DEF PublishIndex, Mark, Read, Unmark, Clear, TableInv, PlaceInv
  <1>10. ASSUME UNCHANGED vars PROVE TableInv'
    BY <1>3, <1>10
       DEF vars, TableInv, LockInv, Best, BestOf, LoadInv, MarkedInv, PlaceInv, Has
  <1> QED
    BY <1>1, <1>3, <1>5, <1>6, <1>7, <1>8, <1>9, <1>10, <1>11,
       ReadFileTableInv, InvalidateTableInv, BeginLoadTableInv, PublishTableInv,
       LoadRaisesTableInv
       DEF Next, Step

\* While mms_tables counts as loaded its table holds, for every file imported
\* so far, that file or one that goes before it.
THEOREM LoadedTableIsCurrent == Spec => []LoadedIsCurrent
  <1>1. MmsInv => LoadedIsCurrent
    <2> SUFFICES ASSUME MmsInv, kind = "mms_map", marked, NEW f \in imported,
                        NEW k \in KeysOf[f]
                 PROVE  index[k] /= None /\ Rank[index[k]] <= Rank[f]
      BY DEF LoadedIsCurrent, Covers
    <2>1. k \in Key
      BY FileAssumption DEF MmsInv, TypeInv, RegTypeOK
    <2> QED
      BY <2>1 DEF MmsInv, TableInv, MarkedInv, Has, Best, BestOf
  <1> QED
    BY <1>1, InitMmsInv, NextMmsInv, PTL DEF Spec

-----------------------------------------------------------------------------
(* The answers of mms_tables *)

\* The answer of t: no file that it could know of goes before it.
Good(t) ==
  \E k \in KeysOf[result[t]] :
    \A f \in known[t] : k \in KeysOf[f] => Rank[result[t]] <= Rank[f]
\* What invalidate() let go of is as good as the table was.
HeldInv ==
  \A t \in Thread : pc[t] \in Asking /\ t \notin live => BestOf(held[t], known[t])
AnswerInv ==
  \A t \in Thread :
    /\ known[t] \subseteq imported
    /\ query[t] /= <<>> => pc[t] \notin {"answered", "raised"}
    /\ pc[t] \in Asking => result[t] = None
    /\ result[t] /= None => pc[t] \in {"read", "answered"} /\ query[t] = <<>> /\ Good(t)
AnsweredInv == MmsInv /\ (kind = "mms_map" => AnswerInv /\ HeldInv)

\* The groups a thread has in hand are those of some table, and good ones.
LEMMA HeldIsBest ==
  ASSUME MmsInv, kind = "mms_map", AnswerInv, HeldInv, NEW t \in Thread, pc[t] \in Asking
  PROVE  /\ Held(t) \in [Key -> File \cup {None}] /\ GroupsOf(Held(t)) /= {}
         /\ BestOf(Held(t), known[t])
  <1>1. TypeInv /\ Best /\ known[t] \subseteq imported
    BY DEF MmsInv, TableInv, AnswerInv
  <1>2. Held(t) \in [Key -> File \cup {None}] /\ GroupsOf(Held(t)) /= {}
    BY <1>1 DEF Held, TypeInv, RegTypeOK, AskingInv
  <1>3. BestOf(Held(t), known[t])
    <2>1. CASE t \in live
      BY <1>1, <2>1 DEF Held, Best, BestOf
    <2>2. CASE t \notin live
      BY <2>2 DEF Held, HeldInv
    <2> QED
      BY <2>1, <2>2
  <1> QED
    BY <1>2, <1>3

LEMMA NextHeldInv ==
  ASSUME MmsInv, kind = "mms_map", AnswerInv, HeldInv, [Next]_vars
  PROVE  HeldInv'
  <1> USE DEF Goto, registry, callers, history, groups
  <1>1. /\ TypeInv /\ AskingInv /\ \E P : pc \in [Thread -> P]
        /\ known \in [Thread -> SUBSET File]
        /\ held \in [Thread -> [Key -> File \cup {None}]]
    BY DEF MmsInv, TypeInv, RegTypeOK
  \* Nobody is given other groups than it had.
  <1>2. ASSUME \A u \in Thread : pc'[u] \in Asking /\ u \notin live' =>
                 /\ pc[u] \in Asking /\ u \notin live
                 /\ held'[u] = held[u] /\ known'[u] = known[u]
        PROVE  HeldInv'
    BY <1>2 DEF HeldInv, BestOf
  <1>3. ASSUME NEW t \in Thread, NEW q \in Queries, Lookup(t, q) PROVE HeldInv'
    BY <1>1, <1>2, <1>3 DEF Lookup, Asking
  <1>4. ASSUME NEW t \in Thread, NEW f \in File \ Packaged, Import(t, f) PROVE HeldInv'
    BY <1>1, <1>2, <1>4 DEF Import, Asking
  <1>5. ASSUME NEW t \in Thread,
               \/ Loaded(t) \/ BeginLoad(t) \/ ReadFile(t) \/ LoadRaises(t) \/ Publish(t)
               \/ PublishIndex(t) \/ Mark(t) \/ Read(t) \/ ReadRaises(t) \/ Answer(t)
               \/ Return(t) \/ Unmark(t) \/ Clear(t)
        PROVE  HeldInv'
    <2>1. live' = live /\ held' = held
      BY <1>5 DEF Loaded, BeginLoad, ReadFile, LoadRaises, Publish, PublishIndex, Mark,
         Read,
                  ReadRaises, Answer, Return, Unmark, Clear
    <2>2. \A u \in Thread : pc'[u] \in Asking => pc[u] \in Asking /\ known'[u] = known[u]
      BY <1>1, <1>5
      DEF Loaded, BeginLoad, ReadFile, LoadRaises, Publish, PublishIndex, Mark, Read,
          ReadRaises, Answer, Return, Unmark, Clear, Asking
    <2> QED
      BY <1>2, <2>1, <2>2
  <1>6. ASSUME NEW t \in Thread, GetGroups(t) PROVE HeldInv'
    BY <1>1, <1>2, <1>6 DEF GetGroups, Asking
  <1>7. ASSUME NEW t \in Thread, LetGo(t), pc'[t] \notin Asking, known' = known,
               \A u \in Thread \ {t} : pc'[u] = pc[u]
        PROVE  HeldInv'
    BY <1>1, <1>2, <1>7 DEF LetGo
  <1>8. ASSUME NEW t \in Thread, AskedGroup(t) PROVE HeldInv'
    <2>1. CASE Held(t)[Head(query[t])] /= None
      <3>1. Give(t, Held(t)[Head(query[t])]) /\ known' = known
        BY <1>8, <2>1 DEF AskedGroup
      <3> QED
        BY <1>1, <1>7, <3>1 DEF Give, Asking
    <2>2. CASE Held(t)[Head(query[t])] = None
      <3>1. /\ pc[t] = "groups" /\ pc' = [pc EXCEPT ![t] = "newest"]
            /\ UNCHANGED <<live, held, known>>
        BY <1>8, <2>2 DEF AskedGroup
      <3> QED
        BY <1>1, <1>2, <3>1 DEF Asking
    <2> QED
      BY <2>1, <2>2
  <1>9. ASSUME NEW t \in Thread, NewestBegins(t) PROVE HeldInv'
    BY <1>1, <1>2, <1>9 DEF NewestBegins, Asking
  <1>10. ASSUME NEW t \in Thread, NewestEnds(t) \/ NewestRaises(t) PROVE HeldInv'
    BY <1>1, <1>7, <1>10 DEF NewestEnds, NewestRaises, Give, Asking
  <1>11. ASSUME NEW t \in Thread, Invalidate(t) PROVE HeldInv'
    <2>1. /\ held' = [u \in Thread |-> Held(u)] /\ known' = known
          /\ pc[t] = "invalidate" /\ pc' = [pc EXCEPT ![t] = "idle"]
      BY <1>11 DEF Invalidate, LetGoOfAll
    <2>2. ASSUME NEW u \in Thread, pc'[u] \in Asking PROVE BestOf(held'[u], known'[u])
      <3>1. pc[u] \in Asking /\ held'[u] = Held(u) /\ known'[u] = known[u]
        BY <1>1, <2>1, <2>2 DEF Asking
      <3> QED
        BY <3>1, HeldIsBest
    <2> QED
      BY <2>2 DEF HeldInv, BestOf
  <1>12. ASSUME UNCHANGED vars PROVE HeldInv'
    BY <1>2, <1>12 DEF vars
  <1> QED
    BY <1>3, <1>4, <1>5, <1>6, <1>8, <1>9, <1>10, <1>11, <1>12 DEF Next, Step

LEMMA NextAnswerInv ==
  ASSUME MmsInv, kind = "mms_map", AnswerInv, HeldInv, [Next]_vars
  PROVE  AnswerInv'
  <1>1. /\ TypeInv /\ TableInv
        /\ asked \in [Thread -> Seq(Key)] /\ query \in [Thread -> Seq(Key)]
        /\ known \in [Thread -> SUBSET File]
        /\ result \in [Thread -> File \cup {None}]
        /\ \E P : pc \in [Thread -> P]
    BY DEF MmsInv, TypeInv, RegTypeOK
  \* Steps that leave what was asked, known and answered as they are.
  <1>2. ASSUME UNCHANGED <<asked, known, result, query>>, imported \subseteq imported',
               \A t \in Thread : \/ pc'[t] = pc[t]
                                 \/ /\ pc[t] \notin {"read", "answered"}
                                    /\ pc'[t] \notin {"answered", "raised"}
                                    /\ pc'[t] \in Asking => pc[t] \in Asking
                                 \/ pc'[t] = "answered" /\ query[t] = <<>>
        PROVE  AnswerInv'
    BY <1>1, <1>2 DEF AnswerInv, Good, Asking
  <1> USE DEF Goto, registry, callers, history, groups
  <1>3. ASSUME NEW t \in Thread, NEW q \in Queries, Lookup(t, q) PROVE AnswerInv'
    <2>1. \A u \in Thread : Good(u) /\ u /= t => Good(u)'
      BY <1>1, <1>3 DEF Lookup, Good
    <2>2. result[t] = None
      BY <1>3 DEF AnswerInv, Lookup
    <2> QED
      BY <1>1, <1>3, <2>1, <2>2 DEF Lookup, AnswerInv, Asking
  <1>4. ASSUME NEW t \in Thread, NEW f \in File \ Packaged, Import(t, f)
        PROVE  AnswerInv'
    BY <1>1, <1>2, <1>4 DEF Import, Asking
  <1>5. ASSUME NEW t \in Thread,
               Loaded(t) \/ BeginLoad(t) \/ ReadFile(t) \/ Publish(t) \/ Answer(t)
        PROVE  AnswerInv'
    BY <1>1, <1>2, <1>5 DEF Loaded, BeginLoad, ReadFile, Publish, Answer, Asking
  <1>6. ASSUME NEW t \in Thread, LoadRaises(t) \/ NewestRaises(t) PROVE AnswerInv'
    <2>1. /\ UNCHANGED <<asked, known, result, imported>>
          /\ query' = [query EXCEPT ![t] = <<>>]
          /\ pc' = [pc EXCEPT ![t] = "raised"]
          /\ result[t] = None
      BY <1>6 DEF LoadRaises, NewestRaises, AnswerInv, Asking
    <2> QED
      BY <1>1, <2>1 DEF AnswerInv, Good, Asking
  <1>7. ASSUME NEW t \in Thread, NEW k \in Key, pc[t] \in Asking,
               Give(t, Held(t)[k]), UNCHANGED <<asked, known, imported>>
        PROVE  AnswerInv'
    <2>1. /\ query' = [query EXCEPT ![t] = <<>>] /\ pc' = [pc EXCEPT ![t] = "read"]
          /\ result' = [result EXCEPT ![t] = Held(t)[k]]
      BY <1>7 DEF Give
    <2>2. ASSUME result'[t] /= None PROVE Good(t)'
      <3>1. result'[t] = Held(t)[k] /\ BestOf(Held(t), known[t])
        BY <1>1, <1>7, <2>1, HeldIsBest
      <3>2. /\ k \in KeysOf[result'[t]]
            /\ \A f \in known[t] : k \in KeysOf[f] => Rank[result'[t]] <= Rank[f]
        BY <2>2, <3>1 DEF BestOf
      <3> QED
        BY <1>7, <3>2 DEF Good
    <2>3. \A u \in Thread : Good(u) /\ u /= t => Good(u)'
      BY <1>1, <1>7, <2>1 DEF Good
    <2> QED
      BY <1>1, <1>7, <2>1, <2>2, <2>3 DEF AnswerInv, Asking
  <1>12. ASSUME NEW t \in Thread, GetGroups(t) PROVE AnswerInv'
    <2>1. /\ pc[t] = "read" /\ query[t] /= <<>> /\ result[t] = None
          /\ UNCHANGED <<asked, known, imported, result>>
      BY <1>12 DEF GetGroups, AnswerInv
    <2>2. \/ pc' = pc /\ query' = [query EXCEPT ![t] = <<>>]
          \/ pc' = [pc EXCEPT ![t] = "groups"] /\ query' = query
      BY <1>12 DEF GetGroups
    <2>3. \A u \in Thread : Good(u) => Good(u)'
      BY <2>1 DEF Good
    <2> QED
      BY <1>1, <2>1, <2>2, <2>3 DEF AnswerInv, Asking
  <1>13. ASSUME NEW t \in Thread, AskedGroup(t) PROVE AnswerInv'
    <2>1. CASE Held(t)[Head(query[t])] /= None
      <3>1. /\ Give(t, Held(t)[Head(query[t])]) /\ UNCHANGED <<asked, known, imported>>
            /\ pc[t] \in Asking
        BY <1>13, <2>1 DEF AskedGroup, Asking
      <3>2. Head(query[t]) \in Key
        BY <1>1, <3>1 DEF TypeInv, AskingInv
      <3> QED
        BY <1>7, <3>1, <3>2
    <2>2. CASE Held(t)[Head(query[t])] = None
      <3>1. /\ pc[t] = "groups" /\ pc' = [pc EXCEPT ![t] = "newest"]
            /\ UNCHANGED <<asked, known, imported, result, query>>
        BY <1>13, <2>2 DEF AskedGroup
      <3> QED
        BY <1>1, <1>2, <3>1 DEF Asking
    <2> QED
      BY <2>1, <2>2
  <1>14. ASSUME NEW t \in Thread, NewestBegins(t) PROVE AnswerInv'
    BY <1>1, <1>2, <1>14 DEF NewestBegins, Asking
  <1>15. ASSUME NEW t \in Thread, NewestEnds(t) PROVE AnswerInv'
    <2>1. /\ begun[t] = GroupsOf(Held(t)) /\ pc[t] \in Asking
          /\ Give(t, Held(t)[Newest(begun[t])]) /\ UNCHANGED <<asked, known, imported>>
      BY <1>15 DEF NewestEnds, Asking
    <2>2. begun[t] \in SUBSET Key /\ begun[t] /= {}
      BY <2>1, HeldIsBest DEF GroupsOf
    <2> QED
      BY <1>7, <2>1, <2>2, NewestIsOne
  <1>8. ASSUME NEW t \in Thread, Return(t) PROVE AnswerInv'
    <2>1. \A u \in Thread : Good(u) /\ u /= t => Good(u)'
      BY <1>1, <1>8 DEF Return, Good
    <2>2. query[t] = <<>> \/ result[t] = None
      BY DEF AnswerInv
    <2> QED
      BY <1>1, <1>8, <2>1, <2>2 DEF Return, AnswerInv, Asking
  <1>9. ASSUME NEW t \in Thread, Invalidate(t) PROVE AnswerInv'
    BY <1>1, <1>2, <1>9 DEF Invalidate, Asking
  <1>10. ASSUME NEW t \in Thread,
                \/ PublishIndex(t) \/ Mark(t) \/ Read(t) \/ ReadRaises(t)
                \/ Unmark(t) \/ Clear(t)
         PROVE  AnswerInv'
    BY <1>1, <1>10
    DEF PublishIndex, Mark, Read, ReadRaises, Unmark, Clear, TableInv, PlaceInv
  <1>11. ASSUME UNCHANGED vars PROVE AnswerInv'
    BY <1>2, <1>11 DEF vars
  <1> QED
    BY <1>3, <1>4, <1>5, <1>6, <1>8, <1>9, <1>10, <1>11, <1>12, <1>13, <1>14, <1>15
    DEF Next, Step

\* A lookup in mms_tables never answers with a table that a file imported
\* before the lookup began overrides.
THEOREM AnswersAreNotOverridden == Spec => []NeverOverridden
  <1>1. Init => AnsweredInv
    BY InitMmsInv DEF Init, AnsweredInv, AnswerInv, HeldInv, Asking
  <1>2. AnsweredInv /\ [Next]_vars => AnsweredInv'
    <2> SUFFICES ASSUME AnsweredInv, [Next]_vars PROVE AnsweredInv'
      OBVIOUS
    <2>1. MmsInv'
      BY NextMmsInv DEF AnsweredInv
    <2>2. kind' = kind
      BY DEF Next, Step, Lookup, Import, Loaded, BeginLoad, ReadFile, LoadRaises,
             Publish, PublishIndex, Mark, Read, ReadRaises, GetGroups, AskedGroup,
             NewestBegins, NewestEnds, NewestRaises, Answer,
             Return, Invalidate, Unmark, Clear, vars
    <2> QED
      BY <2>1, <2>2, NextAnswerInv, NextHeldInv DEF AnsweredInv
  <1>3. AnsweredInv => NeverOverridden
    BY DEF AnsweredInv, AnswerInv, NeverOverridden, Good
  <1> QED
    BY <1>1, <1>2, <1>3, PTL DEF Spec

-----------------------------------------------------------------------------
(* The tables wordbits and relay_models publish *)

\* There is one first file: the order has no ties.
LEMMA FirstOfIsOne ==
  ASSUME NEW S \in SUBSET File, NEW f \in S, \A g \in S : Rank[f] <= Rank[g]
  PROVE  FirstOf(S) = f
  <1>1. FirstOf(S) \in S /\ Rank[FirstOf(S)] <= Rank[f]
    BY FirstOfIsFirst
  <1>2. Rank[FirstOf(S)] = Rank[f]
    BY <1>1, FileAssumption
  <1> QED
    BY <1>1, <1>2, FileAssumption

\* The files of S that define k.
Defining(S, k) == {f \in S : k \in KeysOf[f]}

LEMMA TableEntry ==
  ASSUME NEW S \in SUBSET File, NEW k \in Key
  PROVE  Table(S)[k] = IF Defining(S, k) = {} THEN None ELSE FirstOf(Defining(S, k))
  BY DEF Table, Defining

\* Merging the files in their order, each into the table of those before it,
\* makes the table of them all.
LEMMA MergeMakesTable ==
  ASSUME NEW S \in SUBSET File, NEW f \in File, \A g \in S : Rank[g] <= Rank[f]
  PROVE  Merge(Table(S), f) = Table(S \cup {f})
  <1>1. ASSUME NEW k \in Key
        PROVE  Merge(Table(S), f)[k] = Table(S \cup {f})[k]
    <2> DEFINE old == Defining(S, k)
               new == Defining(S \cup {f}, k)
    <2>1. /\ old \in SUBSET File /\ new \in SUBSET File
          /\ new = IF k \in KeysOf[f] THEN old \cup {f} ELSE old
      BY DEF Defining
    <2>2. /\ Table(S)[k] = IF old = {} THEN None ELSE FirstOf(old)
          /\ Table(S \cup {f})[k] = IF new = {} THEN None ELSE FirstOf(new)
      BY TableEntry
    <2>3. Merge(Table(S), f)[k] = IF k \in KeysOf[f] /\ Table(S)[k] = None THEN f ELSE Table(S)[k]
      BY DEF Merge
    <2>4. old /= {} => FirstOf(old) \in old /\ \A g \in old : Rank[FirstOf(old)] <= Rank[g]
      BY <2>1, FirstOfIsFirst
    <2>5. old \subseteq S
      BY DEF Defining
    <2> HIDE DEF old, new
    <2>6. CASE k \notin KeysOf[f]
      BY <2>1, <2>2, <2>3, <2>6
    <2>7. CASE k \in KeysOf[f] /\ old = {}
      <3>1. new = {f}
        BY <2>1, <2>7
      <3>2. FirstOf({f}) = f
        BY FirstOfIsFirst, <3>1, <2>1
      <3> QED
        BY <2>2, <2>3, <2>7, <3>1, <3>2
    <2>8. CASE k \in KeysOf[f] /\ old /= {}
      <3>1. FirstOf(old) \in new /\ \A g \in new : Rank[FirstOf(old)] <= Rank[g]
        BY <2>1, <2>4, <2>5, <2>8
      <3>2. FirstOf(new) = FirstOf(old)
        BY <2>1, <3>1, FirstOfIsOne
      <3>3. Table(S)[k] /= None /\ new /= {}
        BY <2>1, <2>2, <2>4, <2>8, FileAssumption
      <3> QED
        BY <2>2, <2>3, <2>8, <3>2, <3>3
    <2> QED
      BY <2>6, <2>7, <2>8
  <1>2. /\ Merge(Table(S), f) = [k \in Key |-> Merge(Table(S), f)[k]]
        /\ Table(S \cup {f}) = [k \in Key |-> Table(S \cup {f})[k]]
    BY DEF Merge, Table
  <1> QED
    BY <1>1, <1>2

\* A load that is on its way has the table of the files it has read, of those
\* its listing gave; what is still to read comes after them.
Listing(t, L) ==
  /\ Packaged \subseteq L /\ L \subseteq disk /\ toRead[t] \subseteq L
  /\ mine[t] = Table(L \ toRead[t])
  /\ \A f \in L \ toRead[t] : \A g \in toRead[t] : Rank[f] <= Rank[g]
OwnInv ==
  \A t \in Thread :
    /\ pc[t] = "reading" => \E L \in SUBSET File : Listing(t, L)
    /\ pc[t] /= "reading" => mine[t] = NoTable
    /\ pc[t] \in {"mark", "clear"} => kind = "relay_models"
WholeInv ==
  /\ Packaged \subseteq disk
  /\ kind /= "mms_map" => OwnInv /\ PublishedWhole

LEMMA TableOfNone == Table({}) = NoTable
  BY DEF Table, NoTable

\* More files on the disk: what was a table of some of them still is.
LEMMA DiskGrows ==
  ASSUME disk \subseteq disk', index' = index, kind' = kind, marked' = marked, PublishedWhole
  PROVE  PublishedWhole'
  BY DEF PublishedWhole, Tables

\* A listing stands while the files on the disk grow.
LEMMA ListingStands ==
  ASSUME NEW t \in Thread, NEW L, Listing(t, L), disk \subseteq disk',
         mine'[t] = mine[t], toRead'[t] = toRead[t]
  PROVE  Listing(t, L)'
  BY DEF Listing

\* Steps of one thread that neither load nor publish.
LEMMA OwnFrame ==
  ASSUME TypeInv, OwnInv, NEW t \in Thread, disk \subseteq disk', kind' = kind,
         mine' = mine, toRead' = toRead, pc[t] /= "reading",
         NEW place, pc' = [pc EXCEPT ![t] = place], place /= "reading",
         place \in {"mark", "clear"} => kind = "relay_models"
  PROVE  OwnInv'
  <1>1. ASSUME NEW u \in Thread, pc'[u] = "reading" PROVE \E L \in SUBSET File : Listing(u, L)'
    <2>1. pc[u] = "reading"
      BY <1>1 DEF TypeInv, RegTypeOK
    <2>2. PICK L \in SUBSET File : Listing(u, L)
      BY <2>1 DEF OwnInv
    <2> QED
      BY <2>2, ListingStands
  <1> QED
    BY <1>1 DEF OwnInv, TypeInv, RegTypeOK

LEMMA BeginLoadWhole ==
  ASSUME TypeInv, Packaged \subseteq disk, OwnInv, NEW t \in Thread, BeginLoad(t)
  PROVE  OwnInv'
  <1>1. /\ disk' = disk /\ kind' = kind /\ mine' = mine
        /\ toRead' = [toRead EXCEPT ![t] = disk] /\ pc' = [pc EXCEPT ![t] = "reading"]
        /\ pc[t] = "load"
    BY DEF BeginLoad, Goto
  <1>2. mine[t] = NoTable /\ disk \in SUBSET File
    BY <1>1 DEF OwnInv, TypeInv, RegTypeOK
  <1>3. toRead'[t] = disk
    BY <1>1 DEF TypeInv, RegTypeOK
  <1>4. disk \ disk = {}
    OBVIOUS
  <1>5. Listing(t, disk)'
    BY <1>1, <1>2, <1>3, <1>4, TableOfNone DEF Listing
  <1>6. ASSUME NEW u \in Thread, pc'[u] = "reading" PROVE \E L \in SUBSET File : Listing(u, L)'
    <2>1. CASE u = t
      BY <1>1, <1>2, <1>5, <2>1
    <2>2. CASE u /= t
      <3>1. pc[u] = "reading" /\ toRead'[u] = toRead[u]
        BY <1>1, <1>6, <2>2 DEF TypeInv, RegTypeOK
      <3>2. PICK L \in SUBSET File : Listing(u, L)
        BY <3>1 DEF OwnInv
      <3> QED
        BY <1>1, <3>1, <3>2, ListingStands
    <2> QED
      BY <2>1, <2>2
  <1> QED
    BY <1>1, <1>6 DEF OwnInv, TypeInv, RegTypeOK

LEMMA ReadFileWhole ==
  ASSUME TypeInv, kind /= "mms_map", OwnInv, NEW t \in Thread, ReadFile(t)
  PROVE  OwnInv'
  <1> DEFINE f == FirstOf(toRead[t])
  <1>1. /\ f \in toRead[t] /\ f \in File /\ \A g \in toRead[t] : Rank[f] <= Rank[g]
    BY FirstOfIsFirst DEF ReadFile, TypeInv, RegTypeOK
  <1>2. /\ disk' = disk /\ kind' = kind /\ pc' = pc /\ pc[t] = "reading"
        /\ toRead' = [toRead EXCEPT ![t] = @ \ {f}]
        /\ mine' = [mine EXCEPT ![t] = Merge(@, f)]
    BY DEF ReadFile
  <1>3. toRead'[t] = toRead[t] \ {f} /\ mine'[t] = Merge(mine[t], f)
    BY <1>2 DEF TypeInv, RegTypeOK
  <1>4. PICK L \in SUBSET File : Listing(t, L)
    BY <1>2 DEF OwnInv
  <1>5. Listing(t, L)'
    <2>1. L \ toRead'[t] = (L \ toRead[t]) \cup {f}
      BY <1>1, <1>3, <1>4 DEF Listing
    <2>2. \A g \in L \ toRead[t] : Rank[g] <= Rank[f]
      BY <1>1, <1>4 DEF Listing
    <2>3. mine'[t] = Table(L \ toRead'[t])
      BY <1>1, <1>3, <1>4, <2>1, <2>2, MergeMakesTable DEF Listing
    <2>4. \A g \in L \ toRead'[t] : \A h \in toRead'[t] : Rank[g] <= Rank[h]
      BY <1>1, <1>3, <1>4, <2>1 DEF Listing
    <2> QED
      BY <1>2, <1>3, <1>4, <2>3, <2>4 DEF Listing
  <1>6. ASSUME NEW u \in Thread, pc'[u] = "reading" PROVE \E M \in SUBSET File : Listing(u, M)'
    <2>1. CASE u = t
      BY <1>4, <1>5, <2>1
    <2>2. CASE u /= t
      <3>1. pc[u] = "reading" /\ toRead'[u] = toRead[u] /\ mine'[u] = mine[u]
        BY <1>2, <1>6, <2>2 DEF TypeInv, RegTypeOK
      <3>2. PICK M \in SUBSET File : Listing(u, M)
        BY <3>1 DEF OwnInv
      <3> QED
        BY <1>2, <3>1, <3>2, ListingStands
    <2> QED
      BY <2>1, <2>2
  <1> QED
    BY <1>2, <1>6 DEF OwnInv, TypeInv, RegTypeOK

\* A load ends: with its table published, or with an exception.
LEMMA LoadEndsWhole ==
  ASSUME TypeInv, kind /= "mms_map", OwnInv, NEW t \in Thread,
         LoadRaises(t) \/ Publish(t) \/ PublishIndex(t)
  PROVE  OwnInv'
  <1>1. /\ disk' = disk /\ kind' = kind /\ mine' = [mine EXCEPT ![t] = NoTable]
        /\ \A u \in Thread : u /= t => toRead'[u] = toRead[u]
        /\ \E place \in {"raised", "read", "mark"} :
             /\ pc' = [pc EXCEPT ![t] = place]
             /\ place = "mark" => kind = "relay_models"
    BY DEF LoadRaises, Publish, PublishIndex, Goto, TypeInv, RegTypeOK
  <1>2. ASSUME NEW u \in Thread, pc'[u] = "reading" PROVE \E L \in SUBSET File : Listing(u, L)'
    <2>1. u /= t /\ pc[u] = "reading" /\ mine'[u] = mine[u]
      BY <1>1, <1>2 DEF TypeInv, RegTypeOK
    <2>2. PICK L \in SUBSET File : Listing(u, L)
      BY <2>1 DEF OwnInv
    <2> QED
      BY <1>1, <2>1, <2>2, ListingStands
  <1> QED
    BY <1>1, <1>2 DEF OwnInv, TypeInv, RegTypeOK

\* What is published is the table of a listing, read to its end.
LEMMA PublishedIsWhole ==
  ASSUME TypeInv, kind /= "mms_map", OwnInv, NEW t \in Thread,
         Publish(t) \/ PublishIndex(t)
  PROVE  PublishedWhole'
  <1>1. pc[t] = "reading" /\ toRead[t] = {} /\ disk' = disk /\ index' = mine[t]
    BY DEF Publish, PublishIndex
  <1>2. PICK L \in SUBSET File : Listing(t, L)
    BY <1>1 DEF OwnInv
  <1>3. mine[t] = Table(L) /\ Packaged \subseteq L /\ L \subseteq disk
    <2>1. L \ {} = L
      OBVIOUS
    <2> QED
      BY <1>1, <1>2, <2>1 DEF Listing
  <1>4. L \ Packaged \in SUBSET (disk \ Packaged) /\ (L \ Packaged) \cup Packaged = L
    BY <1>3
  <1>5. index' \in Tables'
    BY <1>1, <1>3, <1>4 DEF Tables
  <1> QED
    BY <1>5 DEF PublishedWhole

LEMMA NextWholeInv == TypeInv /\ WholeInv /\ [Next]_vars => WholeInv'
  <1> SUFFICES ASSUME TypeInv, WholeInv, [Next]_vars PROVE WholeInv'
    OBVIOUS
  <1>1. kind' = kind /\ disk \subseteq disk'
    BY DEF Next, Step, Lookup, Import, Loaded, BeginLoad, ReadFile, LoadRaises,
           Publish, PublishIndex, Mark, Read, ReadRaises, GetGroups, AskedGroup,
           NewestBegins, NewestEnds, NewestRaises, Answer,
           Return, Invalidate, Unmark, Clear, vars
  <1>2. Packaged \subseteq disk'
    BY <1>1 DEF WholeInv
  <1> SUFFICES ASSUME kind /= "mms_map" PROVE OwnInv' /\ PublishedWhole'
    BY <1>1, <1>2 DEF WholeInv
  <1>3. OwnInv /\ PublishedWhole /\ Packaged \subseteq disk
    BY DEF WholeInv
  <1> USE DEF Goto, registry, callers, history
  \* The table is as it was, and no more is marked.
  <1>4. ASSUME index' = index, marked' = marked \/ kind = "relay_models" PROVE PublishedWhole'
    BY <1>1, <1>3, <1>4 DEF PublishedWhole, Tables
  <1>5. ASSUME NEW t \in Thread, NEW q \in Queries, Lookup(t, q)
        PROVE  OwnInv' /\ PublishedWhole'
    BY <1>1, <1>3, <1>4, <1>5, OwnFrame DEF Lookup
  <1>6. ASSUME NEW t \in Thread, NEW f \in File \ Packaged, Import(t, f)
        PROVE  OwnInv' /\ PublishedWhole'
    BY <1>1, <1>3, <1>4, <1>6, OwnFrame DEF Import
  <1>7. ASSUME NEW t \in Thread, Loaded(t) \/ Answer(t) \/ Return(t)
        PROVE  OwnInv' /\ PublishedWhole'
    BY <1>1, <1>3, <1>4, <1>7, OwnFrame DEF Loaded, Answer, Return
  <1>8. ASSUME NEW t \in Thread, BeginLoad(t) PROVE OwnInv' /\ PublishedWhole'
    BY <1>3, <1>4, <1>8, BeginLoadWhole DEF BeginLoad
  <1>9. ASSUME NEW t \in Thread, ReadFile(t) PROVE OwnInv' /\ PublishedWhole'
    BY <1>3, <1>4, <1>9, ReadFileWhole DEF ReadFile
  <1>10. ASSUME NEW t \in Thread, LoadRaises(t) PROVE OwnInv' /\ PublishedWhole'
    BY <1>3, <1>4, <1>10, LoadEndsWhole DEF LoadRaises
  <1>11. ASSUME NEW t \in Thread, Publish(t) \/ PublishIndex(t)
         PROVE  OwnInv' /\ PublishedWhole'
    BY <1>3, <1>11, LoadEndsWhole, PublishedIsWhole
  <1>12. ASSUME NEW t \in Thread, Mark(t) PROVE OwnInv' /\ PublishedWhole'
    <2>1. kind = "relay_models"
      BY <1>3, <1>12 DEF Mark, OwnInv
    <2> QED
      BY <1>1, <1>3, <1>4, <1>12, <2>1, OwnFrame DEF Mark
  <1>13. ASSUME NEW t \in Thread, Read(t) PROVE OwnInv' /\ PublishedWhole'
    <2>0. UNCHANGED <<kind, disk, pc, mine, toRead>>
      BY <1>13 DEF Read
    <2>1. OwnInv'
      <3>1. \A u \in Thread, L \in SUBSET File : Listing(u, L) => Listing(u, L)'
        BY <1>1, <2>0, ListingStands
      <3> QED
        BY <1>3, <2>0, <3>1 DEF OwnInv
    <2> QED
      BY <1>4, <1>13, <2>1 DEF Read
  <1>14. ASSUME NEW t \in Thread, ReadRaises(t) PROVE OwnInv' /\ PublishedWhole'
    BY <1>1, <1>3, <1>4, <1>14, OwnFrame DEF ReadRaises
  <1>15. ASSUME NEW t \in Thread,
                \/ GetGroups(t) \/ AskedGroup(t)
                \/ NewestBegins(t) \/ NewestEnds(t) \/ NewestRaises(t)
         PROVE  OwnInv' /\ PublishedWhole'
    BY <1>15
    DEF GetGroups, AskedGroup, NewestBegins, NewestEnds, NewestRaises, TypeInv, AskingInv,
        Asking
  <1>16. ASSUME NEW t \in Thread, Invalidate(t) PROVE OwnInv' /\ PublishedWhole'
    <2>1. OwnInv'
      BY <1>1, <1>3, <1>16, OwnFrame DEF Invalidate
    <2> QED
      BY <1>16, <2>1 DEF Invalidate, PublishedWhole, NoTable
  <1>17. ASSUME NEW t \in Thread, Unmark(t) PROVE OwnInv' /\ PublishedWhole'
    BY <1>1, <1>3, <1>4, <1>17, OwnFrame DEF Unmark
  <1>18. ASSUME NEW t \in Thread, Clear(t) PROVE OwnInv' /\ PublishedWhole'
    <2>1. kind = "relay_models" /\ OwnInv'
      BY <1>1, <1>3, <1>18, OwnFrame DEF Clear, OwnInv
    <2> QED
      BY <1>1, <1>18, <2>1 DEF Clear, PublishedWhole, NoTable
  <1>19. ASSUME UNCHANGED vars PROVE OwnInv' /\ PublishedWhole'
    BY <1>3, <1>4, <1>19 DEF vars, OwnInv, Listing
  <1> QED
    BY <1>5, <1>6, <1>7, <1>8, <1>9, <1>10, <1>11, <1>12, <1>13, <1>14, <1>15, <1>16,
       <1>17, <1>18, <1>19 DEF Next, Step

\* However many first lookups race and imports come in between, wordbits and
\* relay_models publish no table with a file of its listing missing.
THEOREM PublishedTablesAreWhole == Spec => []PublishedWhole
  <1>1. Init => WholeInv
    BY FileAssumption DEF Init, WholeInv, OwnInv, PublishedWhole
  <1>2. WholeInv => PublishedWhole
    BY DEF WholeInv, PublishedWhole
  <1> QED
    BY <1>1, <1>2, InitTypeInv, NextTypeInv, NextWholeInv, PTL DEF Spec

-----------------------------------------------------------------------------
(* Cold starts *)

Shipped == Table(Packaged)

\* A name the table does not have is passed over.
LEMMA FirstFoundSkips ==
  ASSUME NEW table, NEW q \in Seq(Key), q /= <<>>
  PROVE  /\ table[Head(q)] /= None => FirstFound(table, q) = table[Head(q)]
         /\ table[Head(q)] = None => FirstFound(table, q) = FirstFound(table, Tail(q))
  <1> DEFINE Hits(s) == {i \in DOMAIN s : table[s[i]] /= None}
             Least(S) == CHOOSE i \in S : \A j \in S : i <= j
  <1>0. /\ Len(q) \in Nat \ {0} /\ DOMAIN q = 1..Len(q) /\ Head(q) = q[1]
        /\ Tail(q) \in Seq(Key) /\ DOMAIN Tail(q) = 1..(Len(q) - 1)
        /\ \A i \in 1..(Len(q) - 1) : Tail(q)[i] = q[i + 1]
    BY EmptySeq, HeadTailProperties
  <1>1. CASE table[Head(q)] /= None
    <2>1. 1 \in Hits(q) /\ \A j \in Hits(q) : 1 <= j
      BY <1>0, <1>1
    <2>2. Least(Hits(q)) = 1
      <3>1. Least(Hits(q)) \in Hits(q) /\ \A j \in Hits(q) : Least(Hits(q)) <= j
        BY <2>1
      <3>2. Least(Hits(q)) <= 1 /\ Least(Hits(q)) >= 1 /\ Least(Hits(q)) \in Nat
        BY <1>0, <2>1, <3>1
      <3> QED
        BY <3>2
    <2> QED
      BY <1>0, <1>1, <2>1, <2>2 DEF FirstFound
  <1>2. CASE table[Head(q)] = None
    <2>1. \A i \in Nat : i \in Hits(Tail(q)) <=> i + 1 \in Hits(q)
      BY <1>0, <1>2
    <2>2. \A i \in Hits(q) : i \in Nat /\ i - 1 \in Nat /\ i - 1 \in Hits(Tail(q))
      BY <1>0, <1>2
    <2>3. Hits(Tail(q)) \subseteq Nat
      BY <1>0
    <2>4. CASE Hits(q) = {}
      <3>1. Hits(Tail(q)) = {}
        BY <2>1, <2>3, <2>4
      <3> QED
        BY <2>4, <3>1 DEF FirstFound
    <2>5. CASE Hits(q) /= {}
      <3>1. Hits(Tail(q)) /= {} /\ Hits(q) \in SUBSET Nat
        BY <2>2, <2>5
      <3>2. \E m \in Hits(q) : \A j \in Hits(q) : m <= j
        BY <2>5, <3>1, SmallestExists
      <3>3. \E m \in Hits(Tail(q)) : \A j \in Hits(Tail(q)) : m <= j
        BY <2>3, <3>1, SmallestExists
      <3> DEFINE m == Least(Hits(q))
                 n == Least(Hits(Tail(q)))
      <3>4. m \in Hits(q) /\ \A j \in Hits(q) : m <= j
        BY <3>2
      <3>5. n \in Hits(Tail(q)) /\ \A j \in Hits(Tail(q)) : n <= j
        BY <3>3
      <3> HIDE DEF m, n
      <3>6. n + 1 \in Hits(q) /\ n \in Nat
        BY <2>1, <2>3, <3>5
      <3>7. m - 1 \in Hits(Tail(q)) /\ m \in Nat
        BY <2>2, <3>4
      <3>8. m <= n + 1
        BY <3>4, <3>6
      <3>9. n <= m - 1
        BY <3>5, <3>7
      <3>10. m = n + 1
        BY <3>6, <3>7, <3>8, <3>9
      <3>11. Tail(q)[n] = q[m]
        BY <1>0, <3>5, <3>10
      <3>12. FirstFound(table, q) = table[q[m]]
        BY <2>5 DEF FirstFound, m
      <3>13. FirstFound(table, Tail(q)) = table[Tail(q)[n]]
        BY <3>1 DEF FirstFound, n
      <3> QED
        BY <1>2, <3>11, <3>12, <3>13
    <2> QED
      BY <1>2, <2>4, <2>5
  <1> QED
    BY <1>1, <1>2

\* Why an answer may be an exception, of every behaviour.
RaisedInv ==
  /\ \A t \in Thread : toRead[t] \subseteq disk
  /\ \A t \in Thread : pc[t] = "raised" =>
       IF kind = "relay_models" THEN disk \cap Raising /= {} ELSE disk /= Packaged

\* Where a thread is while nothing has been imported: only mms_tables' loader
\* works on the table itself, and alone.
ColdThread(t) ==
  /\ pc[t] \notin {"invalidate", "clear", "raised"}
  /\ pc[t] \in {"mark", "read"} \cup Asking => index = Shipped
  /\ pc[t] \in {"read"} \cup Asking /\ kind /= "relay_models" => marked
  /\ pc[t] \in Asking => t \in live
  /\ pc[t] = "newest" => Shipped[Head(asked[t])] = None
  /\ pc[t] = "max" => Shipped[Head(asked[t])] = None /\ begun[t] = GroupsOf(Shipped)
  /\ kind = "mms_map" /\ pc[t] = "reading" =>
       /\ ~marked /\ index = Table(Packaged \ toRead[t])
       /\ \A f \in Packaged \ toRead[t] : \A g \in toRead[t] : Rank[f] <= Rank[g]
\* How far its lookup has come.
Right(t) == result[t] = Answered(Shipped, asked[t])
ColdLookup(t) ==
  /\ pc[t] \in {"idle", "load", "reading", "mark"} => result[t] = None
  /\ pc[t] \in {"load", "reading", "mark"} => asked[t] \in Queries
  /\ pc[t] \in {"load", "reading", "mark"} \cup Asking => query[t] = asked[t]
  /\ pc[t] = "read" =>
       IF query[t] = <<>> THEN Right(t)
       ELSE /\ result[t] = None
            /\ IF kind = "mms_map" THEN query[t] = asked[t]
               ELSE FirstFound(Shipped, query[t]) = FirstFound(Shipped, asked[t])
  /\ pc[t] = "answered" => Right(t)
ColdTable ==
  /\ marked => index = Shipped
  /\ kind = "mms_map" /\ ~marked /\ (\A t \in Thread : pc[t] /= "reading") =>
       index = NoTable
ColdInv ==
  disk = Packaged => ColdTable /\ \A t \in Thread : ColdThread(t) /\ ColdLookup(t)

LEMMA NextRaisedInv ==
  ASSUME TypeInv, MmsInv, WholeInv, RaisedInv, ColdInv, [Next]_vars
  PROVE  RaisedInv'
  <1> USE DEF Goto, registry, callers, history, groups
  <1>0. /\ kind' = kind /\ disk \subseteq disk' /\ Packaged \subseteq disk
        /\ \E P : pc \in [Thread -> P]
        /\ toRead \in [Thread -> SUBSET File] /\ Raising \subseteq File \ Packaged
    BY FileAssumption
    DEF Next, Step, Lookup, Import, Loaded, BeginLoad, ReadFile, LoadRaises,
        Publish, PublishIndex, Mark, Read, ReadRaises, GetGroups, AskedGroup, NewestBegins,
        NewestEnds, NewestRaises, Answer,
        Return, Invalidate, Unmark, Clear, vars, WholeInv, TypeInv, RegTypeOK
  <1>1. ASSUME \A u \in Thread : toRead'[u] \subseteq disk,
               \A u \in Thread : pc'[u] = "raised" => pc[u] = "raised"
        PROVE  RaisedInv'
    <2>1. \A u \in Thread : toRead'[u] \subseteq disk'
      BY <1>0, <1>1
    <2>2. disk \cap Raising /= {} => disk' \cap Raising /= {}
      BY <1>0
    <2>3. disk /= Packaged => disk' /= Packaged
      BY <1>0
    <2> QED
      BY <1>0, <1>1, <2>1, <2>2, <2>3 DEF RaisedInv
  <1>2. ASSUME NEW t \in Thread, LoadRaises(t) PROVE RaisedInv'
    <2> DEFINE f == FirstOf(toRead[t])
    <2>1. f \in toRead[t] /\ f \in Raising /\ kind /= "wordbits" /\ disk' = disk
      BY <1>0, <1>2, FirstOfIsFirst DEF LoadRaises, Bad
    <2>2. f \in disk \cap Raising /\ disk /= Packaged
      BY <1>0, <2>1 DEF RaisedInv
    <2>3. \A u \in Thread : toRead'[u] \subseteq toRead[u]
      BY <1>0, <1>2 DEF LoadRaises
    <2> QED
      BY <1>0, <2>1, <2>2, <2>3 DEF RaisedInv
  <1>3. ASSUME NEW t \in Thread, ReadRaises(t) PROVE RaisedInv'
    <2>1. kind = "wordbits" /\ ~marked /\ pc[t] = "read" /\ disk' = disk /\ toRead' = toRead
      BY <1>3 DEF ReadRaises
    <2>2. disk /= Packaged
      BY <2>1 DEF ColdInv, ColdThread
    <2> QED
      BY <1>0, <2>1, <2>2 DEF RaisedInv
  <1>7. ASSUME NEW t \in Thread, NewestRaises(t) PROVE RaisedInv'
    <2>1. /\ pc[t] = "max" /\ GroupsOf(Held(t)) /= begun[t] /\ disk' = disk
          /\ toRead' = toRead
      BY <1>7 DEF NewestRaises
    <2>2. disk /= Packaged
      BY <2>1 DEF ColdInv, ColdThread, Asking, Held
    <2>3. kind /= "relay_models"
      BY <2>1 DEF TypeInv, AskingInv, Asking
    <2> QED
      BY <1>0, <2>1, <2>2, <2>3 DEF RaisedInv
  <1>4. ASSUME NEW t \in Thread, BeginLoad(t) \/ ReadFile(t) PROVE RaisedInv'
    <2>1. /\ \A u \in Thread : toRead'[u] \subseteq disk
          /\ \A u \in Thread : pc'[u] = "raised" => pc[u] = "raised"
      BY <1>0, <1>4 DEF BeginLoad, ReadFile, RaisedInv
    <2> QED
      BY <1>1, <2>1
  <1>5. ASSUME NEW t \in Thread,
               \/ (\E q \in Queries : Lookup(t, q)) \/ (\E f \in File \ Packaged : Import(t, f))
               \/ Loaded(t) \/ Publish(t) \/ PublishIndex(t) \/ Mark(t) \/ Read(t)
               \/ GetGroups(t) \/ AskedGroup(t) \/ NewestBegins(t) \/ NewestEnds(t)
               \/ Answer(t) \/ Return(t) \/ Invalidate(t) \/ Unmark(t) \/ Clear(t)
        PROVE RaisedInv'
    <2>1. toRead' = toRead
      BY <1>5
      DEF Lookup, Import, Loaded, Publish, PublishIndex, Mark, Read, GetGroups, AskedGroup,
          NewestBegins, NewestEnds, Give, Answer, Return, Invalidate, Unmark, Clear
    <2>2. \A u \in Thread : pc'[u] = "raised" => pc[u] = "raised"
      BY <1>0, <1>5
      DEF Lookup, Import, Loaded, Publish, PublishIndex, Mark, Read, GetGroups, AskedGroup,
          NewestBegins, NewestEnds, Give, Answer, Return, Invalidate, Unmark, Clear
    <2> QED
      BY <1>1, <2>1, <2>2 DEF RaisedInv
  <1>6. CASE UNCHANGED vars
    BY <1>1, <1>6 DEF vars, RaisedInv
  <1> QED
    BY <1>2, <1>3, <1>4, <1>5, <1>6, <1>7 DEF Next, Step

LEMMA RightLater ==
  ASSUME NEW t, kind' = kind
  PROVE  Right(t)' <=> result'[t] = Answered(Shipped, asked'[t])
  BY DEF Right, Answered, Shipped, Table, GroupsOf, FirstFound, Newest

\* A thread that does not move, while another one does.
LEMMA ColdOther ==
  ASSUME NEW u, kind' = kind, pc'[u] = pc[u], query'[u] = query[u], asked'[u] = asked[u],
         result'[u] = result[u], toRead'[u] = toRead[u], begun'[u] = begun[u],
         u \in live => u \in live', ColdThread(u), ColdLookup(u),
         \/ index' = index /\ marked' = marked
         \/ /\ ~(kind = "mms_map" /\ pc[u] = "reading")
            /\ pc[u] \in {"mark", "read"} \cup Asking => index' = Shipped
            /\ marked => marked'
  PROVE  ColdThread(u)' /\ ColdLookup(u)'
  <1>1. ColdThread(u)'
    <2>1. /\ pc'[u] \in {"mark", "read"} \cup Asking => index' = Shipped
          /\ pc'[u] \in {"read"} \cup Asking /\ kind' /= "relay_models" => marked'
          /\ pc'[u] \in Asking => u \in live'
      BY DEF ColdThread
    <2>2. /\ pc'[u] = "newest" => Shipped[Head(asked'[u])] = None
          /\ pc'[u] = "max" => Shipped[Head(asked'[u])] = None /\ begun'[u] = GroupsOf(Shipped)
      BY DEF ColdThread
    <2>3. kind' = "mms_map" /\ pc'[u] = "reading" =>
            /\ ~marked' /\ index' = Table(Packaged \ toRead'[u])
            /\ \A f \in Packaged \ toRead'[u] : \A g \in toRead'[u] : Rank[f] <= Rank[g]
      BY DEF ColdThread
    <2>4. pc'[u] \notin {"invalidate", "clear", "raised"}
      BY DEF ColdThread
    <2> QED
      BY <2>1, <2>2, <2>3, <2>4 DEF ColdThread, Shipped, Asking
  <1>2. ColdLookup(u)'
    <2>1. Right(u) => Right(u)'
      BY RightLater DEF Right
    <2> QED
      BY <2>1 DEF ColdLookup, Asking, Shipped, Table
  <1> QED
    BY <1>1, <1>2

\* Nothing imported: the table a load has when it has read its whole listing.
LEMMA ColdLoadEnds ==
  ASSUME TypeInv, MmsInv, WholeInv, RaisedInv, ColdInv, disk = Packaged,
         NEW t \in Thread, pc[t] = "reading", toRead[t] = {}
  PROVE  (IF kind = "mms_map" THEN index ELSE mine[t]) = Shipped
  <1>1. Packaged \ toRead[t] = Packaged
    OBVIOUS
  <1>2. CASE kind = "mms_map"
    BY <1>1, <1>2 DEF ColdInv, ColdThread, Shipped
  <1>3. CASE kind /= "mms_map"
    <2>1. PICK L \in SUBSET File : Listing(t, L)
      BY <1>3 DEF WholeInv, OwnInv
    <2>2. L = Packaged
      BY <2>1 DEF Listing
    <2> QED
      BY <1>1, <1>3, <2>1, <2>2 DEF Listing, Shipped
  <1> QED
    BY <1>2, <1>3

LEMMA NextColdInv ==
  ASSUME TypeInv, MmsInv, WholeInv, RaisedInv, ColdInv, [Next]_vars
  PROVE  ColdInv'
  <1> USE DEF Goto, registry, callers, history, groups
  <1>0. kind' = kind /\ disk \subseteq disk' /\ Packaged \subseteq disk
    BY DEF Next, Step, Lookup, Import, Loaded, BeginLoad, ReadFile, LoadRaises,
           Publish, PublishIndex, Mark, Read, ReadRaises, GetGroups, AskedGroup,
           NewestBegins, NewestEnds, NewestRaises, Answer,
           Return, Invalidate, Unmark, Clear, vars, WholeInv
  <1> DEFINE Cold(u) == ColdThread(u) /\ ColdLookup(u)
  <1> SUFFICES ASSUME disk' = Packaged
               PROVE  ColdTable' /\ \A u \in Thread : ColdThread(u)' /\ ColdLookup(u)'
    BY DEF ColdInv
  <1>1. disk = Packaged /\ ColdTable /\ \A u \in Thread : Cold(u)
    BY <1>0 DEF ColdInv
  <1>2. /\ \E P : pc \in [Thread -> P]
        /\ query \in [Thread -> Seq(Key)] /\ asked \in [Thread -> Seq(Key)]
        /\ toRead \in [Thread -> SUBSET File] /\ result \in [Thread -> File \cup {None}]
        /\ marked \in BOOLEAN /\ kind \in Kinds /\ live \in SUBSET Thread
        /\ begun \in [Thread -> SUBSET Key] /\ AskingInv
    BY DEF TypeInv, RegTypeOK
  <1>20. Answered(Shipped, <<>>) = None \/ <<>> \notin Queries
    BY <1>2, FileAssumption DEF Answered, FirstFound
  <1> DEFINE Still(t) == \A u \in Thread \ {t} :
               /\ pc'[u] = pc[u] /\ query'[u] = query[u] /\ asked'[u] = asked[u]
               /\ result'[u] = result[u] /\ toRead'[u] = toRead[u]
               /\ begun'[u] = begun[u] /\ (u \in live => u \in live')
  \* A step that leaves the table alone.
  <1>3. ASSUME NEW t \in Thread, Still(t), index' = index, marked' = marked,
               kind /= "mms_map" \/ pc[t] /= "reading" \/ pc'[t] = "reading",
               ColdThread(t)', ColdLookup(t)'
        PROVE  ColdTable' /\ \A u \in Thread : ColdThread(u)' /\ ColdLookup(u)'
    <2>1. ASSUME NEW u \in Thread, u /= t PROVE ColdThread(u)' /\ ColdLookup(u)'
      BY <1>0, <1>1, <1>3, <2>1, ColdOther
    <2>2. ColdTable'
      <3>1. (marked => index = Shipped)'
        BY <1>1, <1>3 DEF ColdTable, Shipped, Table
      <3>2. ASSUME kind = "mms_map", ~marked, \A u \in Thread : pc'[u] /= "reading"
            PROVE  index = NoTable
        BY <1>1, <1>3, <3>2 DEF ColdTable
      <3> QED
        BY <1>0, <1>3, <3>1, <3>2 DEF ColdTable, NoTable
    <2> QED
      BY <1>3, <2>1, <2>2
  <1>4. ASSUME NEW t \in Thread, NEW q \in Queries, Lookup(t, q)
        PROVE  ColdTable' /\ \A u \in Thread : ColdThread(u)' /\ ColdLookup(u)'
    <2>1. Still(t) /\ index' = index /\ marked' = marked /\ pc[t] = "idle"
      BY <1>2, <1>4 DEF Lookup
    <2>2. /\ pc'[t] = "load" /\ query'[t] = q /\ asked'[t] = q /\ result'[t] = result[t]
      BY <1>2, <1>4 DEF Lookup
    <2>3. ColdThread(t)' /\ ColdLookup(t)'
      BY <1>1, <2>1, <2>2 DEF ColdThread, ColdLookup, Asking
    <2> QED
      BY <1>3, <2>1, <2>3
  <1>5. ASSUME NEW t \in Thread, Loaded(t)
        PROVE  ColdTable' /\ \A u \in Thread : ColdThread(u)' /\ ColdLookup(u)'
    <2>1. Still(t) /\ index' = index /\ marked' = marked /\ pc[t] = "load" /\ marked
      BY <1>2, <1>5 DEF Loaded
    <2>2. /\ pc'[t] = "read" /\ query' = query /\ asked' = asked /\ result' = result
      BY <1>2, <1>5 DEF Loaded
    <2>3. ColdThread(t)'
      BY <1>0, <1>1, <2>1, <2>2 DEF ColdThread, ColdTable, Shipped, Table, Asking
    <2>4. query[t] = asked[t] /\ result[t] = None /\ asked[t] \in Queries
      BY <1>1, <2>1 DEF ColdLookup
    <2>5. query[t] = <<>> => Answered(Shipped, asked[t]) = None
      BY <1>20, <2>4
    <2>6. ColdLookup(t)'
      BY <1>0, <2>2, <2>4, <2>5, RightLater DEF ColdLookup, Asking, Shipped, Table,
         FirstFound
    <2> QED
      BY <1>3, <2>1, <2>3, <2>6
  <1>6. ASSUME NEW t \in Thread, BeginLoad(t)
        PROVE  ColdTable' /\ \A u \in Thread : ColdThread(u)' /\ ColdLookup(u)'
    <2>1. Still(t) /\ index' = index /\ marked' = marked /\ pc[t] = "load" /\ ~marked
      BY <1>2, <1>6 DEF BeginLoad
    <2>2. /\ pc'[t] = "reading" /\ query' = query /\ asked' = asked /\ result' = result
          /\ toRead'[t] = Packaged
      BY <1>1, <1>2, <1>6 DEF BeginLoad
    <2>3. ASSUME kind = "mms_map" PROVE index = NoTable
      <3>1. lock = None /\ \A u \in Thread : u /= None
        BY <1>6, <2>3, FileAssumption DEF BeginLoad, LockFree
      <3>2. \A u \in Thread : pc[u] /= "reading"
        BY <2>3, <3>1 DEF MmsInv, TableInv, LockInv
      <3> QED
        BY <1>1, <2>1, <2>3, <3>2 DEF ColdTable
    <2>4. Packaged \ toRead'[t] = {}
      BY <2>2
    <2>5. ColdThread(t)'
      BY <1>0, <2>1, <2>2, <2>3, <2>4, TableOfNone DEF ColdThread, Table, Asking
    <2>6. ColdLookup(t)'
      BY <1>1, <2>1, <2>2 DEF ColdLookup, Asking
    <2> QED
      BY <1>3, <2>1, <2>2, <2>5, <2>6
  <1>7. ASSUME NEW t \in Thread, ReadFile(t), kind /= "mms_map"
        PROVE  ColdTable' /\ \A u \in Thread : ColdThread(u)' /\ ColdLookup(u)'
    <2>1. Still(t) /\ index' = index /\ marked' = marked /\ pc[t] = "reading"
      BY <1>2, <1>7 DEF ReadFile
    <2>2. pc' = pc /\ query' = query /\ asked' = asked /\ result' = result
      BY <1>7 DEF ReadFile
    <2>3. ColdThread(t)' /\ ColdLookup(t)'
      BY <1>0, <1>1, <1>7, <2>1, <2>2 DEF ColdThread, ColdLookup, Asking
    <2> QED
      BY <1>3, <2>1, <2>3, <1>7
  \* mms_tables works on the table itself, which nobody reads meanwhile.
  <1>8. ASSUME NEW t \in Thread, ReadFile(t), kind = "mms_map"
        PROVE  ColdTable' /\ \A u \in Thread : ColdThread(u)' /\ ColdLookup(u)'
    <2> DEFINE f == FirstOf(toRead[t])
    <2>1. Still(t) /\ index' = Merge(index, f) /\ marked' = marked /\ pc[t] = "reading"
      BY <1>2, <1>8 DEF ReadFile
    <2>2. /\ pc' = pc /\ query' = query /\ asked' = asked /\ result' = result
          /\ toRead'[t] = toRead[t] \ {f} /\ toRead[t] /= {}
      BY <1>2, <1>8 DEF ReadFile
    <2>3. f \in toRead[t] /\ f \in File /\ f \in Packaged
          /\ \A g \in toRead[t] : Rank[f] <= Rank[g]
      BY <1>1, <1>2, <2>2, FirstOfIsFirst DEF RaisedInv
    <2>4. /\ ~marked /\ index = Table(Packaged \ toRead[t])
          /\ \A g \in Packaged \ toRead[t] : \A h \in toRead[t] : Rank[g] <= Rank[h]
      BY <1>1, <1>8, <2>1 DEF ColdThread
    <2> HIDE DEF f
    <2>5. Packaged \ toRead'[t] = (Packaged \ toRead[t]) \cup {f}
      BY <2>2, <2>3
    <2>6. index' = Table(Packaged \ toRead'[t])
      <3>1. Packaged \ toRead[t] \in SUBSET File
        BY FileAssumption
      <3>2. \A g \in Packaged \ toRead[t] : Rank[g] <= Rank[f]
        BY <2>3, <2>4
      <3> QED
        BY <2>1, <2>3, <2>4, <2>5, <3>1, <3>2, MergeMakesTable
    <2>7. \A g \in Packaged \ toRead'[t] : \A h \in toRead'[t] : Rank[g] <= Rank[h]
      BY <2>2, <2>3, <2>4, <2>5
    <2>8. ColdThread(t)' /\ ColdLookup(t)'
      <3>1. ColdThread(t)'
        BY <1>0, <2>1, <2>2, <2>4, <2>6, <2>7 DEF ColdThread, Table, Asking
      <3>2. ColdLookup(t)'
        BY <1>1, <2>1, <2>2 DEF ColdLookup, Asking
      <3> QED
        BY <3>1, <3>2
    <2>9. ASSUME NEW u \in Thread, u /= t PROVE ColdThread(u)' /\ ColdLookup(u)'
      <3>1. pc[u] /= "reading"
        BY <1>8, <2>1, <2>9 DEF MmsInv, TableInv, LockInv
      <3>2. pc[u] \notin {"mark", "read"} \cup Asking
        BY <1>1, <1>8, <2>4 DEF ColdThread, MmsInv, TableInv, PlaceInv
      <3> QED
        BY <1>0, <1>1, <2>1, <2>9, <3>1, <3>2, ColdOther
    <2>10. ColdTable'
      BY <2>1, <2>2, <2>4 DEF ColdTable
    <2> QED
      BY <2>8, <2>9, <2>10
  <1>9. ASSUME NEW t \in Thread, LoadRaises(t) PROVE FALSE
    <2>1. toRead[t] \in SUBSET File /\ toRead[t] /= {} /\ FirstOf(toRead[t]) \in Raising
      BY <1>2, <1>9 DEF LoadRaises, Bad
    <2>2. FirstOf(toRead[t]) \in Packaged
      BY <1>1, <2>1, FirstOfIsFirst DEF RaisedInv
    <2> QED
      BY <2>1, <2>2, FileAssumption
  <1>10. ASSUME NEW t \in Thread, Publish(t) \/ PublishIndex(t)
         PROVE  ColdTable' /\ \A u \in Thread : ColdThread(u)' /\ ColdLookup(u)'
    <2>1. /\ pc[t] = "reading" /\ toRead[t] = {} /\ Still(t)
          /\ index' = IF kind = "mms_map" THEN index ELSE mine[t]
          /\ marked => marked'
          /\ query' = query /\ asked' = asked /\ result' = result
      BY <1>2, <1>10 DEF Publish, PublishIndex, MarkNow
    <2>2. index' = Shipped
      BY <1>1, <2>1, ColdLoadEnds
    <2>3. \/ pc'[t] = "read" /\ marked'
          \/ kind = "relay_models" /\ pc'[t] = "mark"
      BY <1>2, <1>10 DEF Publish, PublishIndex, MarkNow
    <2>4. ColdThread(t)'
      BY <1>0, <2>2, <2>3 DEF ColdThread, Shipped, Table, Asking
    <2>5. query[t] = asked[t] /\ result[t] = None /\ asked[t] \in Queries
      BY <1>1, <2>1 DEF ColdLookup
    <2>6. query[t] = <<>> => Answered(Shipped, asked[t]) = None
      BY <1>20, <2>5
    <2>7. ColdLookup(t)'
      BY <1>0, <2>1, <2>3, <2>5, <2>6, RightLater
      DEF ColdLookup, Asking, Shipped, Table
    <2>8. ASSUME NEW u \in Thread, u /= t PROVE ColdThread(u)' /\ ColdLookup(u)'
      <3>1. ~(kind = "mms_map" /\ pc[u] = "reading")
        BY <2>1, <2>8 DEF MmsInv, TableInv, LockInv
      <3> QED
        BY <1>0, <1>1, <2>1, <2>2, <2>8, <3>1, ColdOther
    <2>9. ColdTable'
      BY <1>0, <2>2, <2>3 DEF ColdTable, Shipped, Table
    <2> QED
      BY <2>4, <2>7, <2>8, <2>9
  <1>11. ASSUME NEW t \in Thread, Mark(t)
         PROVE  ColdTable' /\ \A u \in Thread : ColdThread(u)' /\ ColdLookup(u)'
    <2>1. /\ pc[t] = "mark" /\ pc'[t] = "read" /\ marked' /\ Still(t) /\ index' = index
          /\ query' = query /\ asked' = asked /\ result' = result
      BY <1>2, <1>11 DEF Mark, MarkNow
    <2>2. kind /= "mms_map"
      BY <2>1 DEF MmsInv, TableInv, PlaceInv
    <2>3. index = Shipped
      BY <1>1, <2>1 DEF ColdThread
    <2>4. ColdThread(t)'
      BY <1>0, <2>1, <2>2, <2>3 DEF ColdThread, Shipped, Table, Asking
    <2>5. query[t] = asked[t] /\ result[t] = None /\ asked[t] \in Queries
      BY <1>1, <2>1 DEF ColdLookup
    <2>6. query[t] = <<>> => Answered(Shipped, asked[t]) = None
      BY <1>20, <2>5
    <2>7. ColdLookup(t)'
      BY <1>0, <2>1, <2>5, <2>6, RightLater
      DEF ColdLookup, Asking, Shipped, Table
    <2>8. ASSUME NEW u \in Thread, u /= t PROVE ColdThread(u)' /\ ColdLookup(u)'
      BY <1>0, <1>1, <2>1, <2>2, <2>3, <2>8, ColdOther
    <2>9. ColdTable'
      BY <1>0, <2>1, <2>2, <2>3 DEF ColdTable, Shipped, Table
    <2> QED
      BY <2>4, <2>7, <2>8, <2>9
  <1>12. ASSUME NEW t \in Thread, Read(t)
         PROVE  ColdTable' /\ \A u \in Thread : ColdThread(u)' /\ ColdLookup(u)'
    <2> DEFINE q == query[t]
    <2>1. /\ pc[t] = "read" /\ pc' = pc /\ Still(t) /\ index' = index /\ marked' = marked
          /\ asked' = asked /\ q /= <<>> /\ q \in Seq(Key) /\ kind /= "mms_map"
      BY <1>2, <1>12 DEF Read
    <2>2. index = Shipped /\ FirstFound(Shipped, q) = FirstFound(Shipped, asked[t])
      BY <1>1, <2>1 DEF ColdThread, ColdLookup
    <2>3. /\ result'[t] = Shipped[Head(q)]
          /\ query'[t] = IF Shipped[Head(q)] = None THEN Tail(q) ELSE <<>>
      BY <1>2, <1>12, <2>2 DEF Read
    <2>4. FirstFound(Shipped, <<>>) = None
      BY DEF FirstFound
    <2> HIDE DEF q
    <2>5. /\ Shipped[Head(q)] /= None => FirstFound(Shipped, q) = Shipped[Head(q)]
          /\ Shipped[Head(q)] = None => FirstFound(Shipped, q) = FirstFound(Shipped, Tail(q))
      BY <2>1, FirstFoundSkips
    <2>6. /\ FirstFound(Shipped, query'[t]) = FirstFound(Shipped, asked[t]) \/ query'[t] = <<>>
          /\ query'[t] = <<>> => result'[t] = FirstFound(Shipped, asked[t])
      BY <2>2, <2>3, <2>4, <2>5
    <2>7. ColdLookup(t)'
      <3>1. query'[t] = <<>> => Right(t)'
        BY <1>0, <2>1, <2>6, RightLater DEF Answered
      <3>2. query'[t] /= <<>> => result'[t] = None
        BY <2>3
      <3> QED
        BY <1>0, <2>1, <2>6, <3>1, <3>2 DEF ColdLookup, Asking, Shipped, Table
    <2>8. ColdThread(t)'
      BY <1>0, <1>1, <2>1, <2>2 DEF ColdThread, Shipped, Table, Asking
    <2> QED
      BY <1>3, <2>1, <2>7, <2>8
  \* mms_tables' groups: nobody changes the dict, nor takes it away.
  <1>21. ASSUME NEW t \in Thread, GetGroups(t)
         PROVE  ColdTable' /\ \A u \in Thread : ColdThread(u)' /\ ColdLookup(u)'
    <2>1. /\ pc[t] = "read" /\ query[t] /= <<>> /\ kind = "mms_map" /\ Still(t)
          /\ UNCHANGED <<index, marked, asked, result, begun>>
      BY <1>2, <1>21 DEF GetGroups
    <2>2. index = Shipped /\ marked /\ query[t] = asked[t]
      BY <1>1, <2>1 DEF ColdThread, ColdLookup
    <2>3. CASE index = NoTable
      <3>1. pc' = pc /\ query'[t] = <<>>
        BY <1>2, <1>21, <2>3 DEF GetGroups
      <3>2. Answered(Shipped, asked[t]) = None
        <4>1. GroupsOf(Shipped) = {}
          BY <2>2, <2>3 DEF GroupsOf, NoTable
        <4> QED
          BY <2>1, <4>1 DEF Answered
      <3>3. result[t] = None
        BY <2>1, <1>1 DEF ColdLookup
      <3>4. ColdLookup(t)' /\ ColdThread(t)'
        BY <1>0, <2>1, <2>2, <3>1, <3>2, <3>3, RightLater
        DEF ColdLookup, ColdThread, Asking, Shipped, Table
      <3> QED
        BY <1>3, <2>1, <3>1, <3>4
    <2>4. CASE index /= NoTable
      <3>1. pc'[t] = "groups" /\ query' = query /\ t \in live'
        BY <1>2, <1>21, <2>4 DEF GetGroups
      <3>2. ColdLookup(t)' /\ ColdThread(t)'
        BY <1>0, <2>1, <2>2, <3>1 DEF ColdLookup, ColdThread, Asking, Shipped, Table
      <3> QED
        BY <1>3, <2>1, <3>1, <3>2
    <2> QED
      BY <2>3, <2>4
  <1>22. ASSUME NEW t \in Thread, pc[t] \in Asking, NEW f, Give(t, f),
                f = Answered(Shipped, asked[t]),
                UNCHANGED <<index, marked, asked, toRead>>
         PROVE  ColdTable' /\ \A u \in Thread : ColdThread(u)' /\ ColdLookup(u)'
    <2>1. /\ Still(t) /\ pc[t] /= "reading" /\ pc'[t] = "read" /\ query'[t] = <<>>
          /\ result'[t] = f
      BY <1>2, <1>22 DEF Give, LetGo, Asking
    <2>2. index = Shipped /\ (kind /= "relay_models" => marked)
      BY <1>1, <1>22 DEF ColdThread
    <2>3. ColdThread(t)'
      BY <1>0, <1>22, <2>1, <2>2 DEF ColdThread, Asking, Shipped, Table
    <2>4. Right(t)'
      BY <1>0, <1>22, <2>1, RightLater
    <2>5. ColdLookup(t)'
      BY <2>1, <2>4 DEF ColdLookup, Asking
    <2> QED
      BY <1>3, <1>22, <2>1, <2>3, <2>5
  <1>23. ASSUME NEW t \in Thread, pc[t] \in Asking
         PROVE  /\ Held(t) = Shipped /\ query[t] = asked[t] /\ GroupsOf(Shipped) /= {}
                /\ kind = "mms_map"
    <2>1. t \in live /\ index = Shipped /\ query[t] = asked[t]
      BY <1>1, <1>23 DEF ColdThread, ColdLookup
    <2> QED
      BY <1>2, <1>23, <2>1 DEF AskingInv, Held
  <1>24. ASSUME NEW t \in Thread, AskedGroup(t)
         PROVE  ColdTable' /\ \A u \in Thread : ColdThread(u)' /\ ColdLookup(u)'
    <2>1. pc[t] \in Asking /\ pc[t] = "groups"
      BY <1>24 DEF AskedGroup, Asking
    <2>2. /\ Held(t) = Shipped /\ query[t] = asked[t] /\ GroupsOf(Shipped) /= {}
          /\ kind = "mms_map"
      BY <1>23, <2>1
    <2>3. CASE Shipped[Head(asked[t])] /= None
      <3>1. /\ Give(t, Shipped[Head(asked[t])])
            /\ UNCHANGED <<index, marked, asked, toRead>>
        BY <1>24, <2>2, <2>3 DEF AskedGroup
      <3>2. Answered(Shipped, asked[t]) = Shipped[Head(asked[t])]
        BY <2>2, <2>3 DEF Answered
      <3> QED
        BY <1>22, <2>1, <3>1, <3>2
    <2>4. CASE Shipped[Head(asked[t])] = None
      <3>1. /\ pc'[t] = "newest" /\ Still(t)
            /\ UNCHANGED <<index, marked, asked, query, live>>
        BY <1>2, <1>24, <2>2, <2>4 DEF AskedGroup
      <3>2. ColdLookup(t)' /\ ColdThread(t)'
        BY <1>0, <1>1, <2>1, <2>4, <3>1 DEF ColdLookup, ColdThread, Asking, Shipped, Table
      <3> QED
        BY <1>3, <2>1, <3>1, <3>2
    <2> QED
      BY <2>3, <2>4
  <1>25. ASSUME NEW t \in Thread, NewestBegins(t)
         PROVE  ColdTable' /\ \A u \in Thread : ColdThread(u)' /\ ColdLookup(u)'
    <2>1. pc[t] \in Asking /\ pc[t] = "newest"
      BY <1>25 DEF NewestBegins, Asking
    <2>2. /\ pc'[t] = "max" /\ Still(t) /\ begun'[t] = GroupsOf(Shipped)
          /\ UNCHANGED <<index, marked, asked, query, live>>
      BY <1>2, <1>23, <1>25, <2>1 DEF NewestBegins
    <2>3. ColdLookup(t)' /\ ColdThread(t)'
      BY <1>0, <1>1, <2>1, <2>2 DEF ColdLookup, ColdThread, Asking, Shipped, Table, GroupsOf
    <2> QED
      BY <1>3, <2>1, <2>2, <2>3
  <1>26. ASSUME NEW t \in Thread, NewestEnds(t)
         PROVE  ColdTable' /\ \A u \in Thread : ColdThread(u)' /\ ColdLookup(u)'
    <2>1. pc[t] \in Asking /\ pc[t] = "max" /\ UNCHANGED <<index, marked, asked, toRead>>
      BY <1>26 DEF NewestEnds, Asking
    <2>2. begun[t] = GroupsOf(Shipped) /\ Shipped[Head(asked[t])] = None
      BY <1>1, <2>1 DEF ColdThread
    <2>3. /\ Give(t, Shipped[Newest(GroupsOf(Shipped))])
          /\ kind = "mms_map" /\ GroupsOf(Shipped) /= {}
      BY <1>23, <1>26, <2>1, <2>2 DEF NewestEnds
    <2>4. Answered(Shipped, asked[t]) = Shipped[Newest(GroupsOf(Shipped))]
      BY <2>2, <2>3 DEF Answered
    <2> QED
      BY <1>22, <2>1, <2>3, <2>4
  <1>27. ASSUME NEW t \in Thread, NewestRaises(t) PROVE FALSE
    <2>1. pc[t] \in Asking /\ pc[t] = "max" /\ GroupsOf(Held(t)) /= begun[t]
      BY <1>27 DEF NewestRaises, Asking
    <2> QED
      BY <1>1, <1>23, <2>1 DEF ColdThread
  <1>13. ASSUME NEW t \in Thread, ReadRaises(t) PROVE FALSE
    BY <1>1, <1>13 DEF ReadRaises, ColdThread
  <1>14. ASSUME NEW t \in Thread, Answer(t) \/ Return(t)
         PROVE  ColdTable' /\ \A u \in Thread : ColdThread(u)' /\ ColdLookup(u)'
    <2>1. /\ pc[t] /= "reading" /\ pc'[t] \in {"answered", "idle"} /\ Still(t)
          /\ index' = index /\ marked' = marked
      BY <1>2, <1>14 DEF Answer, Return
    <2>2. ColdThread(t)'
      BY <2>1 DEF ColdThread, Asking
    <2>3. ASSUME Answer(t) PROVE ColdLookup(t)'
      <3>1. /\ pc[t] = "read" /\ pc'[t] = "answered" /\ query[t] = <<>>
            /\ asked' = asked /\ result' = result
        BY <1>2, <2>3 DEF Answer
      <3>2. Right(t)
        BY <1>1, <3>1 DEF ColdLookup
      <3> QED
        BY <1>0, <3>1, <3>2, RightLater DEF ColdLookup, Right, Asking
    <2>4. ASSUME Return(t) PROVE ColdLookup(t)'
      <3>1. pc'[t] = "idle" /\ result'[t] = None
        BY <1>2, <2>4 DEF Return
      <3> QED
        BY <3>1 DEF ColdLookup, Asking
    <2> QED
      BY <1>3, <1>14, <2>1, <2>2, <2>3, <2>4
  <1>15. ASSUME NEW t \in Thread, Invalidate(t) \/ Unmark(t) \/ Clear(t) PROVE FALSE
    BY <1>1, <1>15 DEF Invalidate, Unmark, Clear, ColdThread
  <1>16. ASSUME NEW t \in Thread, NEW f \in File \ Packaged, Import(t, f) PROVE FALSE
    BY <1>16 DEF Import
  <1>17. CASE UNCHANGED vars
    <2>1. UNCHANGED <<kind, index, marked, pc, query, asked, result, toRead, begun, live>>
      BY <1>17 DEF vars
    <2>2. ColdTable'
      BY <1>1, <2>1 DEF ColdTable, Shipped, Table, NoTable
    <2> QED
      BY <1>1, <2>1, <2>2, ColdOther
  <1> HIDE DEF Cold, Still
  <1> QED
    BY <1>4, <1>5, <1>6, <1>7, <1>8, <1>9, <1>10, <1>11, <1>12, <1>13, <1>14, <1>15,
       <1>16, <1>17, <1>21, <1>24, <1>25, <1>26, <1>27 DEF Next, Step

\* Until a host imports a file, any number of first lookups may race, each
\* loading the files: all are answered, with what the packaged files say.
\* relay_models raises for a file no except clause foresees and for nothing else;
\* wordbits and mms_tables for that, and for an import that empties the cache, or
\* fills the table, under a lookup.
THEOREM ColdStartsAreRight == Spec => []ColdStartIsRight
  <1> DEFINE Inv == TypeInv /\ MmsInv /\ WholeInv /\ RaisedInv /\ ColdInv
  <1>1. Init => Inv
    <2> SUFFICES ASSUME Init PROVE Inv
      OBVIOUS
    <2>1. TypeInv /\ MmsInv
      BY InitTypeInv, InitMmsInv
    <2>2. WholeInv
      BY FileAssumption DEF Init, WholeInv, OwnInv, PublishedWhole
    <2>3. RaisedInv
      BY DEF Init, RaisedInv
    <2>4. ColdInv
      BY DEF Init, ColdInv, ColdTable, ColdThread, ColdLookup, Asking
    <2> QED
      BY <2>1, <2>2, <2>3, <2>4
  <1>2. Inv /\ [Next]_vars => Inv'
    BY NextTypeInv, NextMmsInv, NextWholeInv, NextRaisedInv, NextColdInv
  <1>3. Inv => ColdStartIsRight
    BY DEF RaisedInv, ColdInv, ColdLookup, Right, ColdStartIsRight, Shipped
  <1> QED
    BY <1>1, <1>2, <1>3, PTL DEF Spec
=============================================================================
