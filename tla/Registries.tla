----------------------------- MODULE Registries -----------------------------
(***************************************************************************)
(* The three memoised registries -- models.relay_models, models.wordbits   *)
(* and scl.mms_tables -- under the threads of a server: lookup() loads the *)
(* JSON files on first use, and a host that writes a file into its overlay *)
(* calls invalidate().  They keep the same table in three ways, and differ *)
(* in what they lock and in what order they assign their globals:          *)
(*                                                                         *)
(*   relay_models  _ALIAS_INDEX, then _LOADED_FROM; no lock                *)
(*   wordbits      _CACHE, None until loaded; no lock                      *)
(*   mms_map       _CACHE filled in place, then _LOADED; load and          *)
(*                 invalidate under _LOCK, lookup outside it, from the     *)
(*                 dict of a part's groups itself                          *)
(*                                                                         *)
(* `kind` is the registry the behaviour is about; they share no state.     *)
(***************************************************************************)
EXTENDS Naturals, Sequences, FiniteSets

CONSTANTS
  Thread,
  Kinds,     \* registries to look at
  Key,       \* what an index is keyed by: models, aliases; a part's groups
  File,      \* JSON files, of the overlay and of the package
  Packaged,  \* those that ship with the package
  Rank,      \* Rank[f]: its place in the search, overlay first, then by name
  KeysOf,    \* KeysOf[f]: the keys the file defines
  Age,       \* Age[k]: a group's place from the newest, as _group_key orders
  Raising,   \* files of a shape _load_one neither reads nor catches
  Queries,   \* what is looked up: the variants of a name, in order; in
             \* mms_map the first is the group asked for, and the rest nothing
  None,
  MaxCalls   \* bound: lookups and imports begun

ASSUME FileAssumption ==
  /\ Kinds \subseteq {"relay_models", "wordbits", "mms_map"}
  /\ Packaged \subseteq File
  /\ Rank \in [File -> Nat] /\ \A f, g \in File : Rank[f] = Rank[g] => f = g
  /\ KeysOf \in [File -> SUBSET Key]
  /\ Age \in [Key -> Nat] /\ \A j, k \in Key : Age[j] = Age[k] => j = k
  /\ "mms_map" \in Kinds => \A f \in File : \A j, k \in KeysOf[f] : j = k
  /\ Raising \subseteq File \ Packaged /\ \A f \in Raising : KeysOf[f] = {}
  /\ Queries \subseteq Seq(Key) /\ ("mms_map" \in Kinds => <<>> \notin Queries)
  /\ None \notin File \cup Thread
  /\ MaxCalls \in Nat

VARIABLES
  kind,
  disk,      \* the files that are there
  index,     \* the table lookup() reads
  marked,    \* whether it counts as loaded
  lock,      \* the thread that holds mms_tables._LOCK
  pc, query, \* where each thread is, and the variants it has still to try
  mine,      \* the table it builds before it publishes it
  toRead,    \* files of its listing it has still to read
  live,      \* threads whose by_group is a dict the table still has
  held,      \* by_group, once an invalidate() let go of it
  begun,     \* the groups max() began with
  result,    \* what its lookup answers
  wrote,     \* the file each thread is importing
  calls,
  (* history *)
  imported,  \* files whose invalidate() has taken effect
  known,     \* imported, when each thread's lookup began
  asked      \* what that lookup asked

registry == <<index, marked, lock>>
history == <<imported, known, asked>>
groups == <<live, held, begun>>
callers == <<query, mine, toRead, result, wrote>>
vars == <<kind, disk, registry, groups, pc, callers, calls, history>>

NoTable == [k \in Key |-> None]
\* The next file in the order of the directories and of sorted(glob).
FirstOf(S) == CHOOSE f \in S : \A g \in S : Rank[f] <= Rank[g]
\* wordbits alone catches AttributeError, and skips such a file.
Bad(f) == f \in Raising /\ kind /= "wordbits"
\* Mutant: index[key] = wbs; the last definition stays.
MergeOver(table, f) == [k \in Key |-> IF k \in KeysOf[f] THEN f ELSE table[k]]

\* dict.setdefault for every key of a file: the first definition stays.
Merge(table, f) ==
  [k \in Key |-> IF k \in KeysOf[f] /\ table[k] = None THEN f ELSE table[k]]

Init ==
  /\ kind \in Kinds
  /\ disk = Packaged
  /\ index = NoTable /\ marked = FALSE /\ lock = None
  /\ pc = [t \in Thread |-> "idle"]
  /\ query = [t \in Thread |-> <<>>]
  /\ mine = [t \in Thread |-> NoTable]
  /\ toRead = [t \in Thread |-> {}]
  /\ live = {} /\ held = [t \in Thread |-> NoTable] /\ begun = [t \in Thread |-> {}]
  /\ result = [t \in Thread |-> None]
  /\ wrote = [t \in Thread |-> None]
  /\ calls = 0
  /\ imported = Packaged
  /\ known = [t \in Thread |-> {}]
  /\ asked = [t \in Thread |-> <<>>]

-----------------------------------------------------------------------------
(* lookup() *)

Goto(t, label) == pc' = [pc EXCEPT ![t] = label]
\* `with _LOCK`, in the one registry that has it.
LockFree == kind = "mms_map" => lock = None
MarkNow == marked' = TRUE

Lookup(t, q) ==
  /\ pc[t] = "idle" /\ calls < MaxCalls
  /\ calls' = calls + 1
  /\ query' = [query EXCEPT ![t] = q]
  /\ asked' = [asked EXCEPT ![t] = q]
  /\ known' = [known EXCEPT ![t] = imported]
  /\ Goto(t, "load")
  /\ UNCHANGED <<kind, disk, groups, registry, mine, toRead, result, wrote, imported>>

\* Mutant: a table with something in it, taken for a loaded one.
LoadedIfFilled(t) ==
  /\ pc[t] = "load" /\ (marked \/ index /= NoTable)
  /\ Goto(t, "read")
  /\ UNCHANGED <<kind, disk, groups, registry, callers, calls, history>>

\* The test at the top of the load.
Loaded(t) ==
  /\ pc[t] = "load" /\ LockFree /\ marked
  /\ Goto(t, "read")
  /\ UNCHANGED <<kind, disk, groups, registry, callers, calls, history>>

\* The listing; only the overlay, listed first, ever gets a file.
BeginLoad(t) ==
  /\ pc[t] = "load" /\ LockFree /\ ~marked
  /\ lock' = IF kind = "mms_map" THEN t ELSE lock
  /\ toRead' = [toRead EXCEPT ![t] = disk]
  /\ Goto(t, "reading")
  /\ UNCHANGED <<kind, disk, groups, index, marked, query, mine, result, wrote, calls,
                 history>>

\* Mutant: every registry filled in place.
ReadFileInPlace(t) ==
  /\ pc[t] = "reading" /\ toRead[t] /= {} /\ ~Bad(FirstOf(toRead[t]))
  /\ toRead' = [toRead EXCEPT ![t] = @ \ {FirstOf(@)}]
  /\ index' = Merge(index, FirstOf(toRead[t]))
  /\ mine' = [mine EXCEPT ![t] = Merge(@, FirstOf(toRead[t]))]
  /\ UNCHANGED <<kind, disk, groups, marked, lock, pc, query, result, wrote, calls,
                 history>>

\* One file read and merged: into a table of its own, or into the live one.
ReadFile(t) ==
  /\ pc[t] = "reading" /\ toRead[t] /= {}
  /\ LET f == FirstOf(toRead[t])
     IN  /\ ~Bad(f)
         /\ toRead' = [toRead EXCEPT ![t] = @ \ {f}]
         /\ IF kind = "mms_map"
              THEN index' = Merge(index, f) /\ UNCHANGED mine
              ELSE mine' = [mine EXCEPT ![t] = Merge(@, f)] /\ UNCHANGED index
  /\ UNCHANGED <<kind, disk, groups, marked, lock, pc, query, result, wrote, calls,
                 history>>

\* Mutant: acquire() and release(), the release not in a finally.
LoadRaisesHolding(t) ==
  /\ pc[t] = "reading" /\ toRead[t] /= {}
  /\ Bad(FirstOf(toRead[t]))
  /\ toRead' = [toRead EXCEPT ![t] = {}]
  /\ mine' = [mine EXCEPT ![t] = NoTable]
  /\ query' = [query EXCEPT ![t] = <<>>]
  /\ Goto(t, "raised")
  /\ UNCHANGED <<kind, disk, groups, registry, result, wrote, calls, history>>

\* The exception leaves the loop, the lock if there is one, and lookup().
LoadRaises(t) ==
  /\ pc[t] = "reading" /\ toRead[t] /= {}
  /\ Bad(FirstOf(toRead[t]))
  /\ toRead' = [toRead EXCEPT ![t] = {}]
  /\ mine' = [mine EXCEPT ![t] = NoTable]
  /\ query' = [query EXCEPT ![t] = <<>>]
  /\ lock' = None
  /\ Goto(t, "raised")
  /\ UNCHANGED <<kind, disk, groups, index, marked, result, wrote, calls, history>>

\* wordbits: _CACHE = _load_all().  mms_map: _LOADED = True, the lock let go.
Publish(t) ==
  /\ pc[t] = "reading" /\ toRead[t] = {}
  /\ kind /= "relay_models"
  /\ index' = IF kind = "mms_map" THEN index ELSE mine[t]
  /\ MarkNow
  /\ lock' = None
  /\ mine' = [mine EXCEPT ![t] = NoTable]
  /\ Goto(t, "read")
  /\ UNCHANGED <<kind, disk, groups, query, toRead, result, wrote, calls, history>>

\* relay_models: _CACHE and _ALIAS_INDEX ...
PublishIndex(t) ==
  /\ pc[t] = "reading" /\ toRead[t] = {}
  /\ kind = "relay_models"
  /\ index' = mine[t]
  /\ mine' = [mine EXCEPT ![t] = NoTable]
  /\ Goto(t, "mark")
  /\ UNCHANGED <<kind, disk, groups, marked, lock, query, toRead, result, wrote, calls,
                 history>>

\* ... then _LOADED_FROM.
Mark(t) ==
  /\ pc[t] = "mark"
  /\ MarkNow
  /\ Goto(t, "read")
  /\ UNCHANGED <<kind, disk, groups, index, lock, callers, calls, history>>

\* relay_models, wordbits: the global is read again for each variant.
Read(t) ==
  /\ pc[t] = "read" /\ query[t] /= <<>>
  /\ kind \in {"relay_models", "wordbits"}
  /\ kind = "wordbits" => marked
  /\ LET found == index[Head(query[t])]
     IN  /\ result' = [result EXCEPT ![t] = found]
         /\ query' = [query EXCEPT ![t] = IF found = None THEN Tail(@) ELSE <<>>]
  /\ UNCHANGED <<kind, disk, groups, registry, pc, mine, toRead, wrote, calls, history>>

\* wordbits: None.get raises AttributeError.
ReadRaises(t) ==
  /\ pc[t] = "read" /\ query[t] /= <<>>
  /\ kind = "wordbits" /\ ~marked
  /\ query' = [query EXCEPT ![t] = <<>>]
  /\ Goto(t, "raised")
  /\ UNCHANGED <<kind, disk, groups, registry, mine, toRead, result, wrote, calls, history>>

\* The first of the names in q that the table has.
FirstFound(table, q) ==
  LET hits == {i \in DOMAIN q : table[q[i]] /= None}
  IN  IF hits = {} THEN None ELSE table[q[CHOOSE i \in hits : \A j \in hits : i <= j]]

GroupsOf(table) == {k \in Key : table[k] /= None}
\* max(by_group, key=_group_key)
Newest(S) == CHOOSE k \in S : \A j \in S : Age[k] <= Age[j]
\* What t has as by_group: a dict that loads go on filling, until a clear().
Held(t) == IF t \in live THEN index ELSE held[t]
LetGo(t) ==
  /\ live' = live \ {t}
  /\ held' = [held EXCEPT ![t] = NoTable]
  /\ begun' = [begun EXCEPT ![t] = {}]

\* mms_map: _load().get(part), and `if not by_group`.
GetGroups(t) ==
  /\ pc[t] = "read" /\ query[t] /= <<>> /\ kind = "mms_map"
  /\ \/ /\ index = NoTable
        /\ query' = [query EXCEPT ![t] = <<>>]
        /\ UNCHANGED <<pc, live>>
     \/ /\ index /= NoTable
        /\ live' = live \cup {t}
        /\ Goto(t, "groups")
        /\ UNCHANGED query
  /\ UNCHANGED <<kind, disk, registry, held, begun, mine, toRead, result, wrote, calls,
                 history>>

Give(t, table) ==
  /\ result' = [result EXCEPT ![t] = table]
  /\ query' = [query EXCEPT ![t] = <<>>]
  /\ LetGo(t)
  /\ Goto(t, "read")

\* The group asked for, when the part has it.
AskedGroup(t) ==
  /\ pc[t] = "groups"
  /\ LET found == Held(t)[Head(query[t])]
     IN  IF found /= None THEN Give(t, found)
         ELSE Goto(t, "newest") /\ UNCHANGED <<query, result, groups>>
  /\ UNCHANGED <<kind, disk, registry, mine, toRead, wrote, calls, history>>

\* max() iterates over the dict, calling _group_key: other threads run.
NewestBegins(t) ==
  /\ pc[t] = "newest"
  /\ begun' = [begun EXCEPT ![t] = GroupsOf(Held(t))]
  /\ Goto(t, "max")
  /\ UNCHANGED <<kind, disk, registry, live, held, callers, calls, history>>

NewestEnds(t) ==
  /\ pc[t] = "max" /\ GroupsOf(Held(t)) = begun[t]
  /\ Give(t, Held(t)[Newest(begun[t])])
  /\ UNCHANGED <<kind, disk, registry, mine, toRead, wrote, calls, history>>

\* RuntimeError: dictionary changed size during iteration.
NewestRaises(t) ==
  /\ pc[t] = "max" /\ GroupsOf(Held(t)) /= begun[t]
  /\ query' = [query EXCEPT ![t] = <<>>]
  /\ LetGo(t)
  /\ Goto(t, "raised")
  /\ UNCHANGED <<kind, disk, registry, mine, toRead, result, wrote, calls, history>>

Answer(t) ==
  /\ pc[t] = "read" /\ query[t] = <<>>
  /\ Goto(t, "answered")
  /\ UNCHANGED <<kind, disk, groups, registry, callers, calls, history>>

Return(t) ==
  /\ pc[t] \in {"answered", "raised"}
  /\ Goto(t, "idle")
  /\ result' = [result EXCEPT ![t] = None]
  /\ known' = [known EXCEPT ![t] = {}]
  /\ asked' = [asked EXCEPT ![t] = <<>>]
  /\ UNCHANGED <<kind, disk, groups, registry, query, mine, toRead, wrote, calls, imported>>

-----------------------------------------------------------------------------
(* A host imports a profile: the file, then invalidate() *)

Import(t, f) ==
  /\ pc[t] = "idle" /\ calls < MaxCalls
  /\ calls' = calls + 1
  /\ disk' = disk \cup {f}
  /\ wrote' = [wrote EXCEPT ![t] = f]
  /\ Goto(t, "invalidate")
  /\ UNCHANGED <<kind, registry, groups, query, mine, toRead, result, history>>

\* clear() empties the table, not the dict of groups a lookup has in hand.
LetGoOfAll ==
  /\ held' = [u \in Thread |-> Held(u)]
  /\ live' = {}

\* Mutant: the table emptied, the flag left.
InvalidateTableOnly(t) ==
  /\ pc[t] = "invalidate" /\ LockFree
  /\ kind /= "relay_models"
  /\ index' = NoTable
  /\ LetGoOfAll
  /\ imported' = imported \cup {wrote[t]}
  /\ wrote' = [wrote EXCEPT ![t] = None]
  /\ Goto(t, "idle")
  /\ UNCHANGED <<kind, disk, begun, marked, lock, query, mine, toRead, result, calls,
                 known, asked>>

\* wordbits: _CACHE = None.  mms_map: clear() and the flag, under the lock.
Invalidate(t) ==
  /\ pc[t] = "invalidate" /\ LockFree
  /\ kind /= "relay_models"
  /\ marked' = FALSE
  /\ index' = NoTable
  /\ LetGoOfAll
  /\ imported' = imported \cup {wrote[t]}
  /\ wrote' = [wrote EXCEPT ![t] = None]
  /\ Goto(t, "idle")
  /\ UNCHANGED <<kind, disk, begun, lock, query, mine, toRead, result, calls, known, asked>>

\* relay_models: _LOADED_FROM = None ...
Unmark(t) ==
  /\ pc[t] = "invalidate" /\ kind = "relay_models"
  /\ marked' = FALSE
  /\ Goto(t, "clear")
  /\ UNCHANGED <<kind, disk, groups, index, lock, callers, calls, history>>

\* ... then _CACHE = {} and _ALIAS_INDEX = {}.
Clear(t) ==
  /\ pc[t] = "clear"
  /\ index' = NoTable
  /\ imported' = imported \cup {wrote[t]}
  /\ wrote' = [wrote EXCEPT ![t] = None]
  /\ Goto(t, "idle")
  /\ UNCHANGED <<kind, disk, groups, marked, lock, query, mine, toRead, result, calls,
                 known, asked>>

Step(t) ==
  \/ Loaded(t) \/ BeginLoad(t) \/ ReadFile(t) \/ LoadRaises(t) \/ Publish(t)
  \/ PublishIndex(t) \/ Mark(t) \/ Read(t) \/ ReadRaises(t)
  \/ GetGroups(t) \/ AskedGroup(t) \/ NewestBegins(t) \/ NewestEnds(t) \/ NewestRaises(t)
  \/ Answer(t) \/ Return(t) \/ Invalidate(t) \/ Unmark(t) \/ Clear(t)

Next == \E t \in Thread : \/ \E q \in Queries : Lookup(t, q)
                          \/ \E f \in File \ Packaged : Import(t, f)
                          \/ Step(t)

Spec == Init /\ [][Next]_vars
\* A thread that runs goes on; nothing says that a lookup or an import begins.
FairSpec == Spec /\ \A t \in Thread : WF_vars(Step(t))
-----------------------------------------------------------------------------
(* Properties *)

\* The table a load makes of the files in S.
Table(S) ==
  [k \in Key |-> LET fs == {f \in S : k \in KeysOf[f]}
                 IN  IF fs = {} THEN None ELSE FirstOf(fs)]
Tables == {Table(S \cup Packaged) : S \in SUBSET (disk \ Packaged)}

\* Types of the variables.
RegTypeOK ==
  /\ kind \in Kinds /\ disk \in SUBSET File /\ imported \in SUBSET File
  /\ index \in [Key -> File \cup {None}]
  /\ marked \in BOOLEAN /\ lock \in Thread \cup {None}
  /\ pc \in [Thread -> {"idle", "load", "reading", "mark", "read", "groups", "newest",
                        "max", "answered", "raised", "invalidate", "clear"}]
  /\ live \in SUBSET Thread /\ begun \in [Thread -> SUBSET Key]
  /\ held \in [Thread -> [Key -> File \cup {None}]]
  /\ query \in [Thread -> Seq(Key)] /\ asked \in [Thread -> Seq(Key)]
  /\ mine \in [Thread -> [Key -> File \cup {None}]]
  /\ toRead \in [Thread -> SUBSET File] /\ known \in [Thread -> SUBSET File]
  /\ result \in [Thread -> File \cup {None}]
  /\ wrote \in [Thread -> File \cup {None}]
  /\ calls \in 0..MaxCalls

\* The index has, for every key of f, f itself or a file that goes before it.
Covers(f) ==
  \A k \in KeysOf[f] : index[k] /= None /\ Rank[index[k]] <= Rank[f]

\* mms_tables: while the flag says loaded, the table holds every file imported
\* so far -- however loads, failures half way and imports interleave.  It is
\* filled in place, so the flag, the clear() and the lock all have to be right.
LoadedIsCurrent ==
  kind = "mms_map" /\ marked => \A f \in imported : Covers(f)

\* wordbits and relay_models never publish a table with files missing: it is
\* the table of some set of files that was on the disk, or empty -- and in
\* wordbits, never empty once published.
PublishedWhole ==
  \/ kind = "mms_map"
  \/ index \in Tables
  \/ index = NoTable /\ (kind = "wordbits" => ~marked)

\* What lookup() answers from a table that nobody changes.
Answered(table, q) ==
  IF kind /= "mms_map" THEN FirstFound(table, q)
  ELSE IF GroupsOf(table) = {} THEN None
  ELSE IF table[Head(q)] /= None THEN table[Head(q)]
  ELSE table[Newest(GroupsOf(table))]

\* Until a host imports something, any number of first lookups may race, each
\* loading the files: all are answered, with what the packaged files say.  After
\* that, "one bad file must not take the whole registry down" holds but for a
\* file of a shape no except clause foresees, which takes every lookup down.
\* And an import breaks lookups that are on their way, in the two registries
\* whose table is not replaced whole: wordbits' cache is None under one, and
\* mms_tables' is filled under another's max().
ColdStartIsRight ==
  \A t \in Thread :
    /\ disk = Packaged /\ pc[t] = "answered" =>
         result[t] = Answered(Table(Packaged), asked[t])
    /\ pc[t] = "raised" => IF kind = "relay_models" THEN disk \cap Raising /= {}
                          ELSE disk /= Packaged

\* mms_tables: an answer is never an entry that a file imported before the
\* lookup began overrides (the overlay is searched first), although the
\* lookup reads the table in several steps after the lock is let go.
NeverOverridden ==
  \A t \in Thread :
    kind = "mms_map" /\ pc[t] = "answered" /\ result[t] /= None =>
      \E k \in KeysOf[result[t]] : \A f \in known[t] :
        k \in KeysOf[f] => Rank[result[t]] <= Rank[f]

\* A lookup, an import and a load end, whatever the others do: the lock is
\* let go on the path that raises, too.
CallReturns == \A t \in Thread : pc[t] /= "idle" ~> pc[t] = "idle"

\* wordbits.invalidate: without it "the new model stays invisible until a
\* restart".  With it: a lookup that began after the import finds the model.
ImportVisible ==
  LET Supplied(f) == f \in File \ Packaged
  IN  \A t \in Thread :
        pc[t] = "answered" /\ Supplied(FirstFound(Table(known[t]), asked[t]))
          => Supplied(result[t])
=============================================================================
