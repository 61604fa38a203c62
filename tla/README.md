# sellib in TLA+

`sellib` (src/) reads the files of SEL protection relays: RDB settings databases
of QuickSet, DNP maps, IEC 61850 SCDs, SELogic equations. It is a library
inside a server: a host keeps sessions, calls it from several threads, and is
killed and restarted like any server. This directory is the verification
project beside that code: what it models, what TLC checks on small instances,
and what TLAPS proves for all instances.

File names below are relative to `src/src/sellib/`. Words in quotation marks are
the code's own, from docstrings and comments.

## 1. Inventory

| component | state | operations | hard part | what makes it correct |
|---|---|---|---|---|
| Extraction cache, uploads (`rdb.py`, `rdb_cache.py`) | `_LOCKS`; on disk `<sha>/{source.rdb, extracted/, meta.json}` and `_incoming/*.rdb-part` | `process_upload(_stream)`, `lock_for`, `write_meta`, `touch` | threads of one content, exceptions at every file operation, kills | one extractor per content; whole extractions only; a complete entry is reused and stays; temporaries go |
| Extraction cache, sweep (`rdb_cache.py`) | none of its own; reads and removes the above, drops locks | `sweep`, `_sweep_incoming`, `_forget_lock` | no entry lock: runs against uploads and sessions; kills in the middle of `rmtree` | live sessions keep their files; only as much as the ceiling needs goes, and the least recently used; always ends |
| Relay model registry (`models/relay_models.py`) | `_CACHE`, `_ALIAS_INDEX`, `_LOADED_FROM` | `load_relay_models`, `lookup`, `invalidate`, `read_identifiers` | no lock; three assignments; `invalidate` from a host's import | no half table is seen; cold starts answer right |
| Word bit registry (`models/wordbits.py`) | `_CACHE` | `_load_all`, `lookup`, `invalidate`, name checks | no lock; a global tested and then read again | as above; an import becomes visible |
| MMS table registry, short addresses (`scl/mms_tables.py`) | `_CACHE`, `_LOADED`, `_LOCK` | `_load`, `lookup`, `invalidate`; `parse_saddr`, `decode_bit` | filled in place, read outside the lock in several steps; files that raise half way | what is loaded is current; answers are not overridden; the lock is let go |
| Data directories (`_paths.py`) | configured overlay | `configure`, `data_dirs` | order | overlay before package |
| DNP map editor (`dnp_map.py`) | `SetDnpFile.lines` | `parse`, `set_value`, `serialize`, `points`, `extras`, `check_value`, `discover` | long sequences of edits on bytes that go into a relay | untouched lines byte for byte; edits read back; nothing hidden |
| Relay matcher (`match.py`) | report under construction, `used_scd_names` | `compare_relays_to_scd` | greedy, order dependent | one-to-one; reasons true; nothing lost |
| SCD reader (`scl/read.py`) | none | `sel_short_addresses`, `sel_rx_status_bits`, `sel_goose_subscriptions` | several addresses of one bit, first-wins here and last-wins there | a bit is read where it tells its state best; a health bit is its own publisher's |
| SELogic (`selogic/*.py`) | variables of a group, slots of a report | tokens, grammar, canonical form; `compare_logic`, `compare_n`; `normalize_relay` of each family | precedence, tolerance that is not transitive, the order of lines in 3xx files and of slots in 4xx reports | trees keep the grammar's value; verdicts are right about functions; no line is lost |
| Settings reader (`settings.py`) | flags of the header in force | `parse_settings_file`, the files of a relay in order | headers in any order, pairs before a header and inside `[INFO]` | the lines of real sections, and only those |
| DNP device profile (`dnp_profile.py`) | none | reads a profile out of a zip of candidates and merges it into a model's file | one member that fails, several that could do | no member hides another; an import loses no name |
| GLE renderer (`gle.py`) | none | lays out logic diagrams as SVG | layout | not modelled: formatting, no state |

How they interact. A host streams an upload to `process_upload_stream`, which
extracts it into the cache or reuses an entry, and returns paths that the host's
session keeps using, without the library's knowledge, until the session's TTL.
The host also calls `sweep` on a schedule, with that TTL as `min_age_seconds`.
The matcher, the DNP editor and the GLE renderer read the extraction through
those paths; the matcher asks the relay model registry how to read identifiers.
The registries share `_paths.data_dirs()` and nothing else, and a host's profile
import writes a file into the overlay and calls `invalidate()`.
The settings reader hands the lines of each file to `normalize_relay`, whose fields,
relay by relay, `compare_n` compares; the SCD reader's points carry the short addresses
that `mms_tables` takes apart.

The hazards, each at its line with the properties that cover it, are listed in
`PROJECT.json`.

## 2. Modules

| module | models | extends |
|---|---|---|
| `RdbCache` | uploads: threads, the lock table, the entries, exceptions, kills | |
| `ExtractionStore` | what the cache promises: an abstract store, one builder per content | |
| `RdbCacheRefinement` | the refinement mapping `RdbCache` => `ExtractionStore` | `RdbCache`, instantiates `ExtractionStore` |
| `RdbSweep` | `sweep()` and the host's sessions beside the uploads | `RdbCache` |
| `Registries` | the three registries, one per behaviour (`kind`) | |
| `DnpMap` | SET_D files: open, edit, save | |
| `Match` | one run of `compare_relays_to_scd` | |
| `SettingsModel` | the files of one relay, line by line: `parse_settings_file`, then `normalize_relay` | |
| `Selogic` | an equation: lexemes, tree, canonical form, value | |
| `SelogicCompare` | the verdict on two values, and on many | `Selogic` |
| `Naming` | names without case, dictionaries as functions | |
| `ShortAddress` | `sAddr`: names, rank of an attribute, one bit out of a value | `Naming` |
| `ScdPoints` | the points, health bits and subscriptions of the IEDs of an SCD | `ShortAddress` |
| `RelayProfile` | a relay profile, what is asked of it, `lookup` by every variant of a name | `Naming` |
| `WordbitDomain` | the names a model accepts; the device profile and its import | `Naming` |
| `Readers` | one call of a pure reader, and its answer | `ScdPoints`, `RelayProfile`, `WordbitDomain`, `SelogicCompare` |
| `SelogicGrammar` | the grammar and its precedences, without the parser: what `Selogic` is checked against | `Selogic` |
| `MCReaders` | the instances of `Readers`, and what its SELogic is to do by the grammar | `Readers`, `SelogicGrammar` |
| other `MC*` | the instances TLC checks | the above, `TLC` |
| `RdbCacheProofs`, `RdbSweepProofs`, `RegistriesProofs`, `DnpMapProofs`, `MatchProofs`, `SettingsProofs`, `ReadersProofs` | theorems about the module of that name | that module (`RdbCacheProofs`: `RdbCacheRefinement`; `RdbSweepProofs`: `RdbCacheProofs` too), `NumberLemmas` |
| `NumberLemmas` | least elements, induction, sums over finite sets, folds of sequences | the library's theorem modules |

An operator whose comment begins "Mutant" is a plausible bug of the definition
that follows it; no specification uses it. `PROJECT.json` pairs each property
with a mutant under which TLC finds it violated.

### RdbCache

A thread's `pc` names the point of `process_upload_stream` it is at. An action
is one step that another thread can interleave with: one system call on a path
that others see, or one block under `_LOCKS_GUARD`.

| code | actions |
|---|---|
| `mkstemp`, `os.close`, `stream_to_file` | `Start`, `StartFails`, `ReceiveChunk`, `Interrupted` |
| `with lock_for(sha):` | `LockFor` (the object), `Acquire` (the lock), `Release` |
| `entry.complete()`, `_scan_existing` | `Check`, `Scan` |
| `touch()` | `TouchRead`, `TouchOpen`, `TouchWrite` |
| `mkdir`, unlink of `meta.json`; `os.replace` | `Invalidate`, `Replace` |
| `_extract_and_collect` | `Wipe`, `ExtractStream` (each stream, any order), `Collect` |
| `write_meta` | `MetaOpen`, `MetaWrite` |
| any exception; the `finally`, whose `unlink` may raise too | `Abort` (`Raise`); `Cleanup`, `CleanupFails` |
| kill and restart | `Crash`: memory is reset, the disk stays |

`lock_for` and the acquisition are two steps, because the code returns an
object that it does not hold yet; `write_text` is two steps, because a file
opened with "w" is empty until it is written. Contents are sets of streams; a
relay is listed for its GLE streams, so an RDB without a GLE lists none and,
as in the code, is never reused (`reused = bool(relays)`). `MayRaise` says
whether file operations may raise by themselves. `Raise` is an exception inside
the `with` block, and what it leaves on the disk; `Missing` is when it comes
because a path is not there at that step, and `Disturbed` of `RdbSweep` when
because somebody takes it away while the step is under way. `StartFails` and
`CleanupFails` are the two errors that leave a temporary behind, outside the
`try` and in the `finally`; `stuck` remembers which files those are. The order in
which streams are extracted is left open, which allows more than the code does.

### RdbSweep

Adds `sweep()` with one step per directory it reads, per temporary it listed, per
file that `rmtree` takes, and for `_forget_lock`. `seen` is `entries` and then
`keep`: ages and sizes as read, which go stale while uploads run; `listing` is what
`_sweep_incoming` has still to look at, so that a file written after it listed the
directory is not seen. `ReadRaises` is the walk of `_dir_size` through a directory that an
upload removes, which no handler is around: that sweep ends there. `Disturbed` is
the same the other way round: a scan, an `rmtree`, a `mkdir` or a write of an upload raises because
the sweep takes its directories between two of its calls. `Overlap` says
whether the host sweeps beside uploads. `served[h]` is when the latest session
over `h` asked for it, the moment its TTL counts from. Sizes are in files. Time
starts at `Boot`, later than every age limit, since `_last_used` reads 0.0 for
an entry without `meta.json`.

### Registries

One table, `index`, from keys to the file that defines them (overlay first,
`setdefault`), and `marked`, whether it counts as loaded. `kind` chooses how
lookups, loads and `invalidate` touch them:

- `relay_models`: a table of its own, then `_ALIAS_INDEX`, then `_LOADED_FROM`
  (`PublishIndex`, `Mark`); `invalidate` in the two steps `Unmark`, `Clear`.
- `wordbits`: one assignment; `lookup` reads the global again for each variant
  of a name and raises if it is None by then (`ReadRaises`).
- `mms_map`: filled in place under `_LOCK` and read outside it. Its keys are
  the groups of one part. A lookup takes the dict of the groups (`GetGroups`), asks it
  for a group (`AskedGroup`) and then for the newest, whose `max()` calls Python for
  each key, so that a load may fill that dict meanwhile and the iteration raises
  RuntimeError (`NewestBegins`, `NewestEnds`, `NewestRaises`). `clear()` empties the outer
  dict alone: a lookup then keeps the groups it has (`held`), which no load fills any more.
  `LoadRaises` is a file that `_load_one` neither reads nor catches.

`Import` is the host: it writes one file, whole, into the overlay, then calls
`invalidate()`. Files are not removed or replaced.

### DnpMap

A text is one physical line: a `[INFO]` header, a section header, `KEY,VALUE`,
or something else, with how many pairs of quotes are around its body, which is
all that `parse` and `emit` tell apart. `Open` parses, `SetValue` is
`check_value` followed by `set_value`, `Save` writes `serialize()` back; the
host's part is external. `Init` has the files as QuickSet wrote them;
`SessionNames` is the loop of `discover()` over a relay's files.

### Match

The loop of `compare_relays_to_scd`, one action per way an iteration goes
(`MatchByIp`, `MatchByRid`, `NoMatch`, `EmptyScd`), and the loop over the IEDs
that remain. Every input up to the bounds is an initial state. Relays and IEDs
are numbers in file order; a name's spelling matters only for `Upper`.

### SettingsModel

A line is the shape its regular expressions give it: a header (`[INFO]` or a
section), a `RELAYTYPE` pair, `KEY,VALUE`, or something else. A key is a stem, digits and a
suffix; a value is what the normalisers ask of it (does it look like a number,
an enumeration, an equation, an assignment). While `phase` is "reading" each line
that comes is one action per branch of the loop (`ReadInfoHeader`,
`ReadSection`, `ReadInfoPair`, `ReadData`, `SkipLine`); after `EndOfFile` each kept line is
filed (`FileLine`, or `BufferSlotPart` and `RegroupSlot` for a 4xx report) by the normaliser
of the family, `StoreGroup` ends a file and `OpenFile` takes the next name. What
a line does to a variable that is there is its entry's `how`: append a field, refill
its fields, or replace it. The tables of `catalog.py` are `GroupOf`.

### The pure readers

`Selogic` reads a sequence of lexemes as `parser.py` does, by recursive descent,
and gives a tree, its canonical form and its value in an environment. Each method of
`_Parser` is a place of one recursive function, from a level of the grammar and a
position in the text to what is read there; `evaluate` and `canonicalize` are recursive
functions over the nodes of a tree, which knows its depth for that. The reference
it is checked against (`ReadsTheGrammar`, `SpanValue`, in `SelogicGrammar`) is the grammar
itself, over spans of the text, without the parser. `SelogicCompare` holds each family of
`compare.py`: equations, numbers (in units of 1e-6), sets, text.

`ShortAddress` and `ScdPoints` take a document as the attributes of each IED in the
order of the walk, its private elements and its `ExtRef`s. `RelayProfile` takes the
JSON of a profile entry by entry, with a regular expression as the set of names it
matches and whether it compiles (the one expression that is the code's own, the pattern of
a setting, is modelled by what it matches: a settings file is a sequence of words,
spaces, commas, quotes and line ends, and `KeysAt`, `ValuesAt` and `Matched` are
where the key, the value and its end may be, over line ends where `\s*` goes over them); `Those` is a list filled with what passes, in order, and
`Made` the name a rule makes of the one it was asked about. `WordbitDomain` takes the members of a zip, each
with the document or the error that reading it gives.

`Readers` puts a call of one of them into `call`; its one step per reader
computes the answer. These modules keep no state of their own because the code has none.

## 3. What the runs check

| run | question | result |
|---|---|---|
| `cache` | two threads, two contents (one without GLE), three uploads, one kill, an exception possible at every step | holds, and `ExtractionStore` is implemented |
| `sweep_between_uploads` | the host sweeps only while no upload runs; two contents, time passes, one kill | live sessions keep their files; what goes for the ceiling is the oldest on a disk over it; ceiling; temporaries go |
| `sweep_beside_uploads` | fair threads and sweep, all removing each other's directories, an exception possible at every file operation of both | every upload and every sweep ends |
| `sweep_two_locks` | "One lock per hash" beside a sweep | **violated** |
| `sweep_of_a_busy_entry` | "nothing younger than that is ever removed", for an entry being extracted | **violated** |
| `sweep_killed_half_way` | never "meia extracao", after a kill inside `rmtree` | **violated** |
| `registries` | all three registries under two threads, imports and a malformed file | holds, with the exceptions below |
| `wordbits_import_invisible` | an import is visible after `invalidate()` | **violated** |
| `dnp_map` | edits, reverts and saves over four files | holds, with the exceptions below |
| `match` | every input of three relays and three IEDs | holds |
| `settings` | every order of up to five lines, headers included, over the two files of a relay of each family (one of them may be empty) | holds, with the exceptions below |
| `readers` | one call of each pure reader, over every input up to the bounds | holds, with the exceptions below |

The four violated runs, and eight exceptions that properties of the other runs
have to make, are the findings of `PROJECT.json`: each is a statement of
the code about itself, quoted there, that an interleaving, a kill or an input
refutes. In short, the violated runs first:

1. `_forget_lock` may drop a lock that a thread was handed and has not acquired
   yet; the next upload of that content gets a second lock.
2. `sweep` takes no entry lock, and an entry under extraction has no
   `meta.json`: it looks never used, and goes first.
3. `rmtree` removes in directory order; killed half way, it can leave
   `meta.json` and `source.rdb` beside part of `extracted/`, which is reused.
4. `wordbits.lookup` may put a table it listed before an import back after
   `invalidate()`.
5. A kill between `open("w")` and the write in `touch` leaves an empty
   `meta.json`, complete for uploads and never repaired, 0.0 for the sweep
   (the exception of `LiveSessionKept`).
6. `mms_tables._load_one` does not catch `AttributeError`; one file of a wrong
   shape makes every lookup raise. `relay_models` has the same gap
   (`ColdStartIsRight`).
7. The section of a settings file is its first real header, not "the last"
   (`LinesOfRealSections`).
8. `compare_n` can hide the worst verdict in a pair the pivot did not touch: for
   numbers, whose tolerance adds up, and for equations that have too many bits for a truth
   table (`PivotIsWorst`).
9. `read_identifiers` has an entry, `None`, for an identifier whose file does not exist
   (`IdentifiersRead`).
10. `entry_from_profiles` replaces the aliases of the existing file
    (`ImportLosesNothing`).
11. `discover` avoids a name that is taken by one that may be taken as well: two
    sessions of one relay share a name, by which a host keeps their edits apart
    (`DistinctNames`).
12. The pattern of a setting reads over line ends: where the line is `IPADDR,` the address is
   what the next line begins with (`IdentifiersRead`).

Some properties that hold state an exception, because the code has it:

- `ImplementsStore` has `Barren` contents, rebuilt at every upload: an RDB
  without a GLE.
- `ReadsBack`: a value that is itself in quotes, set on a line without quotes,
  is read back without them.
- `ShownOnce`: of two keys for one point (`AI_SCA1`, `AI_SCA01`) the last wins and
  the first is shown nowhere.
- `DistinctNames`: the file name a session falls back to is not itself looked
  up among the names given. Where it is the section or the file name of an earlier
  file the two share a name; with sections `D2` and `D2` in `SET_D1` and `SET_D2` it is
  even the section that was taken.
- `LiveSessionKept`: after a kill, an entry whose `meta.json` a `touch` left empty
  goes whatever session it belongs to; so does one whose rebuilding the kill cut
  short, which is not complete.
- `AddressLostToName`: an IED that an earlier relay took by name is not there
  for the later relay that has its address.
- `NoOrphanPart`: a temporary whose own removal raised stays, and one whose
  descriptor could not be closed, before the `try` (`stuck`).
- `ColdStartIsRight`: once a host has begun an import, a lookup of `wordbits` may
  find its cache None and one of `mms_tables` a dict that grows under `max()`; both raise.
- `IdentifiersRead` (in `ProfileAnswers`): where a line of the key ends after the key or after its comma, before
  any line that says a value, what follows is read for it (12. above).
- `PublishedWhole`: between the two assignments of `invalidate` and a racing load
  `relay_models` may be left marked and empty.
- `FieldsSinceLastReplace`, `KindAgreesWithRoles`: in a 3xx, `SVn` is a key like any
  other and replaces the timer its `SVnPU` and `SVnDO` began; in the other
  order all three are kept, in a variable that has the kind its equation looks like
  and not that of a timer. A word bit of a 7xx spelled like a key keeps the kind of that key.
- `OneSlotPerWordBit`: of two slots that record one word bit the one whose first line
  comes later is shown, not the one with the last line.
- `ProfileAnswers`: for a type spelled in lower case a block is found and no bit is
  derived from it.
- `OverlayFirst`: an alias that an overlay's file leaves out still leads to the
  packaged file of the same model.
- `FreeSlotsQuiet`: a `BO` pair of placeholders is no unknown name and still a
  duplicate of another.
- `FirstMemberReads` (in `ImportLosesNothing`): an error `parse_zip` does not know ends it, whatever other
  members could have been read.
- `NamesAreKept` (in `ImportLosesNothing`): without `merge_kinds` the point names are the profile's alone, and
  a block that no list judged before may reject what it holds.

### Bounds, and why they are enough

- `cache`: two threads are what mutual exclusion, waiting and reuse under a
  reader need; three uploads give extract, reuse and a third that finds what
  the second left; one kill at any step followed by uploads is every recovery,
  since recovery keeps nothing but the disk. One chunk, because the loop has no
  other effect. Threads, locks and parts are symmetric; the properties checked
  under symmetry are invariants and action properties.
- `sweep_*`: one or two contents (two for the order and the ceiling); ages of
  1 and 2 with three clock values separate younger, TTL and `MaxAge`. A serial
  host needs one thread. `sweep_beside_uploads` sets the ages to 0 so that
  every entry is always to be removed, the worst case for termination; it has one stream,
  and one temporary at a time, so the second upload comes, waits or fails once the first has
  moved or removed its file: two before the first lock are in `cache`.
- `registries`: four calls on two threads are a lookup and an import on each;
  of the five files two ship, so that a load
  adds one after the other; `added` brings a key that is not there, the newest group of their
  part, `first` overrides a packaged one and goes before all, and `broken` raises in between.
  One query is for a key that ships, one for a key that does not, with a general variant that does.
- `dnp_map`: four keys (a point, its column, an orphan, no point), four files
  chosen for what each adds (three claim one section, which makes one fall back
  to a free name and one to a taken one), one pair of quotes more than a line carries by
  itself. Edits and saves are unbounded.
- `match`: three relays are the least for two that contend and a third that
  is affected; every identifier combination with two addresses and three names
  (two of them one name in two cases).

- `settings`: `MaxLines` 5: a header and four lines, or two files of a header and
  one or two lines; all five may be in one file, the other left empty. A variable has at most three lines that differ in what they do
  to it, and a fourth shows that the last replacement counts. Four file names: logic, a
  report, a second spelling of one group (the later file takes its place), and one in no catalogue.
- `readers`: `MaxLexemes` 5, over the whole alphabet up to 4 and over the lexemes that
  compute (operators, parentheses, a bit) at 5, which is where precedence
  between two binary operators and a prefix shows; `MaxTruthAtoms` 2 for the code's own limit, so
  that equations on both sides of it are small; `AbsTol` 1 and `RelScale` 8 for its
  tolerances, in the units of the model, so that small numbers are on both sides; lists of
  one value and of three, the pivot and the least two it could hide a pair of; three
  attributes (`MaxAttributes`), enough for a command, a plain and a decorated status of one bit.
  A settings file is any of four first lines (none, another key's, one that stops after its comma, one with
  spaces) and any text of up to `MaxLexemes` lexemes after it, of the key, a value, a space, a line end, a comma
  and a quote: room for two lines of the key in every state of completion.

`CHECK_DEADLOCK FALSE` is set where the system stops by its bounds: uploads,
calls and kills run out, a matching, a relay's files and a call of a reader end.

### Fairness

`FairSpec` of `RdbCache` and `FairSweepSpec` are weakly fair in the steps of a
thread that has received its file and of a sweep that has begun: a thread that
can run does, and the operating system grants a free lock to a waiter when
nobody else wants it forever (uploads are bounded). Nothing is assumed of a
client (it may stop sending), of the host's schedule (sweeps need not begin), of
the clock, or of the exceptions, which are never forced. `FairSpec` of
`Registries` assumes the same of a thread inside a call, and not that calls
begin.

## 4. What is proved

TLAPS checks these for every value of the constants that satisfies the named
assumptions (`ContentAssumption`, `NoneAssumption`, `BoundsAssumption`,
`SweepAssumption`, `FileAssumption`, `DnpAssumption`, `MatchAssumption`, `SettingsAssumption`, `ReadersAssumption`),
hence without the bounds of the runs. A theorem that needs more of the host or of the disk
says so in its ASSUME.

**RdbCacheProofs**, for uploads, exceptions and kills without a sweep:
`TypeCorrect`, `OneThreadPerContent` (`MutualExclusion`),
`CompleteEntriesAreWhole`, `UploadsReturnWholeLists`, `CompleteEntriesStay`,
`NoPartIsLeftOver` (`NoOrphanPart`), `StoreImplemented` (`ImplementsStore`).
The inductive invariant `CacheInv` has four parts. `TypeInv` adds to `TypeOK`
that a thread past "idle" has a content. `LockInv`: the lock a thread was handed
is the one in the table, and a thread inside holds it; this is what
`_forget_lock` breaks, and why the theorem is about uploads alone.
`CompleteIsWhole`, and `EntryInv`: what the thread inside an entry knows at each
program point (from "replace" until `meta.json` is opened there is none; at
"extract" what is written and `todo` make up the content; from "meta_open" on all
of it is there; who rebuilds a complete entry has a content without a GLE). `StepOfOne` reduces a step to the thread that takes it:
`MutualExclusion` keeps the others out of its entry. `NoOrphanPart` is inductive
beside `TypeInv`: a kill ends its premise, and a thread goes idle only by `Cleanup`, which
removes its own temporary, or by `CleanupFails`, which enters it in `stuck`.
The refinement needs `StoreInv`, which is `CacheInv` and `DoneInv`: an upload that
leaves the `with` block without an exception leaves a complete entry. The rest goes action by action, each to
its abstract action or to a stutter, under the mapping of `RdbCacheRefinement`.

**RdbSweepProofs**, with sweeps. Of any host: `SweepTypeCorrect` (`TypeOK`). On a
disk where no unlink raises, and if `_INCOMING_MAX_AGE` is not zero, `NoPartIsStranded`
(`StrandedPartsGone`), also beside uploads. Its `PartsInv`: a file that is too old and still
there is in the listing, or `_incoming` has not been listed yet; for what uploads write under
a sweep is younger than the sweep, and what a sweep looks at is young or goes.

The runs `sweep_two_locks`, `sweep_of_a_busy_entry` and `sweep_killed_half_way` refute
three promises of the cache. The theorems say that only what those runs show breaks them, a host that sweeps beside uploads
or a kill, or else a disk that fails. They hold of a host that sweeps between uploads (`~Overlap`),
`OneThreadBetweenSweeps` (`MutualExclusion`) and `NoBusyEntryRemoved` (`BusyEntryKept`); and
if besides no file operation raises (`~MayRaise`), `WholeListsBetweenSweeps`
(`ReturnedIsWhole`, until a kill), `SettledEntriesAreWhole` (`SettledIsWhole`), `LiveSessionsKept`
(`LiveSessionKept`) and, over finitely many contents and streams, `CacheEndsUnderItsCeiling` (`CeilingHolds`) and
`OnlyTheOldestGoForTheCeiling` (`OnlyWhatTheCeilingNeeds`). `~MayRaise`
is needed: an `rmtree` or a `touch` that fails leaves what a kill leaves.
The invariant `HostInv` has the following parts. `SerialInv`: while a sweep runs every thread is idle, so
that only a kill or the clock comes between its steps (`AloneWhileSweeping`).
`ServedInv`: `last_used` is no earlier than any session asked. `TornInv`: until a
kill, an empty `meta.json` is one that is being written. `SeenInv`: what the sweep read of an
entry is still so. `WholeInv`: complete entries are whole but for the one being
removed. `LiveInv`: each session is older than `min_age_seconds` as the sweep sees it,
or its entry is complete and not the victim. `CacheEndsUnderItsCeiling` adds that files are
only where the directory is (`FilesInv`) and that `total` is the sum of the sizes of the
entries kept, which are all there are (`TotalInv`); `SumWithout` is the step of the loop.
`OnlyTheOldestGoForTheCeiling` comes of the same two: what was read before the first removal is, at
every later one, still the size of the disk and the order of use on it.

**RegistriesProofs**: `RegistriesTyped`, `LoadedTableIsCurrent`
(`LoadedIsCurrent`), `AnswersAreNotOverridden` (`NeverOverridden`), the last two
about `mms_tables`. (`AskingInv`: a lookup with a dict
of groups in hand has one that is not empty, so that `max()` has something to find; `HeldInv`:
the dict an `invalidate()` let go of is as good for that lookup as the table was when it was taken.) `TableInv` says: only the lock's holder is loading; every
entry of the table beats each imported file that defines its key (`Best`); the
files the loader has read have their keys in the table (`LoadInv`); while
marked, so have all imported files (`MarkedInv`). The induction goes through
because files are merged in the order of the search, so that a later one never
takes a key from an earlier one, and because `invalidate` waits for the lock, so
that no load is under way when the table is cleared. `PublishedTablesAreWhole` (`PublishedWhole`) is
about the other two, which have no lock. `OwnInv`: the table a thread is building
is that of the files it has read (`Listing`), out of a directory that held the packaged
files, and those it has still to read come later in the search. So what it assigns
at the end is the table of one listing, whoever else loads or clears meanwhile.
`ColdStartsAreRight` (`ColdStartIsRight`) is about all three: until an import there is one
listing, so each thread has the same table or a beginning of it, and no dict of groups is filled
under a lookup, since the one load is over before any lookup has it (`ColdInv`); and what
raises is a malformed file or, in `wordbits` and `mms_tables`, comes once a file was imported (`RaisedInv`).

**DnpMapProofs**: `DnpTyped`, `RoundTrip` (`UntouchedLineKept`),
`WhatIsWrittenIsRead` (`ReadsBack`). `LinesInv`: each open line still has the
bytes, the key and the quoting of its parsed original, and has its value too
unless it was edited, which only lines with a key are, and only to values that
`check_value` lets through. `EmitKeeps` is the round trip of one line; `SameShapesSameInfo` says
that whether a line is in [INFO] depends on shapes, which no edit changes.
`EverySettingIsShown` (`ShownOnce`) needs no more than the types: it follows from how
`points` and `extras` divide the keys, for files of any length.
`NamesCollideByFallback` (`DistinctNames`) is about a recursive function over the files: `NamesExist`
proves by induction that it has a value, `NamesUnfold` what that is for each file.

**MatchProofs**: `MatchingIsOneToOne` (`OneToOne`), `ReasonsAreTrue`
(`NothingLeftBehind`), `AddressBeforeName` (`AddressLostToName`), `UnambiguousMatchIsExact`
(`UnambiguousIsExact`), for any number of relays and IEDs. `ReportedInv`: each
IED a reported relay leads to was taken by a relay before it. `AddressInv`: of the relays
behind the loop each has the IED of its address by that address, or a relay before it has
it. `ExactInv`: where no two relays claim one IED, each behind the loop has its own.

**SettingsProofs**, for any families, files, keys and any number of lines:
`RealSectionsAreKept` (`LinesOfRealSections`), `NoLineIsLost` (`FieldsSinceLastReplace`),
`KindsAgreeWithRoles` (`KindAgreesWithRoles`) and `EachWordBitShowsItsLastSlot` (`OneSlotPerWordBit`).
`HeaderInv` says what the two flags of the loop mean for the next line, in terms
of the lines read so far (`Headed`). `FilingInv` is about the variables: each
one's fields come from the lines filed under its name since the last cut, and its kind from
the line of the last replacement (`Holds`). `Since` is stated by CHOOSE over the lines; `PickIs` and
`PickGrows` say how that choice moves when one more line is filed.
`RoleInv` says of every variable that each of its fields suits its kind, or came from one of the keys
`KindAgreesWithRoles` excepts (`Fits`); it goes over the entries each family makes of a line.
`RegroupInv` is about the slots of a report, in two halves: the buffered slots hold the last line
of each part and are in the order in which they began (`SlotsAt`), and what has
been regrouped so far is shown as the last of its slots (`ShownAt`).

**ReadersProofs**, for every call `ReadersAssumption` admits: any document, declarations,
`ExtRef`s, files of a registry, word bits, values and members of a zip. (The addresses of
`ReadsBackTheBits` name one bit or two, as the attributes of IEC 61850 do; those of a document
any number.) `BitsAreReadAtTheirState` (`BitsAtTheirState`), `HealthIsOfThePublisher` (`HealthOfPublisher`),
`ProfilesAnswer` (`ProfileAnswers`, with `IdentifiersAreRead` for its part about settings files),
`OverlayComesFirst` (`OverlayFirst`), `FreeSlotsAreNotWarnedAbout` (`FreeSlotsQuiet`),
`ImportsLoseNothing` (`ImportLosesNothing`, from `FirstMembersAreRead` and `ImportsKeepNames`) and
`PivotIsTheWorst` (`PivotIsWorst`). The answer of a call is what the reader gives
(`ReplyInv`), so all of the work is about the readers, which are folds. For each
fold a lemma gives its prefixes (`DeclarePrefixes`, `OfferPrefixes`, ...), and another an invariant of
theirs: of the word bits seen so far each is at an address of the least rank, the first of
those (`Best`); the declarations kept are the first of each bit, in their
order (`Kept`); no two subscriptions are of one control block (`OneEach`); a key is
indexed with the first file that has it (`IndexOf`). That no member hides another follows
from the first of the members that end `parse_zip` (`ParseIsOfTheFirst`).
Of a profile: what passes of a list keeps its order (`Passing`), so that the first rule or group
kept is the first listed that could be (`FirstOfThose`); its two dictionaries of blocks, by key and by
type, have the last listed of each (`BlocksAreLast`, `ByXmlIsLast`), hence a label and a derived bit come from
one block (`BlockAnswers`).
Of a settings file: where a line of the key does not end after the key or its comma, the places at which
the pattern may begin a value are on that line (`ValuesOnly`), so the last of them is the value the line has
(`ValueOfLine`); and the first key with a value is the first line that says one (`SettingOfLines`).
Of `compare_n`: of the first results of the loop none is worse than the worst, one is that bad, and
its note is the first that such a one has (`WorstOf`). That the pivot stands for every pair
is `CompareIsEuclidean`: what it finds of two values at most is found between them. For equations this is about
functions: the value of an equation depends on its own bits alone (`EvaluateFrame`), so that a truth table over
the bits of two equations says whether they are one function of all bits (`TableIsEverywhere`),
which is transitive; the exceptions of `PivotIsWorst` are where this argument stops.

**NumberLemmas**: a nonempty set of naturals has a smallest element; induction over a
*set* of numbers (`NatInductionSet`), which stands in for the library's, whose predicate
parameter no prover here can instantiate; and from it what `MapThenSumSet` computes
over a finite set, whichever element it takes first (`SumOfRemove`, `SumOfAgree`), and that
`FoldLeft` over a sequence has a value and goes place by place (`FoldExists`, `NextPlace`).

`RegTypeOK` and `DnpTypeOK` are theorems and not invariants of a run.

Only model-checked:

- liveness (`UploadReturns`, `SweepReturns`, `CallReturns`): the prover does neither
  fairness nor ENABLED;
- `ParserReadsTheGrammar` and `VerdictIsFunction`: what they compare with is the grammar, which
  is recursive (`SelogicGrammar` has RECURSIVE operators, about which the prover can say nothing),
  and that the parser and the canonical form keep a text's value is an induction over spans and trees;
- what the four violated runs show, which is that something is not so.

## 5. What is not modelled

Listed per component in `PROJECT.json`. Out for good: the formats (OLE, XML,
JSON, zip, SVG), the sanitising of paths, logging and wording, several
processes over one cache directory (the locks are those of one process), and the
GLE renderer, which lays out and draws diagrams and keeps no state. The catalogue of
settings groups and the XML walk of a device profile are constants.

Out for now: loads of `relay_models` with an explicit `models_dir`, which replace the
alias index the others read (tools and tests call it so); an import of several device
profiles at once, which only the offline generator does; in the DNP editor
`identical_groups`, `same_model` and the terminators of lines; in the matcher the
comparison of model names; in `mms_tables` the sections of a table (shown, hidden,
renamed), which are handed over as read.

## 6. Plan

Done, in this order: uploads, sweep, registries, DNP map, matcher; then settings,
SELogic, short addresses and points, profiles and word bits, device profiles; then the
proofs about them, up to the truth tables of SELogic. Next:

1. That the parser keeps the grammar's value and the canonical form the tree's: the grammar
   written as a recursive function over spans, induction over spans and over the depth of trees.
2. `relay_models` with an explicit `models_dir` beside other lookups.
3. `identical_groups` and `same_model` in `DnpMap`.

RECURSIVE operators stay in the modules only TLC uses; what is to be proved is
written with recursive functions or folds.
