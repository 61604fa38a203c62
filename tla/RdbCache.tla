------------------------------ MODULE RdbCache ------------------------------
(***************************************************************************)
(* The content-addressed extraction cache: rdb.process_upload_stream       *)
(* together with the lock table, the entries and meta.json of rdb_cache.   *)
(* Several threads of one process upload; the process may be killed and    *)
(* started again over the same directory.  sweep() is in RdbSweep, which   *)
(* extends this module.                                                    *)
(*                                                                         *)
(* One action per step another thread can interleave with: one system call *)
(* on a path others see, or one block under _LOCKS_GUARD.                  *)
(***************************************************************************)
EXTENDS Naturals, FiniteSets

CONSTANTS
  Thread,      \* threads of the process that may run an upload
  Sha,         \* contents, one per sha256
  Stream,      \* OLE streams, i.e. files of an extraction
  Gle,         \* the streams at Relays/<relay>/Misc/<file>.gle
  Content,     \* Content[h]: the streams of the RDB whose sha256 is h
  Lock,        \* identities of threading.Lock objects
  Part,        \* names mkstemp can give under _incoming
  Chunks,      \* reads it takes to receive one upload
  MayRaise,    \* whether a file operation, or olefile, may raise
  None,        \* Python's None
  Absent,      \* no meta.json
  Torn,        \* a meta.json that is no JSON: opened "w", not yet written
  MaxUploads,  \* bound: uploads started
  MaxCrashes,  \* bound: kills of the process
  Boot,        \* the clock at the start, later than any age limit
  MaxTime      \* bound: the clock

ASSUME ContentAssumption ==
  /\ Gle \subseteq Stream
  /\ Content \in [Sha -> SUBSET Stream]
ASSUME NoneAssumption ==
  /\ None \notin Thread /\ None \notin Lock /\ None \notin Part
  /\ None \notin Sha
  /\ Absent \notin Nat /\ Torn \notin Nat /\ Absent /= Torn
ASSUME BoundsAssumption ==
  /\ Chunks \in Nat \ {0} /\ MayRaise \in BOOLEAN
  /\ MaxUploads \in Nat /\ MaxCrashes \in Nat
  /\ Boot \in Nat /\ MaxTime \in Nat /\ Boot <= MaxTime

VARIABLES
  pc,         \* where each thread is in process_upload_stream
  sha,        \* the content it is receiving; the program knows it once received
  left,       \* chunks still to read
  tmp,        \* its temporary under _incoming, None once it became source.rdb
  lk,         \* the Lock object lock_for gave it
  todo,       \* streams its extraction has still to write
  relays,     \* what its relay list shows
  ok,         \* no exception is on its way out
  locks,      \* _LOCKS
  holder,     \* the thread that holds each Lock object
  incoming,   \* mtime of every file under _incoming
  root,       \* whether <cache>/<sha256> exists
  source,     \* whether source.rdb exists
  extracted,  \* the files below extracted/
  meta,       \* meta.json: Absent, Torn, or the last_used it holds
  now, uploads, crashes,
  stuck       \* history: files of _incoming that an error, not a kill, left

threadVars == <<pc, sha, left, tmp, lk, todo, relays, ok>>
entryVars  == <<root, source, extracted, meta>>
lockVars   == <<locks, holder>>
envVars    == <<now, uploads, crashes, stuck>>
vars == <<threadVars, lockVars, incoming, entryVars, envVars>>

Time == Boot..MaxTime
Outside == {"idle", "stream", "lookup", "acquire", "cleanup"}
\* Program points inside `with rdb_cache.lock_for(sha)`.
Reusing == {"check", "scan", "touch", "touch_open", "touch_write"}
Rewriting == {"mkdir", "replace", "wipe", "extract", "collect",
              "meta_open", "meta_write"}
Inside == Reusing \cup Rewriting \cup {"unlock"}

\* Mutant: an entry is taken for complete as soon as source.rdb is there.
CompleteWithoutMeta(h) == source[h]

\* CacheEntry.complete: meta.json and source.rdb are files.
Complete(h) == meta[h] /= Absent /\ source[h]

\* The list of relays, by what it is read from: a relay is listed for its GLE
\* files, and its model and ip come from the other files of the extraction.
RelayList(gles, files) == IF gles = {} THEN {} ELSE gles \cup (files \ Gle)
ExpectedRelays(h) == RelayList(Content[h] \cap Gle, Content[h])

TypeOK ==
  /\ pc \in [Thread -> Outside \cup Inside]
  /\ sha \in [Thread -> Sha \cup {None}]
  /\ left \in [Thread -> 0..Chunks]
  /\ tmp \in [Thread -> Part \cup {None}]
  /\ lk \in [Thread -> Lock \cup {None}]
  /\ todo \in [Thread -> SUBSET Stream]
  /\ relays \in [Thread -> SUBSET Stream]
  /\ ok \in [Thread -> BOOLEAN]
  /\ locks \in [Sha -> Lock \cup {None}]
  /\ holder \in [Lock -> Thread \cup {None}]
  /\ \E P \in SUBSET Part : incoming \in [P -> Time]
  /\ root \in [Sha -> BOOLEAN]
  /\ source \in [Sha -> BOOLEAN]
  /\ extracted \in [Sha -> SUBSET Stream]
  /\ meta \in [Sha -> Time \cup {Absent, Torn}]
  /\ now \in Time /\ uploads \in 0..MaxUploads /\ crashes \in 0..MaxCrashes
  /\ stuck \in SUBSET Part

Init ==
  /\ pc = [t \in Thread |-> "idle"]
  /\ sha = [t \in Thread |-> None]
  /\ left = [t \in Thread |-> 0]
  /\ tmp = [t \in Thread |-> None]
  /\ lk = [t \in Thread |-> None]
  /\ todo = [t \in Thread |-> {}]
  /\ relays = [t \in Thread |-> {}]
  /\ ok = [t \in Thread |-> TRUE]
  /\ locks = [h \in Sha |-> None]
  /\ holder = [l \in Lock |-> None]
  /\ incoming = [p \in {} |-> 0]
  /\ root = [h \in Sha |-> FALSE]
  /\ source = [h \in Sha |-> FALSE]
  /\ extracted = [h \in Sha |-> {}]
  /\ meta = [h \in Sha |-> Absent]
  /\ now = Boot /\ uploads = 0 /\ crashes = 0 /\ stuck = {}

-----------------------------------------------------------------------------
Goto(t, label) == pc' = [pc EXCEPT ![t] = label]
Without(p) == [q \in DOMAIN incoming \ {p} |-> incoming[q]]

NewPart(p) ==
  /\ p \notin DOMAIN incoming /\ \A u \in Thread : tmp[u] /= p
  /\ incoming' = [q \in DOMAIN incoming \cup {p} |->
                    IF q = p THEN now ELSE incoming[q]]

\* An upload of h begins: mkstemp creates its temporary.
Start(t, h) ==
  /\ pc[t] = "idle" /\ uploads < MaxUploads
  /\ \E p \in Part :
       /\ NewPart(p)
       /\ tmp' = [tmp EXCEPT ![t] = p]
       /\ stuck' = stuck \ {p}
  /\ sha' = [sha EXCEPT ![t] = h]
  /\ left' = [left EXCEPT ![t] = Chunks]
  /\ uploads' = uploads + 1
  /\ Goto(t, "stream")
  /\ UNCHANGED <<lk, todo, relays, ok, lockVars, entryVars, now, crashes>>

\* os.close(fd) raises, before the try: the temporary stays.
StartFails(t) ==
  /\ pc[t] = "idle" /\ uploads < MaxUploads /\ MayRaise
  /\ \E p \in Part : NewPart(p) /\ stuck' = stuck \cup {p}
  /\ uploads' = uploads + 1
  /\ UNCHANGED <<threadVars, lockVars, entryVars, now, crashes>>

\* Mutant: the loop does not count what it has read.
ReceiveChunkForever(t) ==
  /\ pc[t] = "stream"
  /\ left' = [left EXCEPT ![t] = @ - 1]
  /\ UNCHANGED <<pc, sha, tmp, lk, todo, relays, ok, lockVars, incoming,
                 entryVars, envVars>>

\* One turn of stream_to_file's loop: a chunk read, written and hashed.
ReceiveChunk(t) ==
  /\ pc[t] = "stream"
  /\ left' = [left EXCEPT ![t] = @ - 1]
  /\ incoming' = [q \in DOMAIN incoming |->
                    IF q = tmp[t] THEN now ELSE incoming[q]]
  /\ Goto(t, IF left[t] = 1 THEN "lookup" ELSE "stream")
  /\ UNCHANGED <<sha, tmp, lk, todo, relays, ok, lockVars, entryVars, envVars>>

\* The source runs out before `length` bytes: ValueError, no lock taken yet.
Interrupted(t) ==
  /\ pc[t] = "stream"
  /\ ok' = [ok EXCEPT ![t] = FALSE]
  /\ Goto(t, "cleanup")
  /\ UNCHANGED <<sha, left, tmp, lk, todo, relays, lockVars, incoming,
                 entryVars, envVars>>

-----------------------------------------------------------------------------
(* The lock of a content *)

\* A Lock object nothing refers to: what threading.Lock() returns.
Fresh(l) ==
  /\ \A h \in Sha : locks[h] /= l
  /\ \A u \in Thread : lk[u] /= l

\* Mutant: a new Lock is made and not memoised.
LockForUnmemoised(t) ==
  /\ pc[t] = "lookup"
  /\ \E l \in Lock : Fresh(l) /\ lk' = [lk EXCEPT ![t] = l]
  /\ Goto(t, "acquire")
  /\ UNCHANGED <<sha, left, tmp, todo, relays, ok, lockVars, incoming,
                 entryVars, envVars>>

\* lock_for, under _LOCKS_GUARD.  The thread has the object, not the lock.
LockFor(t) ==
  /\ pc[t] = "lookup"
  /\ \E l \in Lock :
       /\ IF locks[sha[t]] = None THEN Fresh(l) ELSE l = locks[sha[t]]
       /\ lk' = [lk EXCEPT ![t] = l]
       /\ locks' = [locks EXCEPT ![sha[t]] = l]
  /\ Goto(t, "acquire")
  /\ UNCHANGED <<sha, left, tmp, todo, relays, ok, holder, incoming,
                 entryVars, envVars>>

\* Mutant: the lock is not waited for.
AcquireHeld(t) ==
  /\ pc[t] = "acquire"
  /\ holder' = [holder EXCEPT ![lk[t]] = t]
  /\ Goto(t, "check")
  /\ UNCHANGED <<sha, left, tmp, lk, todo, relays, ok, locks, incoming,
                 entryVars, envVars>>

Acquire(t) ==
  /\ pc[t] = "acquire" /\ holder[lk[t]] = None
  /\ holder' = [holder EXCEPT ![lk[t]] = t]
  /\ Goto(t, "check")
  /\ UNCHANGED <<sha, left, tmp, lk, todo, relays, ok, locks, incoming,
                 entryVars, envVars>>

\* The end of the with block, reached with or without an exception.
Release(t) ==
  /\ pc[t] = "unlock"
  /\ holder' = [holder EXCEPT ![lk[t]] = None]
  /\ lk' = [lk EXCEPT ![t] = None]
  /\ Goto(t, "cleanup")
  /\ UNCHANGED <<sha, left, tmp, todo, relays, ok, locks, incoming,
                 entryVars, envVars>>

-----------------------------------------------------------------------------
(* Reusing an extraction *)

Check(t) ==
  /\ pc[t] = "check"
  /\ Goto(t, IF Complete(sha[t]) THEN "scan" ELSE "mkdir")
  /\ UNCHANGED <<sha, left, tmp, lk, todo, relays, ok, lockVars, incoming,
                 entryVars, envVars>>

\* Mutant: `reused` stays False.
ScanNeverReuses(t) ==
  /\ pc[t] = "scan"
  /\ Goto(t, "mkdir")
  /\ UNCHANGED <<sha, left, tmp, lk, todo, relays, ok, lockVars, incoming,
                 entryVars, envVars>>

\* _scan_existing; `reused = bool(relays)`.
Scan(t) ==
  /\ pc[t] = "scan"
  /\ LET found == RelayList(extracted[sha[t]] \cap Gle, extracted[sha[t]])
     IN  /\ relays' = [relays EXCEPT ![t] = found]
         /\ Goto(t, IF found = {} THEN "mkdir" ELSE "touch")
  /\ UNCHANGED <<sha, left, tmp, lk, todo, ok, lockVars, incoming,
                 entryVars, envVars>>

\* touch() reads meta.json and gives up on one it cannot decode.
TouchRead(t) ==
  /\ pc[t] = "touch"
  /\ Goto(t, IF meta[sha[t]] \in {Absent, Torn} THEN "unlock" ELSE "touch_open")
  /\ UNCHANGED <<sha, left, tmp, lk, todo, relays, ok, lockVars, incoming,
                 entryVars, envVars>>

\* write_text opens meta.json with "w": it exists and is empty.
OpenMeta(h) ==
  /\ root[h]
  /\ meta' = [meta EXCEPT ![h] = Torn]

\* It writes the JSON, unless the file was unlinked since it was opened.
FillMeta(h) == meta' = [meta EXCEPT ![h] = IF @ = Absent THEN Absent ELSE now]

TouchOpen(t) ==
  /\ pc[t] = "touch_open"
  /\ \/ OpenMeta(sha[t]) /\ Goto(t, "touch_write")
     \/ /\ ~root[sha[t]] \/ MayRaise      \* OSError: pass
        /\ Goto(t, "unlock") /\ UNCHANGED meta
  /\ UNCHANGED <<sha, left, tmp, lk, todo, relays, ok, lockVars, incoming,
                 root, source, extracted, envVars>>

TouchWrite(t) ==
  /\ pc[t] = "touch_write"
  /\ FillMeta(sha[t]) \/ (MayRaise /\ UNCHANGED meta)   \* OSError: pass
  /\ Goto(t, "unlock")
  /\ UNCHANGED <<sha, left, tmp, lk, todo, relays, ok, lockVars, incoming,
                 root, source, extracted, envVars>>

-----------------------------------------------------------------------------
(* Extracting *)

\* Mutant: the old meta.json is left in place.
InvalidateKeepsMeta(t) ==
  /\ pc[t] = "mkdir"
  /\ root' = [root EXCEPT ![sha[t]] = TRUE]
  /\ Goto(t, "replace")
  /\ UNCHANGED <<sha, left, tmp, lk, todo, relays, ok, lockVars, incoming,
                 meta, source, extracted, envVars>>

\* entry.root.mkdir and entry.meta_path.unlink(missing_ok).
Invalidate(t) ==
  /\ pc[t] = "mkdir"
  /\ root' = [root EXCEPT ![sha[t]] = TRUE]
  /\ meta' = [meta EXCEPT ![sha[t]] = Absent]
  /\ Goto(t, "replace")
  /\ UNCHANGED <<sha, left, tmp, lk, todo, relays, ok, lockVars, incoming,
                 source, extracted, envVars>>

\* os.replace(tmp, source.rdb); tmp = None.
Replace(t) ==
  /\ pc[t] = "replace" /\ root[sha[t]] /\ tmp[t] \in DOMAIN incoming
  /\ incoming' = Without(tmp[t])
  /\ source' = [source EXCEPT ![sha[t]] = TRUE]
  /\ tmp' = [tmp EXCEPT ![t] = None]
  /\ Goto(t, "wipe")
  /\ UNCHANGED <<sha, left, lk, todo, relays, ok, lockVars, root, extracted,
                 meta, envVars>>

\* _extract_and_collect: rmtree and mkdir of extracted/, OleFileIO(source.rdb).
Wipe(t) ==
  /\ pc[t] = "wipe" /\ source[sha[t]]
  /\ root' = [root EXCEPT ![sha[t]] = TRUE]
  /\ extracted' = [extracted EXCEPT ![sha[t]] = {}]
  /\ todo' = [todo EXCEPT ![t] = Content[sha[t]]]
  /\ Goto(t, "extract")
  /\ UNCHANGED <<sha, left, tmp, lk, relays, ok, lockVars, incoming, source,
                 meta, envVars>>

\* One stream written, its parent directories made if they are gone.
ExtractStream(t) ==
  /\ pc[t] = "extract"
  /\ \E s \in todo[t] :
       /\ extracted' = [extracted EXCEPT ![sha[t]] = @ \cup {s}]
       /\ todo' = [todo EXCEPT ![t] = @ \ {s}]
  /\ root' = [root EXCEPT ![sha[t]] = TRUE]
  /\ UNCHANGED <<pc, sha, left, tmp, lk, relays, ok, lockVars, incoming,
                 source, meta, envVars>>

\* The relay list: GLEs from the OLE directory, model and ip from the disk.
Collect(t) ==
  /\ pc[t] = "extract" /\ todo[t] = {}
  /\ relays' = [relays EXCEPT ![t] =
                  RelayList(Content[sha[t]] \cap Gle, extracted[sha[t]])]
  /\ Goto(t, "meta_open")
  /\ UNCHANGED <<sha, left, tmp, lk, todo, ok, lockVars, incoming, entryVars,
                 envVars>>

MetaOpen(t) ==
  /\ pc[t] = "meta_open"
  /\ OpenMeta(sha[t])
  /\ Goto(t, "meta_write")
  /\ UNCHANGED <<sha, left, tmp, lk, todo, relays, ok, lockVars, incoming,
                 root, source, extracted, envVars>>

MetaWrite(t) ==
  /\ pc[t] = "meta_write"
  /\ FillMeta(sha[t])
  /\ Goto(t, "unlock")
  /\ UNCHANGED <<sha, left, tmp, lk, todo, relays, ok, lockVars, incoming,
                 root, source, extracted, envVars>>

\* What the step at pc[t] needs of the disk is gone.
Missing(t) ==
  \/ pc[t] = "replace" /\ (~root[sha[t]] \/ tmp[t] \notin DOMAIN incoming)
  \/ pc[t] = "wipe" /\ ~source[sha[t]]
  \/ pc[t] = "meta_open" /\ ~root[sha[t]]

\* Mutant: acquire and release without `with`, so an exception keeps the lock.
RaiseKeepsLock(t) ==
  /\ pc[t] \in Rewriting \cup {"scan"}
  /\ ok' = [ok EXCEPT ![t] = FALSE]
  /\ Goto(t, "cleanup")
  /\ UNCHANGED <<sha, left, tmp, lk, todo, relays, lockVars, incoming,
                 entryVars, envVars>>

\* An exception leaves the with block.  One raised at "wipe" may come after
\* rmtree took any part of extracted/ away, and one at a step that makes
\* directories after the entry's own was made.
Raise(t) ==
  /\ pc[t] \in Rewriting \cup {"scan"}
  /\ ok' = [ok EXCEPT ![t] = FALSE]
  /\ IF pc[t] = "wipe"
       THEN \E rest \in SUBSET extracted[sha[t]] :
              extracted' = [extracted EXCEPT ![sha[t]] = rest]
       ELSE UNCHANGED extracted
  /\ \/ UNCHANGED root
     \/ /\ pc[t] \in {"mkdir", "wipe", "extract"}
        /\ root' = [root EXCEPT ![sha[t]] = TRUE]
  /\ Goto(t, "unlock")
  /\ UNCHANGED <<sha, left, tmp, lk, todo, relays, lockVars, incoming, source,
                 meta, envVars>>

Abort(t) == (MayRaise \/ Missing(t)) /\ Raise(t)

\* The upload is over: the RdbInfo is returned or the exception let out.
Leave(t) ==
  /\ tmp' = [tmp EXCEPT ![t] = None]
  /\ sha' = [sha EXCEPT ![t] = None]
  /\ left' = [left EXCEPT ![t] = 0]
  /\ todo' = [todo EXCEPT ![t] = {}]
  /\ relays' = [relays EXCEPT ![t] = {}]
  /\ ok' = [ok EXCEPT ![t] = TRUE]
  /\ Goto(t, "idle")
  /\ UNCHANGED <<lk, lockVars, entryVars, now, uploads, crashes>>

\* Mutant: the temporary is only removed when nothing was raised.
CleanupOnSuccess(t) ==
  /\ pc[t] = "cleanup"
  /\ incoming' = IF ok[t] THEN Without(tmp[t]) ELSE incoming
  /\ Leave(t) /\ UNCHANGED stuck

\* The finally: unlink(missing_ok) the temporary, if it is still one.
Cleanup(t) ==
  /\ pc[t] = "cleanup"
  /\ incoming' = Without(tmp[t])
  /\ Leave(t) /\ UNCHANGED stuck

\* That unlink raises: the file stays, and the upload is not answered.
CleanupFails(t) ==
  /\ pc[t] = "cleanup" /\ MayRaise
  /\ tmp[t] \in DOMAIN incoming
  /\ stuck' = stuck \cup {tmp[t]}
  /\ Leave(t) /\ UNCHANGED incoming

-----------------------------------------------------------------------------
(* The process and the clock *)

\* kill -9, then a new process: its memory is gone, the directory is not.
Crash ==
  /\ crashes < MaxCrashes
  /\ crashes' = crashes + 1
  /\ pc' = [t \in Thread |-> "idle"]
  /\ sha' = [t \in Thread |-> None]
  /\ left' = [t \in Thread |-> 0]
  /\ tmp' = [t \in Thread |-> None]
  /\ lk' = [t \in Thread |-> None]
  /\ todo' = [t \in Thread |-> {}]
  /\ relays' = [t \in Thread |-> {}]
  /\ ok' = [t \in Thread |-> TRUE]
  /\ locks' = [h \in Sha |-> None]
  /\ holder' = [l \in Lock |-> None]
  /\ UNCHANGED <<incoming, entryVars, now, uploads, stuck>>

Tick ==
  /\ now < MaxTime
  /\ now' = now + 1
  /\ UNCHANGED <<threadVars, lockVars, incoming, entryVars, uploads, crashes,
                 stuck>>

\* A thread's steps once it has received its file: it waits for nobody but
\* the holder of its lock.
Work(t) ==
  \/ LockFor(t) \/ Acquire(t) \/ Check(t) \/ Scan(t)
  \/ TouchRead(t) \/ TouchOpen(t) \/ TouchWrite(t)
  \/ Invalidate(t) \/ Replace(t) \/ Wipe(t) \/ ExtractStream(t) \/ Collect(t)
  \/ MetaOpen(t) \/ MetaWrite(t) \/ Abort(t) \/ Release(t)
  \/ Cleanup(t) \/ CleanupFails(t)

Next ==
  \/ \E t \in Thread :
       \/ \E h \in Sha : Start(t, h)
       \/ StartFails(t)
       \/ ReceiveChunk(t) \/ Interrupted(t) \/ Work(t)
  \/ Crash \/ Tick

Spec == Init /\ [][Next]_vars
\* No client has to keep sending; a thread that can run does.
FairSpec == Spec /\ \A t \in Thread : WF_vars(Work(t))

-----------------------------------------------------------------------------
(* Properties *)

\* "One lock per hash": at most one thread is inside process_upload_stream's
\* with block for one content.
MutualExclusion ==
  \A t, u \in Thread :
    pc[t] \in Inside /\ pc[u] \in Inside /\ sha[t] = sha[u] => t = u

\* "Sem meta.json ate a extracao terminar": an entry that looks complete has
\* every stream of its RDB, also after a kill or an OSError at any step.
CompleteIsWhole ==
  \A h \in Sha : Complete(h) => extracted[h] = Content[h]

\* process_upload's promise: an upload that returns, whether it extracted or
\* reused, lists the relays of the RDB it was given.
ReturnedIsWhole ==
  \A t \in Thread :
    pc[t] = "cleanup" /\ ok[t] => relays[t] = ExpectedRelays(sha[t])

\* What keeps a session's paths valid: once an entry with a GLE is complete,
\* no upload, error or kill takes a file of it away again.
CompleteStays ==
  [][\A h \in Sha :
       Complete(h) /\ Content[h] \cap Gle /= {} =>
         Complete(h)' /\ extracted'[h] = extracted[h]]_vars

\* The finally around the whole upload: unless the process was killed, a file
\* under _incoming that is not the temporary of a running upload is there
\* because removing that very file raised, or closing it before the try.  No
\* other error, at any step, leaves one.
NoOrphanPart ==
  crashes = 0 =>
    \A p \in DOMAIN incoming \ stuck :
      \E t \in Thread : pc[t] /= "idle" /\ tmp[t] = p

\* An upload that has received its file returns or raises: no error path and
\* no second upload leaves it waiting for a lock forever.
UploadReturns ==
  \A t \in Thread : pc[t] = "lookup" ~> pc[t] = "idle"
=============================================================================
