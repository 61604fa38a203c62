------------------------------ MODULE RdbSweep ------------------------------
(***************************************************************************)
(* rdb_cache.sweep() beside the uploads of RdbCache.  The host calls it on *)
(* a schedule; it takes no entry's lock.  The host also keeps sessions:    *)
(* `served` is when the latest session over each content asked for it.     *)
(***************************************************************************)
EXTENDS RdbCache, Integers, FiniteSetsExt

CONSTANTS
  Overlap,      \* whether the host sweeps while uploads run
  MinAge,       \* min_age_seconds: the host's session TTL
  MaxAge,       \* max_age_days
  Ceiling,      \* max_gb, in files
  IncomingAge   \* _INCOMING_MAX_AGE

ASSUME SweepAssumption ==
  /\ Overlap \in BOOLEAN
  /\ MinAge \in Nat /\ MaxAge \in Nat /\ Ceiling \in Nat /\ IncomingAge \in Nat
  \* time.time() counts from 1970: 0.0 is older than every limit.
  /\ Boot > MinAge /\ Boot > MaxAge

VARIABLES
  sw,       \* where sweep() is
  swNow,    \* its `now`, read once
  children, \* directories listed and not yet read
  seen,     \* `entries`, then `keep`: [used, size] as read for each entry
  listing,  \* files of _incoming listed and not yet looked at
  pass,     \* "age" or "cap": the loop that called drop
  total,    \* `total` of the second loop
  victim,   \* the entry drop is at
  asked,    \* when each thread's upload began
  served    \* when the latest upload served for each content began

sweepVars == <<sw, swNow, children, seen, listing, pass, total, victim>>
hostVars  == <<asked, served>>
allVars   == <<vars, sweepVars, hostVars>>

SweepTypeOK ==
  /\ TypeOK
  /\ sw \in {"idle", "scan", "parts", "age", "cap", "rm", "forget"}
  /\ swNow \in Time
  /\ children \in SUBSET Sha /\ listing \in SUBSET Part
  /\ \E H \in SUBSET Sha : seen \in [H -> [used : Time \cup {0}, size : Nat]]
  /\ pass \in {"age", "cap"} /\ total \in Nat
  /\ victim \in Sha \cup {None}
  /\ asked \in [Thread -> Time]
  /\ served \in [Sha -> Time \cup {None}]

SweepInit ==
  /\ Init
  /\ sw = "idle" /\ swNow = Boot /\ children = {} /\ seen = [h \in {} |-> 0]
  /\ listing = {} /\ pass = "age" /\ total = 0 /\ victim = None
  /\ asked = [t \in Thread |-> Boot]
  /\ served = [h \in Sha |-> None]

-----------------------------------------------------------------------------
(* Ages and sizes as sweep() reads them *)

\* _last_used: 0.0 when meta.json is missing or cannot be decoded.
LastUsed(h) == IF meta[h] \in {Absent, Torn} THEN 0 ELSE meta[h]
\* _dir_size, in files.
DirSize(h) == (IF source[h] THEN 1 ELSE 0) + Cardinality(extracted[h])

AgeOf(h) == swNow - seen[h].used
Expired(h) == AgeOf(h) >= MinAge /\ AgeOf(h) > MaxAge
\* sorted(keep, key=used): the entries the second loop may be at.
Oldest == {h \in DOMAIN seen : \A g \in DOMAIN seen : seen[h].used <= seen[g].used}
\* Mutant: counts entries.
CountOfKept == Cardinality(DOMAIN seen)

SizeOfKept == MapThenSumSet(LAMBDA h : seen[h].size, DOMAIN seen)
Forgetting(h) == [g \in DOMAIN seen \ {h} |-> seen[g]]

-----------------------------------------------------------------------------
(* sweep() *)

\* `now`, and the listing of the cache directory.
SweepBegin ==
  /\ sw = "idle"
  /\ Overlap \/ \A t \in Thread : pc[t] = "idle"
  /\ sw' = "scan" /\ swNow' = now
  /\ children' = {h \in Sha : root[h]}
  /\ seen' = [h \in {} |-> 0]
  /\ UNCHANGED <<vars, listing, pass, total, victim, hostVars>>

\* One directory of the listing: skipped if it is gone, else read.
SweepRead ==
  /\ sw = "scan"
  /\ \E h \in children :
       /\ children' = children \ {h}
       /\ seen' = IF ~root[h] THEN seen ELSE
                  [g \in DOMAIN seen \cup {h} |->
                     IF g = h THEN [used |-> LastUsed(h), size |-> DirSize(h)]
                     ELSE seen[g]]
  /\ UNCHANGED <<vars, sw, swNow, listing, pass, total, victim, hostVars>>

\* sweep() is over before its end: an exception out of it, or a kill.
SweepCutShort ==
  /\ sw' = "idle" /\ children' = {} /\ seen' = [h \in {} |-> 0]
  /\ listing' = {} /\ victim' = None
  /\ UNCHANGED <<swNow, pass, total, hostVars>>

\* No handler is around the reading: rglob raises under a directory that an
\* upload's rmtree takes away (Python before 3.13), iterdir by itself.
ReadRaises ==
  /\ sw = "scan"
  /\ \/ MayRaise
     \/ \E t \in Thread : pc[t] = "wipe" /\ sha[t] \in children
  /\ SweepCutShort
  /\ UNCHANGED vars

\* The entries are read; _sweep_incoming lists its directory.
SweepReadAll ==
  /\ sw = "scan" /\ children = {}
  /\ sw' = "parts" /\ listing' = DOMAIN incoming
  /\ UNCHANGED <<vars, swNow, children, seen, pass, total, victim, hostVars>>

Stale(p) == swNow - incoming[p] >= IncomingAge

\* One file of the listing: removed when it is still there and too old.  What
\* raises is logged and leaves the file.
SweepPart ==
  /\ sw = "parts"
  /\ \E p \in listing :
       /\ listing' = listing \ {p}
       /\ \/ incoming' = IF p \in DOMAIN incoming /\ Stale(p) THEN Without(p)
                         ELSE incoming
          \/ MayRaise /\ UNCHANGED incoming
  /\ UNCHANGED <<threadVars, lockVars, entryVars, envVars, sw, swNow, children,
                 seen, pass, total, victim, hostVars>>

\* Mutant: gives up at the first file that is not removed.
SweepPartsDoneEarly ==
  /\ sw = "parts"
  /\ sw' = "age" /\ pass' = "age"
  /\ UNCHANGED <<vars, swNow, children, seen, listing, total, victim, hostVars>>

SweepPartsDone ==
  /\ sw = "parts" /\ listing = {}
  /\ sw' = "age" /\ pass' = "age"
  /\ UNCHANGED <<vars, swNow, children, seen, listing, total, victim, hostVars>>

\* First loop: an idle entry is dropped, and never kept.
SweepExpired ==
  /\ sw = "age"
  /\ \E h \in DOMAIN seen : Expired(h) /\ victim' = h
  /\ sw' = "rm"
  /\ UNCHANGED <<vars, swNow, children, seen, listing, pass, total,
                 hostVars>>

SweepToCeiling ==
  /\ sw = "age" /\ \A h \in DOMAIN seen : ~Expired(h)
  /\ sw' = "cap" /\ pass' = "cap" /\ total' = SizeOfKept
  /\ UNCHANGED <<vars, swNow, children, seen, listing, victim, hostVars>>

\* Mutant: a live session's entry is not spared.
SweepLeastUsedAtAnyAge ==
  /\ sw = "cap" /\ total > Ceiling
  /\ \E h \in Oldest : victim' = h
  /\ sw' = "rm"
  /\ UNCHANGED <<vars, swNow, children, seen, listing, pass, total,
                 hostVars>>

\* Second loop: over the ceiling, the least recently used old enough goes.
SweepLeastUsed ==
  /\ sw = "cap" /\ total > Ceiling
  /\ \E h \in Oldest : AgeOf(h) >= MinAge /\ victim' = h
  /\ sw' = "rm"
  /\ UNCHANGED <<vars, swNow, children, seen, listing, pass, total,
                 hostVars>>

\* `break`, or only entries younger than min_age_seconds are left.
SweepEnd ==
  /\ sw = "cap"
  /\ total <= Ceiling \/ \A h \in Oldest : AgeOf(h) < MinAge
  /\ sw' = "idle"
  /\ UNCHANGED <<vars, swNow, children, seen, listing, pass, total, victim,
                 hostVars>>

\* shutil.rmtree takes one file, in the order of the directory.
RemoveFile ==
  /\ sw = "rm"
  /\ \/ /\ meta[victim] /= Absent
        /\ meta' = [meta EXCEPT ![victim] = Absent]
        /\ UNCHANGED <<source, extracted>>
     \/ /\ source[victim]
        /\ source' = [source EXCEPT ![victim] = FALSE]
        /\ UNCHANGED <<meta, extracted>>
     \/ /\ \E s \in extracted[victim] :
             extracted' = [extracted EXCEPT ![victim] = @ \ {s}]
        /\ UNCHANGED <<meta, source>>
  /\ UNCHANGED <<threadVars, lockVars, incoming, root, envVars, sweepVars,
                 hostVars>>

\* The entry's own rmdir, which needs it to be empty.
RemoveRoot ==
  /\ sw = "rm"
  /\ meta[victim] = Absent /\ ~source[victim] /\ extracted[victim] = {}
  /\ root' = [root EXCEPT ![victim] = FALSE]
  /\ sw' = "forget"
  /\ UNCHANGED <<threadVars, lockVars, incoming, source, extracted, meta, envVars,
                 swNow, children, seen, listing, pass, total, victim, hostVars>>

\* Mutant: `total -= size` is left out.
DropDoneKeepsTotal(freed) ==
  /\ sw' = pass
  /\ seen' = Forgetting(victim)
  /\ victim' = None
  /\ UNCHANGED <<swNow, children, listing, pass, total, hostVars>>

\* Mutant: an entry that could not be removed is tried again.
DropDoneRetries(freed) ==
  /\ sw' = pass
  /\ seen' = IF freed THEN Forgetting(victim) ELSE seen
  /\ total' = IF pass = "cap" /\ freed THEN total - seen[victim].size ELSE total
  /\ victim' = None
  /\ UNCHANGED <<swNow, children, listing, pass, hostVars>>

\* drop returns: to the loop that called it, with the entry out of `keep`.
DropDone(freed) ==
  /\ sw' = pass
  /\ seen' = Forgetting(victim)
  /\ total' = IF pass = "cap" /\ freed THEN total - seen[victim].size ELSE total
  /\ victim' = None
  /\ UNCHANGED <<swNow, children, listing, pass, hostVars>>

\* Mutant: rmtree is given up half way although nothing is wrong.
RemoveGivesUp ==
  /\ sw = "rm"
  /\ DropDone(FALSE)
  /\ UNCHANGED vars

\* rmtree raises: by itself, or because an upload adds or takes files under it.
RemoveFails ==
  /\ sw = "rm"
  /\ MayRaise \/ \E t \in Thread : pc[t] \in Inside /\ sha[t] = victim
  /\ DropDone(FALSE)
  /\ UNCHANGED vars

\* _forget_lock, under _LOCKS_GUARD: takes the lock away when nobody holds it.
ForgetLock ==
  /\ sw = "forget"
  /\ LET l == locks[victim]
     IN  locks' = IF l /= None /\ holder[l] = None
                    THEN [locks EXCEPT ![victim] = None] ELSE locks
  /\ DropDone(TRUE)
  /\ UNCHANGED <<threadVars, holder, incoming, entryVars, envVars>>

SweepWork ==
  \/ SweepRead \/ ReadRaises \/ SweepReadAll \/ SweepPart \/ SweepPartsDone
  \/ SweepExpired \/ SweepToCeiling \/ SweepLeastUsed \/ SweepEnd
  \/ RemoveFile \/ RemoveRoot \/ RemoveFails \/ ForgetLock

-----------------------------------------------------------------------------
(* Uploads, the process and the clock, as the host sees them *)

HostStart(t, h) ==
  /\ Overlap \/ sw = "idle"
  /\ Start(t, h)
  /\ asked' = [asked EXCEPT ![t] = now]
  /\ UNCHANGED <<served, sweepVars>>

HostStartFails(t) ==
  /\ Overlap \/ sw = "idle"
  /\ StartFails(t)
  /\ UNCHANGED <<hostVars, sweepVars>>

\* The RdbInfo is returned, and a session keeps its paths.
HostCleanup(t) ==
  /\ \/ /\ Cleanup(t)
        /\ served' = IF ok[t] THEN [served EXCEPT ![sha[t]] = asked[t]] ELSE served
     \/ CleanupFails(t) /\ UNCHANGED served
  /\ UNCHANGED <<asked, sweepVars>>

\* Between two calls of t's step somebody else takes directories away, or puts
\* files back, below its entry: iterdir, rmtree, mkdir or write_bytes raises.
Disturbed(t) ==
  \/ /\ sw = "rm" /\ victim = sha[t]
     /\ pc[t] \in {"scan", "mkdir", "wipe", "extract"}
  \/ \E u \in Thread \ {t} :
       /\ sha[u] = sha[t]
       /\ \/ pc[u] = "wipe" /\ pc[t] \in {"scan", "wipe", "extract"}
          \/ pc[u] = "extract" /\ pc[t] = "wipe"

HostUpload(t) ==
  /\ \/ ReceiveChunk(t) \/ Interrupted(t)
     \/ Work(t) /\ pc[t] /= "cleanup"
     \/ Disturbed(t) /\ Raise(t)
  /\ UNCHANGED <<sweepVars, hostVars>>

\* The sweep dies with the process.
HostCrash ==
  /\ Crash
  /\ SweepCutShort

HostTick == Tick /\ UNCHANGED <<sweepVars, hostVars>>

ThreadWork(t) == HostCleanup(t) \/ HostUpload(t)

SweepNext ==
  \/ \E t \in Thread :
       ThreadWork(t) \/ HostStartFails(t) \/ \E h \in Sha : HostStart(t, h)
  \/ SweepBegin \/ SweepWork
  \/ HostCrash \/ HostTick

SweepSpec == SweepInit /\ [][SweepNext]_allVars
\* A thread that can run does, and so does a sweep once the host called it.
FairSweepSpec ==
  /\ SweepSpec
  /\ \A t \in Thread :
       WF_allVars((HostUpload(t) /\ pc[t] /= "stream") \/ HostCleanup(t))
  /\ WF_allVars(SweepWork)

-----------------------------------------------------------------------------
(* Properties *)

\* "a live session may ... still come back to it, so nothing younger than that
\* is ever removed": while a session over an RDB with a GLE is within its TTL,
\* every file of that RDB's entry is there, as long as the process is not
\* killed.  After a kill too, the sweep begins to remove a complete entry of such
\* a session only if it cannot read its meta.json: one a kill left empty, between
\* the open and the write of touch() or write_meta(), which no touch repairs.
\* (An entry whose rebuilding a kill cut short is not complete, and goes.)
Live(h, when) == served[h] /= None /\ when - served[h] < MinAge
SessionsHaveFiles ==
  \A h \in Sha : Live(h, now) /\ Content[h] \cap Gle /= {}
                 => source[h] /\ extracted[h] = Content[h]
LiveSessionKept ==
  /\ [](crashes = 0 => SessionsHaveFiles)
  /\ [][\A h \in Sha :
          sw /= "rm" /\ sw' = "rm" /\ victim' = h /\ Complete(h) /\ Live(h, swNow)
            => crashes > 0 /\ meta[h] = Torn]_allVars

\* Between sweeps, and unless one of them was killed, an entry that
\* looks complete has every stream of its RDB.
SettledIsWhole == sw = "idle" /\ crashes = 0 => CompleteIsWhole

\* An entry some upload is extracting or reusing is younger than
\* min_age_seconds: sweep() is not removing it.
BusyEntryKept ==
  sw = "rm" => \A t \in Thread : pc[t] \in Inside => sha[t] /= victim

\* "if still over the ceiling, the least recently used ones": an entry goes
\* for the ceiling only while the files that are on the disk at that moment
\* exceed it, and no entry still on the disk was used before it.  The sums and
\* times sweep() goes by were read before its first removal.
OnlyWhatTheCeilingNeeds ==
  [][sw = "cap" /\ sw' = "rm" =>
       /\ MapThenSumSet(DirSize, Sha) > Ceiling
       /\ \A g \in Sha : root[g] => LastUsed(victim') <= LastUsed(g)]_allVars

\* After a sweep nobody disturbed, the cache is under its ceiling or everything
\* in it is a live session's.
CeilingHolds ==
  [][sw = "cap" /\ sw' = "idle" /\ crashes' = crashes =>
       \/ MapThenSumSet(DirSize, Sha) <= Ceiling
       \/ \A h \in Sha : root[h] => now - LastUsed(h) < MinAge + (now - swNow)]_allVars

\* What a killed upload left is not stranded: when a sweep ends, no file under
\* _incoming that was too old when it began is left.
StrandedPartsGone ==
  [][sw = "cap" /\ sw' = "idle" /\ crashes' = crashes =>
       \A p \in DOMAIN incoming : swNow - incoming[p] < IncomingAge]_allVars

\* sweep() ends, whatever the uploads do to the directories it removes.
SweepReturns == sw /= "idle" ~> sw = "idle"
=============================================================================
