--------------------------- MODULE RdbSweepProofs ---------------------------
(***************************************************************************)
(* Proofs about RdbSweep: uploads, kills and sweeps of one cache, for any  *)
(* number of threads and contents and every age limit.  What a sweep beside*)
(* an upload, or a failing rmtree, breaks is proved of a host that sweeps  *)
(* between uploads (~Overlap) on a disk that does not fail (~MayRaise).    *)
(***************************************************************************)
EXTENDS RdbSweep, RdbCacheProofs, NumberLemmas

-----------------------------------------------------------------------------
(* Types, of every behaviour *)

\* The steps of the uploads and of the host are steps of RdbCache, or raise
\* where RdbCache alone would not.
HostStep ==
  \/ \E t \in Thread :
       ThreadWork(t) \/ HostStartFails(t) \/ \E h \in Sha : HostStart(t, h)
  \/ HostCrash \/ HostTick
\* The steps of sweep() that only read the cache.
SweepReads ==
  \/ SweepBegin \/ SweepRead \/ ReadRaises \/ SweepReadAll \/ SweepPartsDone
  \/ SweepExpired \/ SweepToCeiling \/ SweepLeastUsed \/ SweepEnd \/ RemoveFails

LEMMA HostStepIsStep == HostStep => AnyStep
  BY DEF HostStep, ThreadWork, HostCleanup, HostUpload, HostStart, HostStartFails,
         HostCrash, SweepCutShort, HostTick, AnyStep, Next, Work

LEMMA HostStepFrame == HostStep => HostCrash \/ UNCHANGED sweepVars
  BY DEF HostStep, ThreadWork, HostCleanup, HostUpload, HostStart, HostStartFails, HostTick

\* Only a kill counts as one, and the clock goes on by one at most.
LEMMA HostStepClock ==
  HostStep => Crash \/ (crashes' = crashes /\ now' \in {now, now + 1})
  <1>1. ASSUME NEW t \in Thread,
               \/ (\E h \in Sha : Start(t, h)) \/ StartFails(t)
               \/ Cleanup(t) \/ CleanupFails(t)
        PROVE  crashes' = crashes /\ now' = now
    BY <1>1 DEF Start, StartFails, Cleanup, CleanupFails, Leave
  <1>2. ASSUME NEW t \in Thread,
               \/ ReceiveChunk(t) \/ Interrupted(t) \/ LockFor(t) \/ Acquire(t) \/ Check(t)
               \/ Scan(t) \/ TouchRead(t) \/ TouchOpen(t) \/ TouchWrite(t) \/ Invalidate(t)
               \/ Replace(t) \/ Wipe(t) \/ ExtractStream(t) \/ Collect(t) \/ MetaOpen(t)
               \/ MetaWrite(t) \/ Raise(t) \/ Release(t)
        PROVE  crashes' = crashes /\ now' = now
    BY <1>2
    DEF ReceiveChunk, Interrupted, LockFor, Acquire, Check, Scan, TouchRead, TouchOpen,
        TouchWrite, Invalidate, Replace, Wipe, ExtractStream, Collect, MetaOpen, MetaWrite,
        Raise, Release, envVars
  <1>3. Tick => crashes' = crashes /\ now' = now + 1
    BY DEF Tick
  <1> QED
    BY <1>1, <1>2, <1>3, HostStepIsStep DEF AnyStep, Next, Work, Abort

LEMMA SweepReadsOnly == SweepReads => UNCHANGED vars
  BY DEF SweepReads, SweepBegin, SweepRead, ReadRaises, SweepCutShort, SweepReadAll,
         SweepPartsDone,
         SweepExpired,
         SweepToCeiling, SweepLeastUsed, SweepEnd, RemoveFails

LEMMA SweepNextSplit ==
  [SweepNext]_allVars =>
    \/ HostStep \/ SweepReads \/ UNCHANGED allVars
    \/ SweepPart \/ RemoveFile \/ RemoveRoot \/ ForgetLock
  BY DEF SweepNext, SweepWork, HostStep, SweepReads

\* sweep()'s own variables, but for the sizes it sums, and the host's.
SweepVarsInv ==
  /\ sw \in {"idle", "scan", "parts", "age", "cap", "rm", "forget"}
  /\ swNow \in Time
  /\ sw /= "idle" => swNow <= now
  /\ pass \in {"age", "cap"}
  /\ children \subseteq Sha /\ DOMAIN seen \subseteq Sha
  /\ \A h \in DOMAIN seen : seen[h].used \in Time \cup {0}
  /\ victim \in Sha \cup {None}
  /\ sw \in {"rm", "forget"} <=> victim /= None
  /\ asked \in [Thread -> Time] /\ \A t \in Thread : asked[t] <= now
  /\ served \in [Sha -> Time \cup {None}]
  /\ \A h \in Sha : served[h] /= None => served[h] <= now
SweepInv == TypeInv /\ SweepVarsInv

LEMMA RmTypeInv ==
  ASSUME SweepInv, SweepPart \/ RemoveFile \/ RemoveRoot \/ ForgetLock
  PROVE  TypeInv'
  <1> USE NoneAssumption DEF SweepInv, SweepVarsInv
  <1>1. CASE SweepPart
    <2>1. incoming' = incoming \/ \E p \in DOMAIN incoming : incoming' = Without(p)
      BY <1>1 DEF SweepPart
    <2>2. \E P \in SUBSET Part : incoming' \in [P -> Time]
      BY <2>1, WithoutType DEF TypeInv, TypeOK
    <2> QED
      BY <1>1, <2>2
      DEF SweepPart, threadVars, lockVars, entryVars, envVars, TypeInv, TypeOK, ThreadInv
  <1>2. CASE RemoveFile
    <2>0. UNCHANGED <<threadVars, lockVars, incoming, root, envVars>>
      BY <1>2 DEF RemoveFile
    <2>1. meta' = meta \/ meta' = [meta EXCEPT ![victim] = Absent]
      BY <1>2 DEF RemoveFile
    <2>2. source' = source \/ source' = [source EXCEPT ![victim] = FALSE]
      BY <1>2 DEF RemoveFile
    <2>3. \/ extracted' = extracted
          \/ \E s \in extracted[victim] :
               extracted' = [extracted EXCEPT ![victim] = extracted[victim] \ {s}]
      BY <1>2 DEF RemoveFile
    <2>4. extracted' \in [Sha -> SUBSET Stream]
      BY <2>3 DEF TypeInv, TypeOK
    <2> QED
      BY <2>0, <2>1, <2>2, <2>4 DEF threadVars, lockVars, envVars, TypeInv, TypeOK,
         ThreadInv
  <1>3. CASE RemoveRoot
    BY <1>3 DEF RemoveRoot, threadVars, lockVars, envVars, TypeInv, TypeOK, ThreadInv
  <1>4. CASE ForgetLock
    <2>1. locks' = locks \/ locks' = [locks EXCEPT ![victim] = None]
      BY <1>4 DEF ForgetLock
    <2>2. UNCHANGED <<threadVars, holder, incoming, entryVars, envVars>>
      BY <1>4 DEF ForgetLock
    <2> QED
      BY <2>1, <2>2 DEF threadVars, entryVars, envVars, TypeInv, TypeOK, ThreadInv
  <1> QED
    BY <1>1, <1>2, <1>3, <1>4

LEMMA NextSweepTypeInv == SweepInv /\ [SweepNext]_allVars => TypeInv'
  <1> SUFFICES ASSUME SweepInv, [SweepNext]_allVars PROVE TypeInv'
    OBVIOUS
  <1>1. HostStep \/ SweepReads \/ UNCHANGED allVars => [AnyStep]_vars
    BY HostStepIsStep, SweepReadsOnly DEF allVars
  <1> QED
    BY <1>1, NextTypeInv, RmTypeInv, SweepNextSplit DEF SweepInv

LEMMA NextSweepVarsInv == SweepInv /\ [SweepNext]_allVars => SweepVarsInv'
  <1> SUFFICES ASSUME SweepInv, [SweepNext]_allVars PROVE SweepVarsInv'
    OBVIOUS
  <1>0. /\ now \in Time /\ now' \in Time /\ Time \subseteq Nat
        /\ meta \in [Sha -> Time \cup {Absent, Torn}]
        /\ sha \in [Thread -> Sha \cup {None}]
    BY NextSweepTypeInv, BoundsAssumption DEF SweepInv, TypeInv, TypeOK, Time
  <1> USE NoneAssumption DEF SweepVarsInv
  <1>1. ASSUME NEW t \in Thread, NEW h \in Sha, HostStart(t, h) PROVE SweepVarsInv'
    <2>1. now' = now /\ asked' = [asked EXCEPT ![t] = now] /\ served' = served
          /\ UNCHANGED sweepVars
      BY <1>1 DEF HostStart, Start
    <2> QED
      BY <1>0, <2>1 DEF SweepInv, sweepVars
  <1>14. ASSUME NEW t \in Thread, HostStartFails(t) PROVE SweepVarsInv'
    <2>1. now' = now /\ UNCHANGED sweepVars /\ UNCHANGED hostVars
      BY <1>14 DEF HostStartFails, StartFails
    <2> QED
      BY <1>0, <2>1 DEF SweepInv, sweepVars, hostVars
  <1>2. ASSUME NEW t \in Thread, HostCleanup(t) PROVE SweepVarsInv'
    <2>1. /\ now' = now /\ asked' = asked /\ UNCHANGED sweepVars
          /\ served' = [served EXCEPT ![sha[t]] = asked[t]] \/ served' = served
      BY <1>2 DEF HostCleanup, Cleanup, CleanupFails, Leave
    <2> QED
      BY <1>0, <2>1 DEF SweepInv, sweepVars
  <1>3. ASSUME NEW t \in Thread, HostUpload(t) PROVE SweepVarsInv'
    <2>1. now' = now /\ UNCHANGED sweepVars /\ UNCHANGED hostVars
      BY <1>3
      DEF HostUpload, Work, ReceiveChunk, Interrupted, LockFor, Acquire, Check, Scan,
          TouchRead, TouchOpen, TouchWrite, Invalidate, Replace, Wipe, ExtractStream,
          Collect, MetaOpen, MetaWrite, Abort, Raise, Release, Cleanup, CleanupFails,
          Leave, envVars
    <2> QED
      BY <1>0, <2>1 DEF SweepInv, sweepVars, hostVars
  <1>4. CASE HostCrash \/ ReadRaises
    <2>1. /\ sw' = "idle" /\ seen' = [h \in {} |-> 0] /\ victim' = None /\ now' = now
          /\ children' = {}
          /\ UNCHANGED <<swNow, pass>> /\ UNCHANGED hostVars
      BY <1>4 DEF HostCrash, Crash, ReadRaises, SweepCutShort, vars, envVars, hostVars
    <2> QED
      BY <1>0, <2>1 DEF SweepInv, hostVars
  <1>5. CASE HostTick
    <2>1. now' = now + 1 /\ UNCHANGED sweepVars /\ UNCHANGED hostVars
      BY <1>5 DEF HostTick, Tick
    <2> QED
      BY <1>0, <2>1 DEF SweepInv, sweepVars, hostVars, Time
  <1>6. CASE SweepBegin
    <2>1. /\ UNCHANGED <<now, pass, victim>> /\ UNCHANGED hostVars
          /\ sw = "idle" /\ sw' = "scan" /\ swNow' = now
      BY <1>6 DEF SweepBegin, vars, envVars
    <2>2. children' \subseteq Sha /\ DOMAIN seen' \subseteq Sha
          /\ \A h \in DOMAIN seen' : seen'[h].used \in Time \cup {0}
      BY <1>6 DEF SweepBegin
    <2>3. sw' \notin {"rm", "forget"} /\ victim' = None
      BY <2>1 DEF SweepInv
    <2>4. swNow' \in Time /\ swNow' <= now'
      BY <1>0, <2>1
    <2>5. /\ pass' \in {"age", "cap"}
          /\ asked' \in [Thread -> Time] /\ \A t \in Thread : asked'[t] <= now'
          /\ served' \in [Sha -> Time \cup {None}]
          /\ \A h \in Sha : served'[h] /= None => served'[h] <= now'
      BY <2>1 DEF SweepInv, hostVars
    <2> QED
      BY <2>1, <2>2, <2>3, <2>4, <2>5
  <1>7. CASE SweepRead
    <2>1. PICK h \in children :
            seen' = IF ~root[h] THEN seen ELSE
                      [g \in DOMAIN seen \cup {h} |->
                         IF g = h THEN [used |-> LastUsed(h), size |-> DirSize(h)]
                         ELSE seen[g]]
      BY <1>7 DEF SweepRead
    <2>2. h \in Sha /\ LastUsed(h) \in Time \cup {0}
      BY <1>0, <2>1 DEF SweepInv, LastUsed
    <2>3. /\ DOMAIN seen' \subseteq Sha
          /\ \A g \in DOMAIN seen' : seen'[g].used \in Time \cup {0}
      BY <2>1, <2>2 DEF SweepInv
    <2>4. /\ UNCHANGED <<sw, swNow, now, pass, victim>> /\ UNCHANGED hostVars
          /\ children' \subseteq children
      BY <1>7 DEF SweepRead, vars, envVars
    <2> QED
      BY <2>3, <2>4 DEF SweepInv, hostVars
  <1>8. CASE SweepReadAll \/ SweepPartsDone \/ SweepToCeiling \/ SweepEnd
    <2>1. /\ UNCHANGED <<swNow, now, children, seen, victim>> /\ UNCHANGED hostVars
          /\ sw \notin {"idle", "rm", "forget"} /\ sw' \in {"idle", "parts", "age", "cap"}
          /\ pass' \in {"age", "cap"}
      BY <1>8
      DEF SweepReadAll, SweepPartsDone, SweepToCeiling, SweepEnd, vars, envVars, SweepInv
    <2> QED
      BY <2>1 DEF SweepInv, hostVars
  <1>9. CASE SweepExpired \/ SweepLeastUsed
    <2>1. /\ UNCHANGED <<swNow, now, children, seen, pass>> /\ UNCHANGED hostVars
          /\ sw \notin {"idle", "rm", "forget"} /\ sw' = "rm" /\ victim' \in DOMAIN seen
      BY <1>9 DEF SweepExpired, SweepLeastUsed, Oldest, vars, envVars
    <2> QED
      BY <2>1 DEF SweepInv, hostVars
  <1>10. CASE RemoveFails \/ ForgetLock
    <2>1. /\ UNCHANGED <<swNow, now, children, pass>> /\ UNCHANGED hostVars
          /\ sw \in {"rm", "forget"} /\ sw' = pass /\ victim' = None
          /\ seen' = [g \in DOMAIN seen \ {victim} |-> seen[g]]
      BY <1>10 DEF RemoveFails, ForgetLock, DropDone, Forgetting, vars, envVars
    <2> QED
      BY <2>1 DEF SweepInv, hostVars
  <1>11. CASE SweepPart \/ RemoveFile
    <2>1. /\ UNCHANGED <<now, sw, swNow, children, seen, pass, victim>>
          /\ UNCHANGED hostVars
      BY <1>11 DEF SweepPart, RemoveFile, sweepVars, envVars
    <2> QED
      BY <2>1 DEF SweepInv, hostVars
  <1>12. CASE RemoveRoot
    <2>1. /\ UNCHANGED <<swNow, now, children, seen, pass, victim>> /\ UNCHANGED hostVars
          /\ sw = "rm" /\ sw' = "forget"
      BY <1>12 DEF RemoveRoot, envVars
    <2> QED
      BY <2>1 DEF SweepInv, hostVars
  <1>13. CASE UNCHANGED allVars
    <2>1. now' = now /\ UNCHANGED sweepVars /\ UNCHANGED hostVars
      BY <1>13 DEF allVars, vars, envVars
    <2> QED
      BY <2>1 DEF SweepInv, sweepVars, hostVars
  <1> QED
    BY <1>1, <1>2, <1>3, <1>4, <1>5, <1>6, <1>7, <1>8, <1>9, <1>10, <1>11, <1>12,
       <1>13, <1>14
    DEF SweepNext, SweepWork, ThreadWork

LEMMA InitSweepInv == SweepInit => SweepInv
  BY InitTypeInv, BoundsAssumption, NoneAssumption
  DEF SweepInit, SweepInv, SweepVarsInv, Time, Init

\* A sweep, whatever it meets, leaves every variable of the cache of its type.
THEOREM SweepTypeCorrect == SweepSpec => []TypeOK
  <1>1. SweepSpec => []SweepInv
    BY InitSweepInv, NextSweepTypeInv, NextSweepVarsInv, PTL DEF SweepSpec, SweepInv
  <1> QED
    BY <1>1, PTL DEF SweepInv, TypeInv

LEMMA SweepInvHolds == SweepSpec => []SweepInv
  BY InitSweepInv, NextSweepTypeInv, NextSweepVarsInv, PTL DEF SweepSpec, SweepInv

-----------------------------------------------------------------------------
(* What is left for a sweep to remove *)

\* What _sweep_incoming is after is in its listing until it is gone.
PartsInv ==
  sw \in {"parts", "age", "cap", "rm", "forget"} =>
    \A p \in DOMAIN incoming :
      swNow - incoming[p] < IncomingAge \/ (sw = "parts" /\ p \in listing)

\* A file under _incoming keeps its mtime, or it has just been written.
LEMMA IncomingSteps ==
  ASSUME TypeInv, [AnyStep]_vars, NEW p \in DOMAIN incoming'
  PROVE  (p \in DOMAIN incoming /\ incoming'[p] = incoming[p]) \/ incoming'[p] = now
  <1>1. ASSUME NEW t \in Thread,
               (\E h \in Sha : Start(t, h)) \/ StartFails(t) \/ ReceiveChunk(t)
        PROVE  (p \in DOMAIN incoming /\ incoming'[p] = incoming[p]) \/ incoming'[p] = now
    <2>1. ASSUME NEW q \in Part, NewPart(q)
          PROVE  (p \in DOMAIN incoming /\ incoming'[p] = incoming[p]) \/ incoming'[p] = now
      BY <2>1 DEF NewPart
    <2>2. CASE ReceiveChunk(t)
      BY <2>2 DEF ReceiveChunk
    <2> QED
      BY <1>1, <2>1, <2>2 DEF Start, StartFails
  <1>2. ASSUME NEW t \in Thread, Replace(t) \/ Cleanup(t)
        PROVE  (p \in DOMAIN incoming /\ incoming'[p] = incoming[p]) \/ incoming'[p] = now
    BY <1>2 DEF Replace, Cleanup, Without
  <1>3. ASSUME NEW t \in Thread,
               \/ Interrupted(t) \/ LockFor(t) \/ Acquire(t) \/ Check(t)
               \/ Scan(t) \/ TouchRead(t) \/ TouchOpen(t) \/ TouchWrite(t) \/ Invalidate(t)
               \/ Wipe(t) \/ ExtractStream(t) \/ Collect(t) \/ MetaOpen(t) \/ MetaWrite(t)
               \/ Raise(t) \/ Release(t) \/ CleanupFails(t)
        PROVE  incoming' = incoming
    BY <1>3
    DEF CleanupFails, Interrupted, LockFor, Acquire, Check, Scan, TouchRead, TouchOpen,
        TouchWrite,
        Invalidate, Wipe, ExtractStream, Collect, MetaOpen, MetaWrite, Raise, Release
  <1>4. CASE Crash \/ Tick \/ UNCHANGED vars
    BY <1>4 DEF Crash, Tick, vars
  <1> QED
    BY <1>1, <1>2, <1>3, <1>4 DEF AnyStep, Next, Work, Abort

LEMMA NextPartsInv ==
  ASSUME ~MayRaise, 0 < IncomingAge
  PROVE  SweepInv /\ PartsInv /\ [SweepNext]_allVars => PartsInv'
  <1> SUFFICES ASSUME SweepInv, PartsInv, [SweepNext]_allVars,
                      sw' \in {"parts", "age", "cap", "rm", "forget"},
                      NEW p \in DOMAIN incoming'
               PROVE  \/ swNow' - incoming'[p] < IncomingAge
                      \/ sw' = "parts" /\ p \in listing'
    BY DEF PartsInv
  <1>0. /\ now \in Nat /\ swNow \in Nat /\ (sw /= "idle" => swNow <= now)
        /\ IncomingAge \in Nat
        /\ \A q \in DOMAIN incoming : incoming[q] \in Nat
    BY BoundsAssumption, SweepAssumption
    DEF SweepInv, SweepVarsInv, TypeInv, TypeOK, Time
  <1>1. CASE HostStep
    <2>1. sw' = sw /\ swNow' = swNow /\ listing' = listing
      BY <1>1, HostStepFrame DEF HostCrash, SweepCutShort, sweepVars
    <2>2. (p \in DOMAIN incoming /\ incoming'[p] = incoming[p]) \/ incoming'[p] = now
      BY <1>1, HostStepIsStep, IncomingSteps DEF SweepInv
    <2> QED
      BY <1>0, <2>1, <2>2 DEF PartsInv
  <1>2. CASE SweepReadAll
    BY <1>2 DEF SweepReadAll, vars
  <1>3. CASE SweepPart
    <2>1. PICK q \in listing :
            /\ listing' = listing \ {q}
            /\ incoming' = IF q \in DOMAIN incoming /\ Stale(q) THEN Without(q)
                           ELSE incoming
      BY <1>3 DEF SweepPart
    <2>2. sw = "parts" /\ sw' = sw /\ swNow' = swNow
      BY <1>3 DEF SweepPart
    <2>3. p \in DOMAIN incoming /\ incoming'[p] = incoming[p]
      BY <2>1 DEF Without
    <2>4. ASSUME p = q PROVE ~Stale(q)
      BY <2>1, <2>3, <2>4 DEF Without
    <2>5. swNow - incoming[p] < IncomingAge \/ p \in listing
      BY <2>2, <2>3 DEF PartsInv
    <2>6. CASE p = q
      BY <1>0, <2>2, <2>3, <2>4, <2>6 DEF Stale
    <2>7. CASE p /= q
      BY <2>1, <2>2, <2>3, <2>5, <2>7
    <2> QED
      BY <2>6, <2>7
  <1>4. CASE SweepPartsDone
    BY <1>4 DEF SweepPartsDone, PartsInv, vars
  <1>5. CASE SweepReads /\ ~SweepReadAll /\ ~SweepPartsDone
    <2>1. UNCHANGED <<incoming, swNow>> /\ sw \in {"age", "cap", "rm", "forget"}
      BY <1>5, SweepReadsOnly
      DEF SweepReads, SweepBegin, SweepRead, ReadRaises, SweepCutShort, SweepExpired,
          SweepToCeiling, SweepLeastUsed, SweepEnd, RemoveFails, DropDone, vars
    <2> QED
      BY <2>1 DEF PartsInv
  <1>6. CASE RemoveFile \/ RemoveRoot \/ ForgetLock
    <2>1. UNCHANGED <<incoming, swNow>> /\ sw \in {"rm", "forget"}
      BY <1>6 DEF RemoveFile, RemoveRoot, ForgetLock, DropDone, sweepVars
    <2> QED
      BY <2>1 DEF PartsInv
  <1>7. CASE UNCHANGED allVars
    BY <1>7 DEF allVars, vars, sweepVars, PartsInv
  <1> QED
    BY <1>1, <1>2, <1>3, <1>4, <1>5, <1>6, <1>7, SweepNextSplit

\* "_sweep_incoming": what a killed upload left is gone when a sweep ends,
\* though uploads write under _incoming beside it; unless an unlink raises.
THEOREM NoPartIsStranded ==
  ASSUME ~MayRaise, 0 < IncomingAge
  PROVE  SweepSpec => StrandedPartsGone
  <1>1. SweepInit => PartsInv
    BY DEF SweepInit, PartsInv
  <1>2. SweepSpec => [](SweepInv /\ PartsInv)
    BY <1>1, SweepInvHolds, NextPartsInv, PTL DEF SweepSpec
  <1> DEFINE Gone == sw = "cap" /\ sw' = "idle" /\ crashes' = crashes =>
                       \A p \in DOMAIN incoming : swNow - incoming[p] < IncomingAge
  <1>3. SweepInv /\ PartsInv /\ [SweepNext]_allVars => [Gone]_allVars
    BY DEF PartsInv
  <1> QED
    BY <1>2, <1>3, PTL DEF SweepSpec, StrandedPartsGone

-----------------------------------------------------------------------------
(* A host that sweeps between uploads *)

SerialInv == sw /= "idle" => \A t \in Thread : pc[t] = "idle"

\* Then only a kill or the clock interrupts a sweep.
LEMMA AloneWhileSweeping ==
  ASSUME ~Overlap, SerialInv, sw /= "idle", HostStep
  PROVE  HostCrash \/ HostTick
  BY ZenonT(40) DEF SerialInv, HostStep, ThreadWork, HostStart, HostStartFails,
     HostCleanup, HostUpload, Work, LockFor,
         Acquire, Check, Scan, TouchRead, TouchOpen, TouchWrite, Invalidate, Replace, Wipe,
         ExtractStream, Collect, MetaOpen, MetaWrite, Abort, Raise, Release, Cleanup,
         CleanupFails, StartFails, ReceiveChunk,
         Interrupted, Rewriting

LEMMA NextSerialInv ==
  ASSUME ~Overlap
  PROVE  SerialInv /\ [SweepNext]_allVars => SerialInv'
  <1> SUFFICES ASSUME SerialInv, [SweepNext]_allVars, sw' /= "idle", NEW t \in Thread
               PROVE  pc'[t] = "idle"
    BY DEF SerialInv
  <1>1. CASE SweepBegin
    BY <1>1 DEF SweepBegin, vars, threadVars
  <1>2. CASE HostStep
    <2>1. sw /= "idle"
      BY <1>2, HostStepFrame DEF HostCrash, SweepCutShort, sweepVars
    <2>2. HostCrash \/ HostTick
      BY <1>2, <2>1, AloneWhileSweeping
    <2> QED
      BY <2>1, <2>2 DEF HostCrash, SweepCutShort, HostTick, Crash, Tick, threadVars,
         SerialInv
  <1>3. CASE \/ (SweepReads /\ ~SweepBegin) \/ UNCHANGED allVars
             \/ SweepPart \/ RemoveFile \/ RemoveRoot \/ ForgetLock
    <2>1. sw /= "idle" /\ pc' = pc
      BY <1>3, SweepReadsOnly
      DEF SweepReads, SweepRead, ReadRaises, SweepCutShort, SweepReadAll, SweepPartsDone,
          SweepExpired,
          SweepToCeiling,
          SweepLeastUsed, SweepEnd, RemoveFails, allVars, SweepPart, RemoveFile, RemoveRoot,
          ForgetLock, vars, threadVars, sweepVars
    <2> QED
      BY <2>1 DEF SerialInv
  <1> QED
    BY <1>1, <1>2, <1>3, SweepNextSplit

LEMMA NextSweepLockInv ==
  ASSUME SweepInv, SerialInv, LockInv, [SweepNext]_allVars
  PROVE  LockInv'
  <1>1. CASE HostStep \/ SweepReads \/ UNCHANGED allVars
    <2>1. [AnyStep]_vars
      BY <1>1, HostStepIsStep, SweepReadsOnly DEF allVars
    <2> QED
      BY <2>1, NextLockInv DEF SweepInv
  <1>2. CASE SweepPart \/ RemoveFile \/ RemoveRoot \/ ForgetLock
    <2>1. \A t \in Thread : pc'[t] = "idle"
      BY <1>2 DEF SweepPart, RemoveFile, RemoveRoot, ForgetLock, SerialInv, threadVars
    <2> QED
      BY <2>1 DEF LockInv, Inside, Reusing, Rewriting
  <1> QED
    BY <1>1, <1>2, SweepNextSplit

LEMMA SerialInvHolds ==
  ASSUME ~Overlap
  PROVE  SweepSpec => [](SweepInv /\ SerialInv /\ LockInv)
  <1>1. SweepInit => SerialInv /\ LockInv
    BY DEF SweepInit, SerialInv, Init, LockInv, Inside, Reusing, Rewriting
  <1>2. SweepInv /\ SerialInv /\ LockInv /\ [SweepNext]_allVars => SerialInv' /\ LockInv'
    BY NextSerialInv, NextSweepLockInv
  <1> QED
    BY <1>1, <1>2, SweepInvHolds, PTL DEF SweepSpec

\* What run sweep_two_locks breaks with a sweep beside uploads holds of a host
\* that sweeps between them: one thread at a time is inside for one content.
THEOREM OneThreadBetweenSweeps ==
  ASSUME ~Overlap
  PROVE  SweepSpec => []MutualExclusion
  <1>1. SweepInv /\ LockInv => MutualExclusion
    BY LockInvExcludes DEF SweepInv
  <1> QED
    BY <1>1, SerialInvHolds, PTL

\* And what run sweep_of_a_busy_entry breaks: no entry goes under an upload.
THEOREM NoBusyEntryRemoved ==
  ASSUME ~Overlap
  PROVE  SweepSpec => []BusyEntryKept
  <1>1. SerialInv => BusyEntryKept
    BY DEF SerialInv, BusyEntryKept, Inside, Reusing, Rewriting
  <1> QED
    BY <1>1, SerialInvHolds, PTL

-----------------------------------------------------------------------------
(* meta.json says when the latest session asked, on a disk that does not fail *)

MetaSteps(h) == meta'[h] \in {meta[h], Absent, Torn, now}

\* An entry with a meta.json has its directory.
RootInv == \A h \in Sha : meta[h] /= Absent => root[h]

\* No session, and no upload about to return, asked later than its entry's
\* last_used, when there is one to read.
ServedInv ==
  /\ \A t \in Thread : pc[t] \in {"unlock", "cleanup"} /\ ok[t] =>
       (meta[sha[t]] \in Nat => asked[t] <= meta[sha[t]])
  /\ \A h \in Sha : served[h] /= None /\ meta[h] \in Nat => served[h] <= meta[h]

\* Without a kill, an empty meta.json is being written.
TornInv ==
  crashes = 0 =>
    \A h \in Sha : meta[h] = Torn =>
      \E t \in Thread : pc[t] \in {"touch_write", "meta_write"} /\ sha[t] = h


LEMMA NextMetaSteps ==
  ASSUME SweepInv, [SweepNext]_allVars, NEW h \in Sha
  PROVE  MetaSteps(h)
  <1>0. meta \in [Sha -> Time \cup {Absent, Torn}]
    BY DEF SweepInv, TypeInv, TypeOK
  <1>1. ASSUME NEW t \in Thread,
               TouchOpen(t) \/ TouchWrite(t) \/ MetaOpen(t) \/ MetaWrite(t) \/ Invalidate(t)
        PROVE  MetaSteps(h)
    BY <1>0, <1>1
    DEF TouchOpen, TouchWrite, MetaOpen, MetaWrite, Invalidate, OpenMeta, FillMeta,
        MetaSteps
  <1>2. ASSUME NEW t \in Thread,
               \/ (\E g \in Sha : Start(t, g)) \/ ReceiveChunk(t) \/ Interrupted(t)
               \/ LockFor(t) \/ Acquire(t) \/ Check(t) \/ Scan(t) \/ TouchRead(t) \/ Replace(t)
               \/ Wipe(t) \/ ExtractStream(t) \/ Collect(t) \/ Raise(t) \/ Release(t)
               \/ Cleanup(t) \/ CleanupFails(t) \/ StartFails(t)
        PROVE  meta' = meta
    BY <1>2
    DEF Start, ReceiveChunk, Interrupted, LockFor, Acquire, Check, Scan, TouchRead, Replace,
        Wipe, ExtractStream, Collect, Raise, Release, Cleanup, CleanupFails, StartFails,
        Leave, entryVars
  <1>3. HostStep => MetaSteps(h)
    <2>1. Crash \/ Tick => meta' = meta
      BY DEF Crash, Tick, entryVars
    <2> QED
      BY <1>1, <1>2, <2>1, HostStepIsStep DEF AnyStep, Next, Work, Abort, MetaSteps
  <1>4. RemoveFile => MetaSteps(h)
    BY <1>0 DEF RemoveFile, MetaSteps
  <1>5. SweepReads \/ SweepPart \/ RemoveRoot \/ ForgetLock \/ UNCHANGED allVars => meta' = meta
    BY SweepReadsOnly DEF SweepPart, RemoveRoot, ForgetLock, allVars, vars, entryVars
  <1> QED
    BY <1>3, <1>4, <1>5, SweepNextSplit DEF MetaSteps

LEMMA NextRootInv == SweepInv /\ RootInv /\ [SweepNext]_allVars => RootInv'
  <1> SUFFICES ASSUME SweepInv, RootInv, [SweepNext]_allVars PROVE RootInv'
    OBVIOUS
  <1>0. meta \in [Sha -> Time \cup {Absent, Torn}] /\ root \in [Sha -> BOOLEAN]
    BY DEF SweepInv, TypeInv, TypeOK
  <1>1. ASSUME NEW t \in Thread,
               TouchOpen(t) \/ TouchWrite(t) \/ MetaOpen(t) \/ MetaWrite(t) \/ Invalidate(t)
        PROVE  RootInv'
    BY <1>0, <1>1
    DEF TouchOpen, TouchWrite, MetaOpen, MetaWrite, Invalidate, OpenMeta, FillMeta, RootInv
  <1>2. ASSUME NEW t \in Thread, Wipe(t) \/ ExtractStream(t) \/ Raise(t)
        PROVE  RootInv'
    <2>1. meta' = meta /\ (root' = root \/ root' = [root EXCEPT ![sha[t]] = TRUE])
      BY <1>2 DEF Wipe, ExtractStream, Raise
    <2> QED
      BY <1>0, <2>1 DEF RootInv
  <1>3. ASSUME NEW t \in Thread,
               \/ (\E g \in Sha : Start(t, g)) \/ ReceiveChunk(t) \/ Interrupted(t)
               \/ LockFor(t) \/ Acquire(t) \/ Check(t) \/ Scan(t) \/ TouchRead(t) \/ Replace(t)
               \/ Collect(t) \/ Release(t) \/ Cleanup(t) \/ CleanupFails(t) \/ StartFails(t)
        PROVE  meta' = meta /\ root' = root
    BY <1>3
    DEF Start, ReceiveChunk, Interrupted, LockFor, Acquire, Check, Scan, TouchRead, Replace,
        Collect, Release, Cleanup, CleanupFails, StartFails, Leave, entryVars
  <1>4. HostStep => RootInv'
    <2>1. Crash \/ Tick => meta' = meta /\ root' = root
      BY DEF Crash, Tick, entryVars
    <2> QED
      BY <1>1, <1>2, <1>3, <2>1, HostStepIsStep DEF AnyStep, Next, Work, Abort, RootInv
  <1>5. RemoveFile => RootInv'
    BY <1>0 DEF RemoveFile, RootInv
  <1>6. RemoveRoot => RootInv'
    BY <1>0 DEF RemoveRoot, RootInv
  <1>7. SweepReads \/ SweepPart \/ ForgetLock \/ UNCHANGED allVars =>
          meta' = meta /\ root' = root
    BY SweepReadsOnly DEF SweepPart, ForgetLock, allVars, vars, entryVars
  <1> QED
    BY <1>4, <1>5, <1>6, <1>7, SweepNextSplit DEF RootInv

\* How a thread comes to return.
LEMMA Returning ==
  ASSUME SweepInv, [SweepNext]_allVars, NEW t \in Thread,
         pc'[t] \in {"unlock", "cleanup"}, ok'[t]
  PROVE  /\ sha'[t] = sha[t] /\ asked'[t] = asked[t]
         /\ \/ pc[t] \in {"unlock", "cleanup"} /\ ok[t]
            \/ /\ pc'[t] = "unlock"
               /\ TouchRead(t) \/ TouchOpen(t) \/ TouchWrite(t) \/ MetaWrite(t)
  <1> USE DEF Goto
  <1>0. /\ pc \in [Thread -> Outside \cup Inside] /\ ok \in [Thread -> BOOLEAN]
        /\ sha \in [Thread -> Sha \cup {None}] /\ asked \in [Thread -> Time]
    BY DEF SweepInv, SweepVarsInv, TypeInv, TypeOK
  <1> DEFINE Remains ==
        sha'[t] = sha[t] /\ asked'[t] = asked[t] /\ pc[t] \in {"unlock", "cleanup"} /\ ok[t]
  <1>1. ASSUME NEW u \in Thread, NEW h \in Sha, HostStart(u, h) PROVE Remains
    BY <1>0, <1>1 DEF HostStart, Start
  <1>2. ASSUME NEW u \in Thread, HostCleanup(u) \/ HostStartFails(u) PROVE Remains
    BY <1>0, <1>2
    DEF HostCleanup, Cleanup, CleanupFails, Leave, HostStartFails, StartFails, threadVars,
        hostVars
  <1>3. ASSUME NEW u \in Thread, HostUpload(u),
               TouchRead(u) \/ TouchOpen(u) \/ TouchWrite(u) \/ MetaWrite(u)
        PROVE  \/ Remains
               \/ /\ u = t /\ pc'[t] = "unlock" /\ sha'[t] = sha[t] /\ asked'[t] = asked[t]
    BY <1>0, <1>3 DEF HostUpload, hostVars, TouchRead, TouchOpen, TouchWrite, MetaWrite
  <1>4. ASSUME NEW u \in Thread, HostUpload(u),
               \/ ReceiveChunk(u) \/ Interrupted(u) \/ LockFor(u) \/ Acquire(u) \/ Check(u)
               \/ Scan(u) \/ Invalidate(u) \/ Replace(u) \/ Wipe(u) \/ ExtractStream(u)
               \/ Collect(u) \/ MetaOpen(u) \/ Raise(u) \/ Release(u)
        PROVE  Remains
    <2>1. asked' = asked /\ sha' = sha
      BY <1>4
      DEF HostUpload, hostVars, ReceiveChunk, Interrupted, LockFor, Acquire, Check, Scan,
          Invalidate, Replace, Wipe, ExtractStream, Collect, MetaOpen, Raise, Release
    <2>2. CASE u /= t
      <3>1. pc'[t] = pc[t] /\ ok'[t] = ok[t]
        BY <1>0, <1>4, <2>2
        DEF ReceiveChunk, Interrupted, LockFor, Acquire, Check, Scan,
            Invalidate, Replace, Wipe, ExtractStream, Collect, MetaOpen, Raise, Release
      <3> QED
        BY <2>1, <3>1
    <2>3. CASE u = t
      <3>1. Release(t)
        BY <1>0, <1>4, <2>3
        DEF ReceiveChunk, Interrupted, LockFor, Acquire, Check, Scan,
            Invalidate, Replace, Wipe, ExtractStream, Collect, MetaOpen, Raise
      <3> QED
        BY <2>1, <3>1 DEF Release
    <2> QED
      BY <2>2, <2>3
  <1>5. CASE HostCrash
    BY <1>5 DEF HostCrash, SweepCutShort, Crash
  <1>6. CASE HostTick
    BY <1>6 DEF HostTick, Tick, threadVars, hostVars
  <1>7. CASE SweepReads \/ SweepPart \/ RemoveFile \/ RemoveRoot \/ ForgetLock
             \/ UNCHANGED allVars
    <2>1. UNCHANGED threadVars /\ asked' = asked
      BY <1>7, SweepReadsOnly
      DEF SweepReads, SweepBegin, SweepRead, ReadRaises, SweepCutShort, SweepReadAll,
          SweepPartsDone,
          SweepExpired,
          SweepToCeiling, SweepLeastUsed, SweepEnd, RemoveFails, DropDone, SweepPart,
          RemoveFile, RemoveRoot, ForgetLock, allVars, vars, hostVars
    <2> QED
      BY <2>1 DEF threadVars
  <1>8. ASSUME NEW u \in Thread, HostUpload(u)
        PROVE  \/ Remains
               \/ /\ pc'[t] = "unlock" /\ sha'[t] = sha[t] /\ asked'[t] = asked[t]
                  /\ TouchRead(t) \/ TouchOpen(t) \/ TouchWrite(t) \/ MetaWrite(t)
    BY <1>3, <1>4, <1>8 DEF HostUpload, Work, Abort, Cleanup, CleanupFails
  <1> QED
    BY <1>1, <1>2, <1>5, <1>6, <1>7, <1>8, SweepNextSplit DEF HostStep, ThreadWork

LEMMA NextServedInv ==
  ASSUME ~MayRaise, SweepInv, RootInv, ServedInv, [SweepNext]_allVars
  PROVE  ServedInv'
  <1>0. /\ now \in Nat /\ now /= Absent /\ now /= Torn /\ Absent \notin Nat /\ Torn \notin Nat
        /\ meta \in [Sha -> Time \cup {Absent, Torn}] /\ Time \subseteq Nat
        /\ pc \in [Thread -> Outside \cup Inside]
        /\ asked \in [Thread -> Time] /\ \A t \in Thread : asked[t] <= now
        /\ served \in [Sha -> Time \cup {None}]
        /\ \A h \in Sha : served[h] /= None => served[h] <= now
    BY NoneAssumption, BoundsAssumption
    DEF SweepInv, SweepVarsInv, TypeInv, TypeOK, Time
  <1>1. ASSUME NEW t \in Thread, pc'[t] \in {"unlock", "cleanup"}, ok'[t],
               meta'[sha'[t]] \in Nat
        PROVE  asked'[t] <= meta'[sha'[t]]
    <2>1. sha'[t] = sha[t] /\ asked'[t] = asked[t]
      BY <1>1, Returning
    <2>2. CASE pc[t] \in {"unlock", "cleanup"} /\ ok[t]
      <3>1. sha[t] \in Sha
        BY <2>2 DEF SweepInv, TypeInv, ThreadInv
      <3>2. meta'[sha[t]] \in {meta[sha[t]], Absent, Torn, now}
        BY <3>1, NextMetaSteps DEF MetaSteps
      <3> QED
        BY <1>0, <1>1, <2>1, <2>2, <3>2 DEF ServedInv
    <2>3. CASE TouchRead(t)
      BY <1>0, <1>1, <2>1, <2>3 DEF TouchRead, Goto, entryVars
    <2>4. CASE TouchOpen(t)
      <3>1. sha[t] \in Sha
        BY <2>4 DEF TouchOpen, SweepInv, TypeInv, ThreadInv
      <3>2. CASE OpenMeta(sha[t])
        BY <1>0, <1>1, <2>1, <3>1, <3>2 DEF OpenMeta
      <3>3. CASE ~OpenMeta(sha[t])
        <4>1. ~root[sha[t]] /\ meta' = meta
          BY <2>4, <3>3 DEF TouchOpen
        <4>2. meta[sha[t]] = Absent
          BY <3>1, <4>1 DEF RootInv
        <4> QED
          BY <1>0, <1>1, <2>1, <4>1, <4>2
      <3> QED
        BY <3>2, <3>3
    <2>5. CASE TouchWrite(t) \/ MetaWrite(t)
      <3>1. sha[t] \in Sha
        BY <2>5 DEF TouchWrite, MetaWrite, SweepInv, TypeInv, ThreadInv
      <3>2. meta'[sha[t]] \in {Absent, now}
        BY <1>0, <2>5, <3>1 DEF TouchWrite, MetaWrite, FillMeta
      <3> QED
        BY <1>0, <1>1, <2>1, <3>2
    <2> QED
      BY <1>1, <2>2, <2>3, <2>4, <2>5, Returning
  <1>2. ASSUME NEW h \in Sha, served'[h] /= None, meta'[h] \in Nat
        PROVE  served'[h] <= meta'[h]
    <2>1. CASE served'[h] = served[h]
      BY <1>0, <1>2, <2>1, NextMetaSteps DEF MetaSteps, ServedInv
    <2>2. ASSUME NEW t \in Thread, HostCleanup(t) PROVE served'[h] <= meta'[h]
      <3>1. meta' = meta /\ pc[t] = "cleanup"
        BY <2>2 DEF HostCleanup, Cleanup, CleanupFails, Leave, entryVars
      <3>2. CASE ok[t] /\ h = sha[t]
        BY <1>0, <1>2, <2>2, <3>1, <3>2 DEF HostCleanup, CleanupFails, ServedInv
      <3>3. CASE ~(ok[t] /\ h = sha[t])
        <4>1. served'[h] = served[h]
          BY <1>0, <2>2, <3>3 DEF HostCleanup
        <4> QED
          BY <2>1, <4>1
      <3> QED
        BY <3>2, <3>3
    <2>3. ASSUME served' /= served PROVE \E t \in Thread : HostCleanup(t)
      BY <2>3
      DEF SweepNext, SweepWork, ThreadWork, HostStart, HostStartFails, HostUpload,
          HostCrash, SweepCutShort, HostTick,
          SweepBegin, SweepRead, ReadRaises, SweepCutShort, SweepReadAll, SweepPartsDone,
          SweepExpired,
          SweepToCeiling, SweepLeastUsed, SweepEnd, RemoveFails, DropDone, SweepPart,
          RemoveFile, RemoveRoot, ForgetLock, allVars, hostVars
    <2> QED
      BY <2>1, <2>2, <2>3
  <1> QED
    BY <1>1, <1>2 DEF ServedInv

LEMMA NextTornInv ==
  ASSUME ~MayRaise, SweepInv, TornInv, [SweepNext]_allVars
  PROVE  TornInv'
  <1> DEFINE Writes(t, h) == pc[t] \in {"touch_write", "meta_write"} /\ sha[t] = h
  <1> USE DEF Goto
  <1>0. /\ pc \in [Thread -> Outside \cup Inside] /\ sha \in [Thread -> Sha \cup {None}]
        /\ meta \in [Sha -> Time \cup {Absent, Torn}] /\ Torn /= Absent
        /\ now /= Torn /\ crashes \in Nat
    BY NoneAssumption, BoundsAssumption DEF SweepInv, TypeInv, TypeOK, Time
  <1> SUFFICES ASSUME crashes' = 0, NEW h \in Sha, meta'[h] = Torn
               PROVE  \E t \in Thread : Writes(t, h)'
    BY DEF TornInv
  <1>1. ASSUME NEW t \in Thread, TouchOpen(t) \/ MetaOpen(t)
        PROVE  \E u \in Thread : Writes(u, h)'
    <2>1. crashes' = crashes /\ sha' = sha
      BY <1>1 DEF TouchOpen, MetaOpen, envVars
    <2>2. CASE meta[h] = Torn
      <3>1. PICK u \in Thread : Writes(u, h)
        BY <2>1, <2>2 DEF TornInv
      <3> QED
        BY <1>0, <1>1, <2>1, <3>1 DEF TouchOpen, MetaOpen
    <2>3. CASE meta[h] /= Torn
      BY <1>0, <1>1, <2>1, <2>3 DEF TouchOpen, MetaOpen, OpenMeta
    <2> QED
      BY <2>2, <2>3
  <1>2. ASSUME NEW t \in Thread, TouchWrite(t) \/ MetaWrite(t)
        PROVE  \E u \in Thread : Writes(u, h)'
    <2>1. /\ crashes' = crashes /\ sha' = sha /\ h /= sha[t] /\ meta[h] = Torn
          /\ \A u \in Thread : u /= t => pc'[u] = pc[u]
      BY <1>0, <1>2 DEF TouchWrite, MetaWrite, FillMeta, envVars
    <2>2. PICK u \in Thread : Writes(u, h)
      BY <2>1 DEF TornInv
    <2> QED
      BY <2>1, <2>2
  <1>3. ASSUME NEW t \in Thread,
               \/ ReceiveChunk(t) \/ Interrupted(t) \/ LockFor(t) \/ Acquire(t) \/ Check(t)
               \/ Scan(t) \/ TouchRead(t) \/ Invalidate(t) \/ Replace(t) \/ Wipe(t)
               \/ ExtractStream(t) \/ Collect(t) \/ Release(t)
        PROVE  \E u \in Thread : Writes(u, h)'
    <2>1. crashes' = crashes /\ sha' = sha /\ meta[h] = Torn
      BY <1>0, <1>3
      DEF ReceiveChunk, Interrupted, LockFor, Acquire, Check, Scan, TouchRead, Invalidate,
          Replace, Wipe, ExtractStream, Collect, Release, entryVars, envVars
    <2>2. /\ pc[t] \notin {"touch_write", "meta_write"}
          /\ \A u \in Thread : u /= t => pc'[u] = pc[u]
      BY <1>0, <1>3
      DEF ReceiveChunk, Interrupted, LockFor, Acquire, Check, Scan, TouchRead, Invalidate,
          Replace, Wipe, ExtractStream, Collect, Release
    <2> QED
      BY <2>1, <2>2 DEF TornInv
  <1>4. ASSUME NEW t \in Thread,
               \/ (\E g \in Sha : Start(t, g)) \/ Cleanup(t) \/ Abort(t)
               \/ Disturbed(t) /\ Raise(t)
        PROVE  \E u \in Thread : Writes(u, h)'
    <2>1. /\ crashes' = crashes /\ meta[h] = Torn
          /\ pc[t] \notin {"touch_write", "meta_write"}
      BY <1>4
      DEF Start, Abort, Raise, Cleanup, Leave, entryVars, envVars, Missing, Disturbed
    <2>2. \A u \in Thread : u /= t => pc'[u] = pc[u] /\ sha'[u] = sha[u]
      BY <1>0, <1>4 DEF Start, Abort, Raise, Cleanup, Leave
    <2> QED
      BY <2>1, <2>2 DEF TornInv
  <1>5. CASE HostStep
    <2>1. ~Crash
      BY <1>0 DEF Crash
    <2>2. Tick => UNCHANGED <<pc, sha, meta, crashes>>
      BY DEF Tick, threadVars, entryVars
    <2> QED
      BY <1>1, <1>2, <1>3, <1>4, <1>5, <2>1, <2>2
      DEF HostStep, ThreadWork, HostStart, HostStartFails, StartFails, HostCleanup,
          CleanupFails, HostUpload, HostCrash, HostTick, Work, TornInv
  <1>6. CASE RemoveFile
    <2>1. UNCHANGED <<pc, sha, crashes>> /\ meta[h] = Torn
      BY <1>0, <1>6 DEF RemoveFile, threadVars, envVars
    <2> QED
      BY <2>1 DEF TornInv
  <1>7. CASE SweepReads \/ SweepPart \/ RemoveRoot \/ ForgetLock \/ UNCHANGED allVars
    <2>1. UNCHANGED <<pc, sha, crashes, meta>>
      BY <1>7, SweepReadsOnly
      DEF SweepPart, RemoveRoot, ForgetLock, allVars, vars, threadVars, envVars, entryVars
    <2> QED
      BY <2>1 DEF TornInv
  <1> QED
    BY <1>5, <1>6, <1>7, SweepNextSplit
-----------------------------------------------------------------------------
(* Entries between sweeps, without a kill *)

WholeButVictim ==
  \A h \in Sha : Complete(h) => extracted[h] = Content[h] \/ (sw = "rm" /\ victim = h)
\* Of an RDB with a GLE, the upload that is about to return has its entry.
ReturnInv ==
  \A t \in Thread : pc[t] = "cleanup" /\ ok[t] /\ Content[sha[t]] \cap Gle /= {} =>
    Complete(sha[t])
WholeInv == crashes = 0 => EntryInv /\ DoneInv /\ ReturnInv /\ WholeButVictim

\* The age of a session as the sweep, or else the clock, sees it.
SeenNow == IF sw = "idle" THEN now ELSE swNow
LiveInv ==
  crashes = 0 =>
    \A h \in Sha : served[h] /= None /\ Content[h] \cap Gle /= {} =>
      SeenNow - served[h] >= MinAge \/ (Complete(h) /\ victim /= h)

\* Nobody changes what a sweep has read.
SeenInv ==
  sw /= "idle" => \A h \in DOMAIN seen : h = victim \/ seen[h].used = LastUsed(h)

\* The steps of a sweep that leave the entries and the threads as they are.
LEMMA QuietSweepSteps ==
  SweepReads \/ SweepPart \/ ForgetLock \/ UNCHANGED allVars =>
    UNCHANGED <<threadVars, entryVars, envVars>>
  BY SweepReadsOnly DEF SweepPart, ForgetLock, allVars, vars

LEMMA NextSeenInv ==
  ASSUME ~Overlap, SweepInv, SerialInv, SeenInv, [SweepNext]_allVars
  PROVE  SeenInv'
  <1> SUFFICES ASSUME sw' /= "idle", NEW h \in DOMAIN seen', h /= victim'
               PROVE  seen'[h].used = LastUsed(h)'
    BY DEF SeenInv
  <1>0. DOMAIN seen \subseteq Sha /\ victim \in Sha \cup {None} /\ None \notin Sha
        /\ (sw \in {"rm", "forget"} <=> victim /= None) /\ children \subseteq Sha
        /\ meta \in [Sha -> Time \cup {Absent, Torn}]
    BY NoneAssumption DEF SweepInv, SweepVarsInv, TypeInv, TypeOK
  <1>1. CASE HostStep
    <2>1. sw /= "idle"
      BY <1>1, HostStepFrame DEF HostCrash, SweepCutShort, sweepVars
    <2>2. HostTick
      BY <1>1, <2>1, AloneWhileSweeping DEF HostCrash, SweepCutShort
    <2>3. UNCHANGED <<sw, seen, victim, meta>>
      BY <2>2 DEF HostTick, Tick, sweepVars, entryVars
    <2> QED
      BY <2>3 DEF SeenInv, LastUsed
  <1>2. CASE SweepBegin
    BY <1>2 DEF SweepBegin
  <1>3. CASE SweepRead
    <2>1. PICK g \in children :
            seen' = IF ~root[g] THEN seen ELSE
                      [k \in DOMAIN seen \cup {g} |->
                         IF k = g THEN [used |-> LastUsed(g), size |-> DirSize(g)]
                         ELSE seen[k]]
      BY <1>3 DEF SweepRead
    <2>2. sw = "scan" /\ meta' = meta /\ victim' = victim
      BY <1>3 DEF SweepRead, vars, entryVars
    <2>3. LastUsed(h)' = LastUsed(h)
      BY <2>2 DEF LastUsed
    <2>4. CASE h \in DOMAIN seen /\ seen'[h] = seen[h]
      BY <2>2, <2>3, <2>4 DEF SeenInv
    <2>5. CASE h = g /\ seen'[h] = [used |-> LastUsed(g), size |-> DirSize(g)]
      BY <2>3, <2>5
    <2> QED
      BY <2>1, <2>4, <2>5
  <1>4. CASE SweepReadAll \/ SweepPartsDone \/ SweepToCeiling \/ SweepEnd \/ SweepExpired
             \/ SweepLeastUsed \/ SweepPart \/ RemoveRoot \/ UNCHANGED allVars
    <2>1. UNCHANGED <<meta, seen>> /\ sw /= "idle"
      BY <1>4
      DEF SweepReadAll, SweepPartsDone, SweepToCeiling, SweepEnd, SweepExpired,
          SweepLeastUsed, SweepPart, RemoveRoot, allVars, vars, entryVars, sweepVars
    <2>2. victim = None \/ victim' = victim
      BY <1>0, <1>4
      DEF SweepReadAll, SweepPartsDone, SweepToCeiling, SweepEnd, SweepExpired,
          SweepLeastUsed, SweepPart, RemoveRoot, allVars, sweepVars
    <2> QED
      BY <1>0, <2>1, <2>2 DEF SeenInv, LastUsed
  <1>5. CASE RemoveFile
    <2>1. UNCHANGED <<seen, victim, sw>> /\ (\A g \in Sha \ {victim} : meta'[g] = meta[g])
      BY <1>0, <1>5 DEF RemoveFile, sweepVars
    <2> QED
      BY <1>0, <2>1 DEF SeenInv, LastUsed
  <1>6. CASE RemoveFails \/ ForgetLock
    <2>1. meta' = meta /\ seen' = [g \in DOMAIN seen \ {victim} |-> seen[g]] /\ sw /= "idle"
      BY <1>6 DEF RemoveFails, ForgetLock, DropDone, Forgetting, vars, entryVars
    <2> QED
      BY <2>1 DEF SeenInv, LastUsed
  <1>7. CASE ReadRaises
    BY <1>7 DEF ReadRaises, SweepCutShort
  <1> QED
    BY <1>1, <1>2, <1>3, <1>4, <1>5, <1>6, <1>7, SweepNextSplit DEF SweepReads

\* While a sweep runs no thread is anywhere, also after its last step.
LEMMA IdleAfter ==
  ASSUME ~Overlap, SerialInv, sw /= "idle", [SweepNext]_allVars
  PROVE  \A t \in Thread : pc'[t] = "idle"
  <1>1. HostStep => \A t \in Thread : pc'[t] = "idle"
    BY AloneWhileSweeping DEF HostCrash, SweepCutShort, HostTick, Crash, Tick, threadVars,
       SerialInv
  <1>2. ~HostStep => pc' = pc
    BY SweepNextSplit, QuietSweepSteps DEF RemoveFile, RemoveRoot, threadVars
  <1> QED
    BY <1>1, <1>2 DEF SerialInv

LEMMA NextIdleThreads ==
  (\A t \in Thread : pc'[t] = "idle") => EntryInv' /\ DoneInv' /\ ReturnInv'
  BY DEF EntryInv, EntryOK, DoneInv, ReturnInv

LEMMA NextWholeInv ==
  ASSUME ~Overlap, ~MayRaise, SweepInv, SerialInv, LockInv, WholeInv, [SweepNext]_allVars
  PROVE  WholeInv'
  <1> SUFFICES ASSUME crashes' = 0 PROVE (EntryInv /\ DoneInv /\ ReturnInv /\ WholeButVictim)'
    BY DEF WholeInv
  <1>0. /\ crashes \in Nat /\ victim \in Sha \cup {None}
        /\ meta \in [Sha -> Time \cup {Absent, Torn}]
        /\ source \in [Sha -> BOOLEAN] /\ extracted \in [Sha -> SUBSET Stream]
    BY BoundsAssumption DEF SweepInv, SweepVarsInv, TypeInv, TypeOK
  <1>1. CASE HostStep /\ sw = "idle"
    <2>1. [AnyStep]_vars /\ ~Crash /\ ~HostCrash
      BY <1>0, <1>1, HostStepIsStep DEF Crash, HostCrash
    <2>2. crashes = 0 /\ sw' = "idle"
      BY <1>1, <2>1, HostStepFrame, HostStepClock DEF sweepVars
    <2>3. StoreInv /\ ReturnInv
      BY <1>1, <2>2
      DEF WholeInv, WholeButVictim, StoreInv, CacheInv, CompleteIsWhole, SweepInv
    <2>4. EntryInv' /\ CompleteIsWhole' /\ DoneInv'
      BY <2>1, <2>3, NextStoreInv DEF StoreInv, CacheInv
    <2>5. ASSUME NEW t \in Thread, pc'[t] = "cleanup", ok'[t], Content[sha'[t]] \cap Gle /= {}
          PROVE  Complete(sha[t])'
      <3>1. sha'[t] = sha[t] /\ pc[t] \in {"unlock", "cleanup"} /\ ok[t]
        BY <2>5, Returning
      <3>2. Complete(sha[t]) /\ sha[t] \in Sha
        BY <2>3, <2>5, <3>1 DEF StoreInv, DoneInv, ReturnInv, CacheInv, TypeInv, ThreadInv
      <3>3. \A h \in Sha : Complete(h) /\ Content[h] \cap Gle /= {} => Complete(h)'
        BY <2>1, <2>3, NextStays DEF StoreInv
      <3> QED
        BY <2>5, <3>1, <3>2, <3>3 DEF Complete
    <2> QED
      BY <2>2, <2>4, <2>5 DEF ReturnInv, WholeButVictim, CompleteIsWhole
  <1>2. CASE SweepBegin
    <2>1. UNCHANGED vars /\ sw = "idle" /\ crashes = 0
      BY <1>2 DEF SweepBegin, vars, envVars
    <2> QED
      BY <2>1
      DEF vars, threadVars, entryVars, WholeInv, EntryInv, EntryOK, Complete,
          ExpectedRelays,
          RelayList, DoneInv, ReturnInv, WholeButVictim
  <1>3. CASE UNCHANGED allVars
    <2>1. UNCHANGED vars /\ sw' = sw /\ victim' = victim /\ crashes = 0
      BY <1>3 DEF allVars, vars, envVars, sweepVars
    <2> QED
      BY <2>1
      DEF vars, threadVars, entryVars, WholeInv, EntryInv, EntryOK, Complete,
          ExpectedRelays,
          RelayList, DoneInv, ReturnInv, WholeButVictim
  <1>4. CASE sw /= "idle"
    <2>1. EntryInv' /\ DoneInv' /\ ReturnInv'
      BY <1>4, IdleAfter, NextIdleThreads
    <2>2. ~HostCrash
      BY <1>0 DEF HostCrash, SweepCutShort, Crash
    <2>3. CASE RemoveFile
      <3>1. /\ crashes = 0 /\ sw' = "rm" /\ sw = "rm" /\ victim' = victim
            /\ \A h \in Sha \ {victim} :
                 meta'[h] = meta[h] /\ source'[h] = source[h] /\ extracted'[h] = extracted[h]
        BY <1>0, <2>3 DEF RemoveFile, sweepVars, envVars
      <3> QED
        BY <2>1, <3>1 DEF WholeInv, WholeButVictim, Complete
    <2>4. CASE RemoveRoot
      <3>1. crashes = 0 /\ UNCHANGED <<meta, source, extracted>> /\ meta[victim] = Absent
        BY <2>4 DEF RemoveRoot, envVars
      <3> QED
        BY <2>1, <3>1 DEF WholeInv, WholeButVictim, Complete
    <2>5. CASE SweepReads \/ SweepPart \/ ForgetLock \/ HostStep
      <3>1. UNCHANGED entryVars /\ crashes' = crashes
        BY <1>4, <2>2, <2>5, QuietSweepSteps, AloneWhileSweeping
        DEF envVars, HostTick, Tick
      <3>2. sw = "rm" => sw' = "rm" /\ victim' = victim
        <4>1. ~RemoveFails
          BY DEF RemoveFails, SerialInv, Inside, Reusing, Rewriting
        <4> QED
          BY <1>4, <2>2, <2>5, <4>1, AloneWhileSweeping
          DEF HostTick, SweepReads, SweepBegin, SweepRead, ReadRaises, SweepCutShort,
              SweepReadAll,
              SweepPartsDone,
              SweepExpired, SweepToCeiling, SweepLeastUsed, SweepEnd, SweepPart, ForgetLock,
              sweepVars
      <3> QED
        BY <2>1, <3>1, <3>2 DEF WholeInv, WholeButVictim, Complete, entryVars
    <2> QED
      BY <1>3, <2>3, <2>4, <2>5, SweepNextSplit
  <1>5. CASE sw = "idle" /\ ~HostStep /\ ~SweepBegin /\ ~(UNCHANGED allVars)
    BY <1>5, SweepNextSplit
    DEF SweepReads, SweepRead, ReadRaises, SweepCutShort, SweepReadAll, SweepPartsDone,
        SweepExpired,
        SweepToCeiling,
        SweepLeastUsed, SweepEnd, RemoveFails, SweepPart, RemoveFile, RemoveRoot, ForgetLock
  <1> QED
    BY <1>1, <1>2, <1>3, <1>4, <1>5

\* An age only grows, and is greater since an earlier time.
LEMMA OlderStill ==
  ASSUME NEW a \in Nat, NEW b \in Nat, NEW c \in Nat, NEW d \in Nat, NEW m \in Nat,
         a <= b, d <= c, a - c >= m
  PROVE  b - d >= m
  OBVIOUS

\* An entry sweep() chooses and could read belongs to no live session.
LEMMA VictimIsOld ==
  ASSUME SweepInv, SerialInv, ServedInv, SeenInv, NEW h \in Sha,
         SweepExpired \/ SweepLeastUsed, victim' = h,
         Complete(h), meta[h] /= Torn, served[h] /= None
  PROVE  swNow - served[h] >= MinAge
  <1>1. /\ h \in DOMAIN seen /\ AgeOf(h) >= MinAge /\ sw \in {"age", "cap"}
    BY DEF SweepExpired, Expired, SweepLeastUsed, Oldest
  <1>2. h /= victim
    BY <1>1, NoneAssumption DEF SweepInv, SweepVarsInv
  <1>3. seen[h].used = LastUsed(h)
    BY <1>1, <1>2 DEF SeenInv
  <1>4. meta[h] \in Time /\ Time \subseteq Nat
    BY BoundsAssumption DEF Complete, SweepInv, TypeInv, TypeOK, Time
  <1>5. LastUsed(h) = meta[h] /\ served[h] <= meta[h]
    BY <1>4, NoneAssumption DEF LastUsed, Complete, ServedInv
  <1>6. swNow \in Nat /\ served[h] \in Nat /\ MinAge \in Nat
    BY <1>4, SweepAssumption DEF SweepInv, SweepVarsInv
  <1>7. swNow - meta[h] >= MinAge /\ meta[h] \in Nat
    BY <1>1, <1>3, <1>4, <1>5 DEF AgeOf
  <1> QED
    BY <1>5, <1>6, <1>7, OlderStill

LEMMA NextLiveInv ==
  ASSUME ~Overlap, ~MayRaise, SweepInv, SweepInv', SerialInv, LockInv, ServedInv, TornInv,
         SeenInv, WholeInv, LiveInv, [SweepNext]_allVars
  PROVE  LiveInv'
  <1> SUFFICES ASSUME crashes' = 0, NEW h \in Sha, served'[h] /= None,
                      Content[h] \cap Gle /= {}
               PROVE  (SeenNow' - served'[h] >= MinAge) \/ (Complete(h)' /\ victim' /= h)
    BY DEF LiveInv
  <1> DEFINE Kept == (SeenNow' - served'[h] >= MinAge) \/ (Complete(h)' /\ victim' /= h)
  <1>0. /\ crashes \in Nat /\ victim \in Sha \cup {None} /\ None \notin Sha
        /\ (sw \in {"rm", "forget"} <=> victim /= None)
        /\ now \in Nat /\ swNow \in Nat /\ now' \in Nat /\ swNow' \in Nat /\ MinAge \in Nat
        /\ (sw /= "idle" => swNow <= now)
        /\ served \in [Sha -> Nat \cup {None}] /\ served' \in [Sha -> Nat \cup {None}]
        /\ meta \in [Sha -> Time \cup {Absent, Torn}]
        /\ source \in [Sha -> BOOLEAN] /\ extracted \in [Sha -> SUBSET Stream]
    BY BoundsAssumption, SweepAssumption, NoneAssumption
    DEF SweepInv, SweepVarsInv, TypeInv, TypeOK, Time
  \* It is enough that neither the session nor its entry changed.
  <1>1. ASSUME crashes = 0, served'[h] = served[h], SeenNow <= SeenNow',
               Complete(h) => Complete(h)', victim' = h => victim = h
        PROVE  Kept
    <2>1. SeenNow \in Nat /\ SeenNow' \in Nat /\ served[h] \in Nat
      BY <1>0, <1>1 DEF SeenNow
    <2>2. CASE SeenNow - served[h] >= MinAge
      BY <1>0, <1>1, <2>1, <2>2, OlderStill
    <2>3. CASE ~(SeenNow - served[h] >= MinAge)
      BY <1>1, <2>3 DEF LiveInv
    <2> QED
      BY <2>2, <2>3
  <1>2. CASE HostStep /\ sw = "idle"
    <2>1. [AnyStep]_vars /\ ~Crash /\ ~HostCrash
      BY <1>0, <1>2, HostStepIsStep DEF Crash, HostCrash
    <2>8. UNCHANGED sweepVars
      BY <1>2, <2>1, HostStepFrame
    <2>9. crashes' = crashes /\ (now' = now \/ now' = now + 1)
      BY <1>2, <2>1, HostStepClock
    <2>2. crashes = 0 /\ UNCHANGED sweepVars /\ now <= now'
      BY <1>0, <2>8, <2>9
    <2>3. victim = None /\ sw' = "idle" /\ victim' = None
      BY <1>0, <1>2, <2>2 DEF sweepVars
    <2>4. CacheInv /\ ReturnInv
      BY <1>2, <2>2
      DEF WholeInv, WholeButVictim, CacheInv, CompleteIsWhole, SweepInv
    <2>5. Complete(h) => Complete(h)'
      BY <2>1, <2>4, NextStays
    <2>6. CASE served'[h] = served[h]
      BY <1>1, <1>2, <2>2, <2>3, <2>5, <2>6 DEF SeenNow
    <2>7. CASE served'[h] /= served[h]
      <3>1. PICK t \in Thread : HostCleanup(t)
        BY <1>2, <2>1, <2>7
        DEF HostStep, ThreadWork, HostStart, HostStartFails, HostUpload, HostTick, hostVars
      <3>2. h = sha[t] /\ ok[t] /\ pc[t] = "cleanup"
        BY <1>0, <2>7, <3>1 DEF HostCleanup, Cleanup
      <3>3. Complete(h)
        BY <2>4, <3>2 DEF ReturnInv
      <3> QED
        BY <1>0, <2>3, <2>5, <3>3
    <2> QED
      BY <2>6, <2>7
  <1>3. CASE SweepBegin
    <2>1. UNCHANGED vars /\ served' = served /\ sw = "idle" /\ swNow' = now /\ sw' = "scan"
          /\ victim' = victim
      BY <1>3 DEF SweepBegin, hostVars
    <2>2. SeenNow' = SeenNow
      BY <2>1 DEF SeenNow
    <2> QED
      BY <1>0, <1>1, <2>1, <2>2 DEF vars, entryVars, envVars, Complete, SeenNow
  <1>4. CASE sw /= "idle" /\ ~HostStep
    <2>1. /\ served' = served /\ swNow' = swNow /\ now' = now /\ crashes = 0
      BY <1>4, SweepNextSplit, QuietSweepSteps
      DEF SweepReads, SweepBegin, SweepRead, ReadRaises, SweepCutShort, SweepReadAll,
          SweepPartsDone,
          SweepExpired,
          SweepToCeiling, SweepLeastUsed, SweepEnd, RemoveFails, DropDone, SweepPart,
          RemoveFile, RemoveRoot, ForgetLock, allVars, vars, sweepVars, hostVars, envVars
    <2>2. SeenNow = swNow /\ SeenNow <= SeenNow'
      BY <1>0, <1>4, <2>1 DEF SeenNow
    <2>3. CASE victim = h
      <3>1. SeenNow - served[h] >= MinAge
        BY <1>0, <2>1, <2>3 DEF LiveInv
      <3>2. SeenNow' \in Nat /\ SeenNow \in Nat /\ served[h] \in Nat
        BY <1>0, <2>1 DEF SeenNow
      <3> QED
        BY <1>0, <2>1, <2>2, <3>1, <3>2, OlderStill
    <2>4. CASE victim /= h /\ victim' /= h
      <3>1. Complete(h) => Complete(h)'
        <4>1. RemoveFile => /\ meta'[h] = meta[h] /\ source'[h] = source[h]
          BY <1>0, <2>4 DEF RemoveFile
        <4>2. ~RemoveFile => meta' = meta /\ source' = source
          BY <1>4, SweepNextSplit, QuietSweepSteps DEF RemoveRoot, entryVars
        <4> QED
          BY <4>1, <4>2 DEF Complete
      <3> QED
        BY <1>1, <2>1, <2>2, <2>4, <3>1
    <2>5. CASE victim /= h /\ victim' = h
      <3>1. SweepExpired \/ SweepLeastUsed
        BY <1>0, <1>4, <2>5, SweepNextSplit
        DEF SweepReads, SweepBegin, SweepRead, ReadRaises, SweepCutShort, SweepReadAll,
            SweepPartsDone,
            SweepToCeiling, SweepEnd, RemoveFails, DropDone, SweepPart,
            RemoveFile, RemoveRoot, ForgetLock, allVars, sweepVars
      <3>2. meta[h] /= Torn
        BY <1>4, <2>1 DEF TornInv, SerialInv
      <3>3. Complete(h) => swNow - served[h] >= MinAge
        BY <2>1, <2>5, <3>1, <3>2, VictimIsOld
      <3>4. SeenNow - served[h] >= MinAge
        BY <2>1, <2>2, <3>3 DEF LiveInv
      <3>5. SeenNow' \in Nat /\ SeenNow \in Nat /\ served[h] \in Nat
        BY <1>0, <2>1 DEF SeenNow
      <3> QED
        BY <1>0, <2>1, <2>2, <3>4, <3>5, OlderStill
    <2> QED
      BY <2>3, <2>4, <2>5
  <1>5. CASE sw /= "idle" /\ HostStep
    <2>1. HostTick
      BY <1>0, <1>5, AloneWhileSweeping DEF HostCrash, SweepCutShort, Crash
    <2>2. /\ UNCHANGED <<served, swNow, sw, victim, meta, source, crashes>>
      BY <2>1 DEF HostTick, Tick, sweepVars, hostVars, entryVars
    <2> QED
      BY <1>0, <1>1, <1>5, <2>2 DEF SeenNow, Complete
  <1>6. CASE UNCHANGED allVars
    <2>1. /\ UNCHANGED <<served, swNow, sw, now, victim, meta, source, crashes>>
      BY <1>6 DEF allVars, vars, sweepVars, hostVars, entryVars, envVars
    <2> QED
      BY <1>0, <1>1, <2>1 DEF SeenNow, Complete
  <1>7. CASE sw = "idle" /\ ~HostStep /\ ~SweepBegin /\ ~(UNCHANGED allVars)
    BY <1>7, SweepNextSplit
    DEF SweepReads, SweepRead, ReadRaises, SweepCutShort, SweepReadAll, SweepPartsDone,
        SweepExpired,
        SweepToCeiling,
        SweepLeastUsed, SweepEnd, RemoveFails, SweepPart, RemoveFile, RemoveRoot, ForgetLock
  <1> QED
    BY <1>2, <1>3, <1>4, <1>5, <1>6, <1>7

-----------------------------------------------------------------------------
(* What the sweep owes the sessions *)

\* The whole inductive invariant of a host that sweeps between uploads.
HostInv ==
  /\ SweepInv /\ SerialInv /\ LockInv /\ RootInv /\ ServedInv /\ TornInv
  /\ SeenInv /\ WholeInv /\ LiveInv

LEMMA HostInvHolds ==
  ASSUME ~Overlap, ~MayRaise
  PROVE  SweepSpec => []HostInv
  <1>1. SweepInit => SerialInv /\ LockInv /\ RootInv /\ ServedInv /\ TornInv /\ SeenInv
    BY NoneAssumption
    DEF SweepInit, Init, SerialInv, LockInv, Inside, Reusing, Rewriting, RootInv, ServedInv,
        TornInv, SeenInv
  <1>2. SweepInit => WholeInv /\ LiveInv
    BY DEF SweepInit, Init, WholeInv, EntryInv, EntryOK, DoneInv, ReturnInv, WholeButVictim,
           Complete, LiveInv
  <1>3. HostInv /\ [SweepNext]_allVars => SweepInv'
    BY NextSweepTypeInv, NextSweepVarsInv DEF HostInv, SweepInv
  <1>4. HostInv /\ [SweepNext]_allVars => SerialInv' /\ LockInv' /\ RootInv' /\ SeenInv'
    BY NextSerialInv, NextSweepLockInv, NextRootInv, NextSeenInv DEF HostInv
  <1>5. HostInv /\ [SweepNext]_allVars => ServedInv' /\ TornInv'
    BY NextServedInv, NextTornInv DEF HostInv
  <1>6. HostInv /\ [SweepNext]_allVars => WholeInv' /\ LiveInv'
    BY <1>3, NextWholeInv, NextLiveInv DEF HostInv
  <1>7. HostInv /\ [SweepNext]_allVars => HostInv'
    BY <1>3, <1>4, <1>5, <1>6 DEF HostInv
  <1> QED
    BY <1>1, <1>2, <1>7, InitSweepInv, PTL DEF SweepSpec, HostInv

\* Between sweeps, and until a kill, an entry that looks complete is whole: a
\* sweep takes an entry away completely or not at all.
THEOREM SettledEntriesAreWhole ==
  ASSUME ~Overlap, ~MayRaise
  PROVE  SweepSpec => []SettledIsWhole
  <1>1. HostInv => SettledIsWhole
    BY DEF HostInv, WholeInv, WholeButVictim, SettledIsWhole, CompleteIsWhole
  <1> QED
    BY <1>1, HostInvHolds, PTL

\* What run sweep_killed_half_way breaks with a kill holds without one: an
\* upload that returns lists the relays of its RDB, also after sweeps.
THEOREM WholeListsBetweenSweeps ==
  ASSUME ~Overlap, ~MayRaise
  PROVE  SweepSpec => [](crashes = 0 => ReturnedIsWhole)
  <1>1. HostInv => (crashes = 0 => ReturnedIsWhole)
    BY DEF HostInv, WholeInv, EntryInv, EntryOK, ReturnedIsWhole
  <1> QED
    BY <1>1, HostInvHolds, PTL

\* "nothing younger than that is ever removed": while a session over an RDB
\* with a GLE is within min_age_seconds and the process has not been killed,
\* every file of the entry is there.  After kills too, a complete entry of such
\* a session goes only if a kill tore its meta.json.
THEOREM LiveSessionsKept ==
  ASSUME ~Overlap, ~MayRaise
  PROVE  SweepSpec => LiveSessionKept
  <1>1. HostInv => (crashes = 0 => SessionsHaveFiles)
    <2> SUFFICES ASSUME HostInv, crashes = 0, NEW h \in Sha, Live(h, now),
                        Content[h] \cap Gle /= {}
                 PROVE  source[h] /\ extracted[h] = Content[h]
      BY DEF SessionsHaveFiles
    <2>1. /\ SeenNow \in Nat /\ now \in Nat /\ SeenNow <= now /\ served[h] \in Nat
          /\ MinAge \in Nat
      BY BoundsAssumption, SweepAssumption
      DEF HostInv, SweepInv, SweepVarsInv, TypeInv, TypeOK, Time, SeenNow, Live
    <2>2. Complete(h) /\ victim /= h
      BY <2>1 DEF HostInv, LiveInv, Live
    <2> QED
      BY <2>2 DEF HostInv, WholeInv, WholeButVictim, Complete
  <1> DEFINE Spared ==
        \A h \in Sha :
          sw /= "rm" /\ sw' = "rm" /\ victim' = h /\ Complete(h) /\ Live(h, swNow)
            => crashes > 0 /\ meta[h] = Torn
  <1>2. HostInv /\ [SweepNext]_allVars => [Spared]_allVars
    <2> SUFFICES ASSUME HostInv, [SweepNext]_allVars, NEW h \in Sha, sw /= "rm", sw' = "rm",
                        victim' = h, Complete(h), Live(h, swNow)
                 PROVE  crashes > 0 /\ meta[h] = Torn
      OBVIOUS
    <2>1. SweepExpired \/ SweepLeastUsed
      BY SweepNextSplit
      DEF HostInv, SweepInv, SweepVarsInv, HostStep, ThreadWork, HostStart, HostStartFails,
          HostCleanup,
          HostUpload, HostCrash, SweepCutShort, HostTick, SweepReads, SweepBegin,
          SweepRead, ReadRaises, SweepCutShort, SweepReadAll,
          SweepPartsDone, SweepToCeiling, SweepEnd, RemoveFails, DropDone, SweepPart,
          RemoveFile, RemoveRoot, ForgetLock, allVars, sweepVars
    <2>2. swNow \in Nat /\ served[h] \in Nat /\ MinAge \in Nat /\ crashes \in Nat
      BY BoundsAssumption, SweepAssumption
      DEF HostInv, SweepInv, SweepVarsInv, TypeInv, TypeOK, Time, Live
    <2>3. meta[h] = Torn
      BY <2>1, <2>2, VictimIsOld DEF HostInv, Live
    <2>4. sw /= "idle"
      BY <2>1 DEF SweepExpired, SweepLeastUsed
    <2>5. crashes /= 0
      BY <2>3, <2>4 DEF HostInv, TornInv, SerialInv
    <2> QED
      BY <2>2, <2>3, <2>5
  <1>3. SweepSpec => [](crashes = 0 => SessionsHaveFiles)
    BY <1>1, HostInvHolds, PTL
  <1>4. SweepSpec => [][Spared]_allVars
    BY <1>2, HostInvHolds, PTL DEF SweepSpec
  <1> QED
    BY <1>3, <1>4 DEF LiveSessionKept

-----------------------------------------------------------------------------
(* What an entry takes, and the sizes summed *)

DirSizes == [h \in Sha |-> DirSize(h)]
KeptSizes == [h \in DOMAIN seen |-> seen[h].size]

\* The two sums of RdbSweep as sums of a function.
LEMMA SumOfDirSizes == MapThenSumSet(DirSize, Sha) = SumOf(DirSizes, Sha)
  <1> DEFINE Sizes(g) ==
        g = [s \in SUBSET Sha |-> IF s = {} THEN 0
                                  ELSE DirSize(Some(s)) + g[s \ {Some(s)}]]
  <1>1. ASSUME NEW g, NEW s \in SUBSET Sha
        PROVE  SumStep(DirSizes, g, s) =
                 IF s = {} THEN 0 ELSE DirSize(Some(s)) + g[s \ {Some(s)}]
    BY SomeIsIn DEF SumStep, DirSizes
  <1>2. \A g : SumsOver(DirSizes, Sha, g) <=> Sizes(g)
    BY <1>1 DEF SumsOver
  <1> HIDE DEF Sizes
  <1>3. (CHOOSE g : SumsOver(DirSizes, Sha, g)) = (CHOOSE g : Sizes(g))
    BY <1>2
  <1> QED
    BY <1>3 DEF SumOf, MapThenSumSet, MapThenFoldSet, Some, Sizes

LEMMA SumOfKeptSizes == SizeOfKept = SumOf(KeptSizes, DOMAIN seen)
  <1> DEFINE Sizes(g) ==
        g = [s \in SUBSET DOMAIN seen |-> IF s = {} THEN 0
                                  ELSE seen[Some(s)].size + g[s \ {Some(s)}]]
  <1>1. ASSUME NEW g, NEW s \in SUBSET DOMAIN seen
        PROVE  SumStep(KeptSizes, g, s) =
                 IF s = {} THEN 0 ELSE seen[Some(s)].size + g[s \ {Some(s)}]
    BY SomeIsIn DEF SumStep, KeptSizes
  <1>2. \A g : SumsOver(KeptSizes, DOMAIN seen, g) <=> Sizes(g)
    BY <1>1 DEF SumsOver
  <1> HIDE DEF Sizes
  <1>3. (CHOOSE g : SumsOver(KeptSizes, DOMAIN seen, g)) = (CHOOSE g : Sizes(g))
    BY <1>2
  <1> QED
    BY <1>3 DEF SizeOfKept, SumOf, MapThenSumSet, MapThenFoldSet, Some, Sizes

LEMMA DirSizeIsNat ==
  ASSUME IsFiniteSet(Stream), SweepInv, NEW h \in Sha
  PROVE  /\ DirSize(h) \in Nat
         /\ ~source[h] /\ extracted[h] = {} => DirSize(h) = 0
  <1>1. extracted[h] \in SUBSET Stream
    BY DEF SweepInv, TypeInv, TypeOK
  <1>2. Cardinality(extracted[h]) \in Nat
    BY <1>1, SubsetFinite
  <1>3. extracted[h] = {} => Cardinality(extracted[h]) = 0
    BY FS_EmptySet
  <1>4. PICK n : n = Cardinality(extracted[h])
    OBVIOUS
  <1>5. DirSize(h) = (IF source[h] THEN 1 ELSE 0) + n
    BY <1>4 DEF DirSize
  <1>6. n \in Nat /\ (extracted[h] = {} => n = 0)
    BY <1>2, <1>3, <1>4
  <1> QED
    BY ONLY <1>5, <1>6

-----------------------------------------------------------------------------
(* The ceiling *)

\* Only in its directory does an entry have files.
FilesInv == \A h \in Sha : ~root[h] => ~source[h] /\ extracted[h] = {}

\* `total` is what is left of the cache, as long as nobody changes the entries.
TotalInv ==
  sw /= "idle" =>
    /\ sw = "scan" \/ children = {}
    /\ sw = "age" => pass = "age"
    /\ sw \in {"rm", "forget"} => victim \in DOMAIN seen
    /\ sw = "forget" => ~root[victim]
    /\ \A h \in Sha : root[h] => h \in children \cup DOMAIN seen
    /\ \A h \in DOMAIN seen :
         seen[h].size \in Nat /\ (h = victim \/ seen[h].size = DirSize(h))
    /\ (sw = "cap" \/ (sw \in {"rm", "forget"} /\ pass = "cap")) =>
         total = SumOf(KeptSizes, DOMAIN seen)

LEMMA NextFilesInv ==
  ASSUME SweepInv, FilesInv, [SweepNext]_allVars
  PROVE  FilesInv'
  <1>0. /\ root \in [Sha -> BOOLEAN] /\ source \in [Sha -> BOOLEAN]
        /\ extracted \in [Sha -> SUBSET Stream]
    BY DEF SweepInv, TypeInv, TypeOK
  <1>1. ASSUME NEW t \in Thread, Invalidate(t) \/ Replace(t) \/ Wipe(t) \/ ExtractStream(t)
        PROVE  FilesInv'
    BY <1>0, <1>1 DEF Invalidate, Replace, Wipe, ExtractStream, FilesInv
  <1>2. ASSUME NEW t \in Thread, Raise(t) PROVE FilesInv'
    <2>1. /\ source' = source /\ (root' = root \/ root' = [root EXCEPT ![sha[t]] = TRUE])
          /\ \/ extracted' = extracted
             \/ \E rest \in SUBSET extracted[sha[t]] :
                  extracted' = [extracted EXCEPT ![sha[t]] = rest]
      BY <1>2 DEF Raise
    <2> QED
      BY <1>0, <2>1 DEF FilesInv
  <1>3. ASSUME NEW t \in Thread,
               \/ (\E g \in Sha : Start(t, g)) \/ ReceiveChunk(t) \/ Interrupted(t)
               \/ LockFor(t) \/ Acquire(t) \/ Check(t) \/ Scan(t) \/ TouchRead(t)
               \/ TouchOpen(t) \/ TouchWrite(t) \/ Collect(t) \/ MetaOpen(t) \/ MetaWrite(t)
               \/ Release(t) \/ Cleanup(t) \/ CleanupFails(t) \/ StartFails(t)
        PROVE  UNCHANGED <<root, source, extracted>>
    BY <1>3
    DEF Start, ReceiveChunk, Interrupted, LockFor, Acquire, Check, Scan, TouchRead,
        TouchOpen,
        TouchWrite, Collect, MetaOpen, MetaWrite, Release, Cleanup, CleanupFails,
        StartFails, Leave, entryVars
  <1>4. HostStep => FilesInv'
    <2>1. Crash \/ Tick => UNCHANGED <<root, source, extracted>>
      BY DEF Crash, Tick, entryVars
    <2> QED
      BY <1>1, <1>2, <1>3, <2>1, HostStepIsStep DEF AnyStep, Next, Work, Abort, FilesInv
  <1>5. RemoveFile => FilesInv'
    <2> SUFFICES ASSUME RemoveFile PROVE FilesInv'
      OBVIOUS
    <2>1. root' = root /\ (source' = source \/ source' = [source EXCEPT ![victim] = FALSE])
      BY DEF RemoveFile
    <2>2. \/ extracted' = extracted
          \/ \E s \in extracted[victim] :
               extracted' = [extracted EXCEPT ![victim] = extracted[victim] \ {s}]
      BY DEF RemoveFile
    <2> QED
      BY <1>0, <2>1, <2>2 DEF FilesInv
  <1>6. RemoveRoot => FilesInv'
    BY <1>0 DEF RemoveRoot, FilesInv
  <1>7. SweepReads \/ SweepPart \/ ForgetLock \/ UNCHANGED allVars => FilesInv'
    BY SweepReadsOnly DEF SweepPart, ForgetLock, allVars, vars, entryVars, FilesInv
  <1> QED
    BY <1>4, <1>5, <1>6, <1>7, SweepNextSplit

\* Forgetting an entry takes its size from the sum.
LEMMA SumWithout ==
  ASSUME IsFiniteSet(DOMAIN seen), \A h \in DOMAIN seen : seen[h].size \in Nat,
         NEW v \in DOMAIN seen,
         seen' = [g \in DOMAIN seen \ {v} |-> seen[g]]
  PROVE  SumOf(KeptSizes, DOMAIN seen) - seen[v].size = SumOf(KeptSizes, DOMAIN seen)'
  <1>1. \A h \in DOMAIN seen : KeptSizes[h] = seen[h].size
    BY DEF KeptSizes
  <1>2. PICK f, D, e, E : /\ f = KeptSizes /\ D = DOMAIN seen
                          /\ e = KeptSizes' /\ E = DOMAIN seen'
    OBVIOUS
  <1>3. /\ IsFiniteSet(D) /\ v \in D /\ \A h \in D : f[h] \in Nat
        /\ E = D \ {v} /\ \A h \in E : e[h] = f[h]
        /\ f[v] = seen[v].size
    BY <1>1, <1>2 DEF KeptSizes
  <1>4. SumOf(f, D) = f[v] + SumOf(f, D \ {v}) /\ SumOf(f, D) \in Nat /\ f[v] \in Nat
    BY ONLY <1>3, SumOfRemove
  <1>5. IsFiniteSet(E) /\ \A h \in E : f[h] \in Nat
    BY ONLY <1>3, FS_RemoveElement
  <1>51. E \in SUBSET E /\ \A h \in E \ E : f[h] = 0
    OBVIOUS
  <1>6. SumOf(f, E) = SumOf(e, E)
    BY ONLY <1>3, <1>5, <1>51, SumOfAgree
  <1>61. SumOf(f, E) \in Nat
    BY ONLY <1>5, SumOfRemove
  <1>7. SumOf(f, D) - f[v] = SumOf(e, E)
    BY ONLY <1>3, <1>4, <1>6, <1>61
  <1> QED
    BY <1>2, <1>3, <1>7

LEMMA NextTotalInv ==
  ASSUME ~Overlap, ~MayRaise, IsFiniteSet(Sha), IsFiniteSet(Stream),
         SweepInv, SerialInv, TotalInv, [SweepNext]_allVars
  PROVE  TotalInv'
  <1>0. /\ DOMAIN seen \subseteq Sha /\ victim \in Sha \cup {None} /\ None \notin Sha
        /\ (sw \in {"rm", "forget"} <=> victim /= None) /\ children \subseteq Sha
        /\ pass \in {"age", "cap"}
        /\ root \in [Sha -> BOOLEAN] /\ source \in [Sha -> BOOLEAN]
        /\ extracted \in [Sha -> SUBSET Stream]
    BY NoneAssumption DEF SweepInv, SweepVarsInv, TypeInv, TypeOK
  <1>1. CASE HostStep
    <2>1. sw /= "idle" => HostCrash \/ HostTick
      BY <1>1, AloneWhileSweeping
    <2>2. CASE HostCrash
      BY <2>2 DEF HostCrash, SweepCutShort, TotalInv
    <2>3. CASE HostTick
      <3>1. UNCHANGED <<sw, children, pass, victim, seen, root, source, extracted, total>>
        BY <2>3 DEF HostTick, Tick, sweepVars, entryVars
      <3> QED
        BY <3>1 DEF TotalInv, DirSize, KeptSizes
    <2>4. CASE sw = "idle"
      <3>1. sw' = "idle"
        BY <1>1, <2>4, HostStepFrame DEF HostCrash, SweepCutShort, sweepVars
      <3> QED
        BY <3>1 DEF TotalInv
    <2> QED
      BY <2>1, <2>2, <2>3, <2>4
  <1>2. CASE SweepBegin
    BY <1>0, <1>2 DEF SweepBegin, TotalInv, vars, entryVars
  <1>3. CASE SweepRead
    <2>1. PICK g \in children :
            /\ children' = children \ {g}
            /\ seen' = IF ~root[g] THEN seen ELSE
                         [k \in DOMAIN seen \cup {g} |->
                            IF k = g THEN [used |-> LastUsed(g), size |-> DirSize(g)]
                            ELSE seen[k]]
      BY <1>3 DEF SweepRead
    <2>2. /\ sw = "scan" /\ sw' = "scan"
          /\ UNCHANGED <<victim, root, source, extracted>>
      BY <1>3 DEF SweepRead, vars, entryVars
    <2>3. \A h : DirSize(h)' = DirSize(h)
      BY <2>2 DEF DirSize
    <2>4. \A h \in Sha : root[h] => h \in children' \cup DOMAIN seen'
      BY <2>1, <2>2 DEF TotalInv
    <2>5. ASSUME NEW h \in DOMAIN seen'
          PROVE  seen'[h].size \in Nat /\ (h = victim \/ seen'[h].size = DirSize(h))
      <3>1. CASE h \in DOMAIN seen /\ seen'[h] = seen[h]
        BY <2>2, <3>1 DEF TotalInv
      <3>2. CASE h = g /\ seen'[h] = [used |-> LastUsed(g), size |-> DirSize(g)]
        BY <1>0, <3>2, DirSizeIsNat
      <3> QED
        BY <2>1, <3>1, <3>2
    <2> QED
      BY <2>2, <2>3, <2>4, <2>5 DEF TotalInv
  <1>4. CASE SweepReadAll \/ SweepPartsDone \/ SweepPart \/ SweepEnd \/ UNCHANGED allVars
    <2>1. /\ UNCHANGED <<children, seen, victim, root, source, extracted, total>>
          /\ sw = "scan" => children = {} \/ sw' = "scan"
          /\ sw' = "age" => pass' = "age"
          /\ sw' \in {"idle", sw} \/ sw' \in {"parts", "age"}
          /\ sw' = sw => pass' = pass
          /\ sw = "idle" => sw' = "idle"
      BY <1>4
      DEF SweepReadAll, SweepPartsDone, SweepPart, SweepEnd, allVars, vars, sweepVars,
          entryVars,
          TotalInv
    <2>2. \A h : DirSize(h)' = DirSize(h)
      BY <2>1 DEF DirSize
    <2> QED
      BY <2>1, <2>2 DEF TotalInv, KeptSizes
  <1>5. CASE SweepExpired \/ SweepLeastUsed
    <2>1. /\ UNCHANGED <<children, seen, root, source, extracted, total, pass>>
          /\ sw \in {"age", "cap"} /\ sw' = "rm" /\ victim' \in DOMAIN seen
      BY <1>5 DEF SweepExpired, SweepLeastUsed, Oldest, vars, entryVars
    <2>2. \A h : DirSize(h)' = DirSize(h)
      BY <2>1 DEF DirSize
    <2>3. \A h \in DOMAIN seen : seen[h].size \in Nat /\ seen[h].size = DirSize(h)
      BY <1>0, <2>1 DEF TotalInv
    <2> QED
      BY <2>1, <2>2, <2>3 DEF TotalInv, KeptSizes
  <1>6. CASE SweepToCeiling
    <2>1. /\ UNCHANGED <<children, seen, victim, root, source, extracted>>
          /\ sw = "age" /\ sw' = "cap" /\ total' = SumOf(KeptSizes, DOMAIN seen)
      BY <1>6, SumOfKeptSizes DEF SweepToCeiling, vars, entryVars
    <2>2. \A h : DirSize(h)' = DirSize(h)
      BY <2>1 DEF DirSize
    <2> QED
      BY <2>1, <2>2 DEF TotalInv, KeptSizes
  <1>7. CASE RemoveFile
    <2>1. /\ UNCHANGED <<sw, children, pass, victim, seen, root, total>> /\ sw = "rm"
          /\ \A h \in Sha \ {victim} : source'[h] = source[h] /\ extracted'[h] = extracted[h]
      BY <1>0, <1>7 DEF RemoveFile, sweepVars
    <2>2. \A h \in Sha \ {victim} : DirSize(h)' = DirSize(h)
      BY <2>1 DEF DirSize
    <2> QED
      BY <1>0, <2>1, <2>2 DEF TotalInv, KeptSizes
  <1>8. CASE RemoveRoot
    <2>1. /\ UNCHANGED <<children, pass, victim, seen, source, extracted, total>>
          /\ sw = "rm" /\ sw' = "forget" /\ root' = [root EXCEPT ![victim] = FALSE]
      BY <1>8 DEF RemoveRoot
    <2>2. \A h : DirSize(h)' = DirSize(h)
      BY <2>1 DEF DirSize
    <2>3. /\ victim \in Sha /\ ~root'[victim]
          /\ \A h \in Sha : root'[h] => root[h]
      BY <1>0, <2>1
    <2> QED
      BY <2>1, <2>2, <2>3 DEF TotalInv, KeptSizes
  <1>9. CASE RemoveFails
    BY <1>9 DEF RemoveFails, SerialInv, Inside, Reusing, Rewriting
  <1>10. CASE ForgetLock
    <2>1. /\ UNCHANGED <<children, pass, root, source, extracted>>
          /\ sw = "forget" /\ sw' = pass /\ victim' = None
          /\ seen' = [g \in DOMAIN seen \ {victim} |-> seen[g]]
          /\ pass = "cap" => total' = total - seen[victim].size
      BY <1>10 DEF ForgetLock, DropDone, Forgetting, entryVars
    <2>2. \A h : DirSize(h)' = DirSize(h)
      BY <2>1 DEF DirSize
    <2>3. victim \in DOMAIN seen /\ ~root[victim] /\ children = {}
      BY <2>1 DEF TotalInv
    <2>4. \A h \in Sha : root[h] => h \in children' \cup DOMAIN seen'
      BY <2>1, <2>3 DEF TotalInv
    <2>5. \A h \in DOMAIN seen' : seen'[h].size \in Nat /\ seen'[h].size = DirSize(h)
      BY <2>1 DEF TotalInv
    <2>6. pass = "cap" => total' = SumOf(KeptSizes, DOMAIN seen)'
      <3>1. IsFiniteSet(DOMAIN seen)
        BY <1>0, FS_Subset
      <3>2. \A h \in DOMAIN seen : seen[h].size \in Nat
        BY <2>1 DEF TotalInv
      <3>3. SumOf(KeptSizes, DOMAIN seen) - seen[victim].size = SumOf(KeptSizes, DOMAIN seen)'
        BY <2>1, <2>3, <3>1, <3>2, SumWithout
      <3> QED
        BY <2>1, <3>3 DEF TotalInv
    <2> QED
      BY <1>0, <2>1, <2>2, <2>3, <2>4, <2>5, <2>6 DEF TotalInv
  <1>11. CASE ReadRaises
    BY <1>11 DEF ReadRaises, SweepCutShort, TotalInv
  <1> QED
    BY <1>1, <1>2, <1>3, <1>4, <1>5, <1>6, <1>7, <1>8, <1>9, <1>10, <1>11,
       SweepNextSplit DEF SweepReads

LEMMA CeilingInvHolds ==
  ASSUME ~Overlap, ~MayRaise, IsFiniteSet(Sha), IsFiniteSet(Stream)
  PROVE  SweepSpec => [](HostInv /\ FilesInv /\ TotalInv)
  <1>1. SweepInit => FilesInv /\ TotalInv
    BY DEF SweepInit, Init, FilesInv, TotalInv
  <1>2. HostInv /\ FilesInv /\ TotalInv /\ [SweepNext]_allVars => FilesInv' /\ TotalInv'
    BY NextFilesInv, NextTotalInv DEF HostInv
  <1> QED
    BY <1>1, <1>2, HostInvHolds, PTL DEF SweepSpec

\* What the second loop goes by is what is on the disk.
LEMMA CeilingLoopKnows ==
  ASSUME IsFiniteSet(Sha), IsFiniteSet(Stream), HostInv, FilesInv, TotalInv, sw = "cap"
  PROVE  /\ total = MapThenSumSet(DirSize, Sha)
         /\ \A h \in Sha : root[h] => h \in DOMAIN seen
         /\ \A h \in DOMAIN seen : seen[h].used = LastUsed(h) /\ seen[h].used \in Nat
  <1>0. /\ DOMAIN seen \subseteq Sha /\ victim = None /\ None \notin Sha
        /\ \A h \in DOMAIN seen : seen[h].used \in Nat
    BY NoneAssumption, BoundsAssumption
    DEF HostInv, SweepInv, SweepVarsInv, TypeInv, TypeOK, Time
  <1>1. /\ \A h \in Sha : root[h] => h \in DOMAIN seen
        /\ \A h \in DOMAIN seen : seen[h].size = DirSize(h)
        /\ total = SumOf(KeptSizes, DOMAIN seen)
    BY <1>0 DEF TotalInv
  <1>2. \A h \in Sha : DirSizes[h] \in Nat
    BY DirSizeIsNat DEF DirSizes, HostInv
  <1>3. \A h \in Sha \ DOMAIN seen : DirSizes[h] = 0
    BY <1>1, DirSizeIsNat DEF DirSizes, HostInv, FilesInv
  <1>4. \A h \in DOMAIN seen : KeptSizes[h] = DirSizes[h]
    BY <1>0, <1>1 DEF DirSizes, KeptSizes
  <1>5. DOMAIN seen \in SUBSET Sha
    BY <1>0
  <1>6. SumOf(DirSizes, Sha) = SumOf(KeptSizes, DOMAIN seen)
    BY ONLY IsFiniteSet(Sha), <1>2, <1>3, <1>4, <1>5, SumOfAgree
  <1>7. \A h \in DOMAIN seen : seen[h].used = LastUsed(h)
    BY <1>0 DEF HostInv, SeenInv
  <1> QED
    BY <1>0, <1>1, <1>6, <1>7, SumOfDirSizes

\* "if still over the ceiling, the least recently used ones": the size and the
\* times sweep() read before its first removal still tell, at each later one,
\* that the cache is over its ceiling and which entry was used longest ago.
THEOREM OnlyTheOldestGoForTheCeiling ==
  ASSUME ~Overlap, ~MayRaise, IsFiniteSet(Sha), IsFiniteSet(Stream)
  PROVE  SweepSpec => OnlyWhatTheCeilingNeeds
  <1> DEFINE Needed ==
        sw = "cap" /\ sw' = "rm" =>
          /\ MapThenSumSet(DirSize, Sha) > Ceiling
          /\ \A g \in Sha : root[g] => LastUsed(victim') <= LastUsed(g)
  <1>1. HostInv /\ FilesInv /\ TotalInv /\ [SweepNext]_allVars => [Needed]_allVars
    <2> SUFFICES ASSUME HostInv, FilesInv, TotalInv, [SweepNext]_allVars, sw = "cap",
                        sw' = "rm"
                 PROVE  /\ MapThenSumSet(DirSize, Sha) > Ceiling
                        /\ \A g \in Sha : root[g] => LastUsed(victim') <= LastUsed(g)
      OBVIOUS
    <2>1. SweepLeastUsed
      <3>1. ~HostStep
        BY HostStepFrame DEF HostCrash, SweepCutShort, sweepVars
      <3> QED
        BY <3>1, SweepNextSplit
        DEF SweepReads, SweepBegin, SweepRead, ReadRaises, SweepCutShort, SweepReadAll,
            SweepPartsDone, SweepExpired, SweepToCeiling, SweepEnd, RemoveFails, DropDone,
            SweepPart, RemoveFile, RemoveRoot, ForgetLock, allVars, sweepVars
    <2>2. /\ total = MapThenSumSet(DirSize, Sha)
          /\ \A h \in Sha : root[h] => h \in DOMAIN seen
          /\ \A h \in DOMAIN seen : seen[h].used = LastUsed(h) /\ seen[h].used \in Nat
      BY CeilingLoopKnows
    <2>3. total > Ceiling /\ victim' \in DOMAIN seen
          /\ \A g \in DOMAIN seen : seen[victim'].used <= seen[g].used
      BY <2>1 DEF SweepLeastUsed, Oldest
    <2> QED
      BY <2>2, <2>3
  <1> QED
    BY <1>1, CeilingInvHolds, PTL DEF SweepSpec, OnlyWhatTheCeilingNeeds

\* "over the ceiling, the least recently used goes": when a sweep ends that
\* nothing disturbed, the files in the cache are no more than the ceiling, or
\* whatever is left was in use less than min_age_seconds before it began.
THEOREM CacheEndsUnderItsCeiling ==
  ASSUME ~Overlap, ~MayRaise, IsFiniteSet(Sha), IsFiniteSet(Stream)
  PROVE  SweepSpec => CeilingHolds
  <1> DEFINE Held ==
        sw = "cap" /\ sw' = "idle" /\ crashes' = crashes =>
          \/ MapThenSumSet(DirSize, Sha) <= Ceiling
          \/ \A h \in Sha : root[h] => now - LastUsed(h) < MinAge + (now - swNow)
  <1>1. HostInv /\ FilesInv /\ TotalInv /\ [SweepNext]_allVars => [Held]_allVars
    <2> SUFFICES ASSUME HostInv, FilesInv, TotalInv, [SweepNext]_allVars, sw = "cap",
                        sw' = "idle", crashes' = crashes
                 PROVE  \/ MapThenSumSet(DirSize, Sha) <= Ceiling
                        \/ \A h \in Sha : root[h] =>
                             now - LastUsed(h) < MinAge + (now - swNow)
      OBVIOUS
    <2>0. now \in Nat /\ swNow \in Nat /\ MinAge \in Nat /\ crashes \in Nat
      BY BoundsAssumption, SweepAssumption
      DEF HostInv, SweepInv, SweepVarsInv, TypeInv, TypeOK, Time
    <2>1. SweepEnd
      <3>1. ~HostStep
        BY <2>0, HostStepFrame DEF HostCrash, Crash, sweepVars
      <3> QED
        BY <3>1, SweepNextSplit
        DEF SweepReads, SweepBegin, SweepRead, ReadRaises, SweepReadAll, SweepPartsDone,
            SweepExpired, SweepToCeiling, SweepLeastUsed, RemoveFails, DropDone, SweepPart,
            RemoveFile, RemoveRoot, ForgetLock, HostInv, SweepInv, SweepVarsInv, allVars,
            sweepVars
    <2>2. /\ total = MapThenSumSet(DirSize, Sha)
          /\ \A h \in Sha : root[h] => h \in DOMAIN seen
          /\ \A h \in DOMAIN seen : seen[h].used = LastUsed(h) /\ seen[h].used \in Nat
      BY CeilingLoopKnows
    <2>3. CASE total <= Ceiling
      BY <2>2, <2>3
    <2>4. CASE \A h \in Oldest : AgeOf(h) < MinAge
      <3> SUFFICES ASSUME NEW h \in Sha, root[h]
                   PROVE  now - LastUsed(h) < MinAge + (now - swNow)
        OBVIOUS
      <3>1. h \in DOMAIN seen
        BY <2>2
      <3> DEFINE R == {seen[g].used : g \in DOMAIN seen}
      <3>2. R \in SUBSET Nat /\ R /= {}
        BY <2>2, <3>1
      <3>3. PICK r \in R : \A q \in R : r <= q
        BY <3>2, SmallestExists
      <3>4. PICK o \in DOMAIN seen : seen[o].used = r
        OBVIOUS
      <3>5. o \in Oldest
        BY <3>3, <3>4 DEF Oldest
      <3>6. swNow - seen[o].used < MinAge /\ seen[o].used <= seen[h].used
        BY <2>4, <3>1, <3>5 DEF AgeOf, Oldest
      <3>7. seen[o].used \in Nat /\ seen[h].used \in Nat /\ seen[h].used = LastUsed(h)
        BY <2>2, <3>1
      <3> QED
        BY <2>0, <3>6, <3>7
    <2> QED
      BY <2>1, <2>3, <2>4 DEF SweepEnd
  <1> QED
    BY <1>1, CeilingInvHolds, PTL DEF SweepSpec, CeilingHolds
=============================================================================
