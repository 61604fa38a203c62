--------------------------- MODULE RdbCacheProofs ---------------------------
(***************************************************************************)
(* Proofs about RdbCache: for any number of threads, contents and streams, *)
(* with errors at any step and any number of kills.                        *)
(***************************************************************************)
EXTENDS RdbCacheRefinement, TLAPS

-----------------------------------------------------------------------------
(* Types *)

\* What each program point says of its thread's own variables.
ThreadInv ==
  \A t \in Thread :
    /\ pc[t] /= "idle" => sha[t] \in Sha
    /\ pc[t] = "stream" => left[t] \in 1..Chunks
    /\ pc[t] \in Inside \cup {"acquire"} => lk[t] \in Lock
TypeInv == TypeOK /\ ThreadInv

ThreadStep(t) ==
  \/ (\E h \in Sha : Start(t, h)) \/ StartFails(t)
  \/ ReceiveChunk(t) \/ Interrupted(t) \/ Work(t)

\* Steps of Next, and an exception in a thread where the disk is in order: one
\* that somebody else caused there (RdbSweep).
AnyStep == Next \/ \E t \in Thread : Raise(t)

LEMMA NextIsAny == [Next]_vars => [AnyStep]_vars
  BY DEF AnyStep

LEMMA InitTypeInv == Init => TypeInv
  <1> SUFFICES ASSUME Init PROVE TypeInv
    OBVIOUS
  <1>1. \E P \in SUBSET Part : incoming \in [P -> Time]
    <2>1. incoming \in [{} -> Time] /\ {} \in SUBSET Part
      BY DEF Init
    <2> QED
      BY <2>1
  <1>2. now \in Time /\ uploads \in 0..MaxUploads /\ crashes \in 0..MaxCrashes
        /\ stuck \in SUBSET Part
    BY BoundsAssumption DEF Init, Time
  <1>3. /\ pc \in [Thread -> Outside \cup Inside]
        /\ left \in [Thread -> 0..Chunks]
    BY BoundsAssumption DEF Init, Outside, Inside
  <1>4. ThreadInv
    BY DEF Init, ThreadInv, Inside, Reusing, Rewriting
  <1> QED
    BY <1>1, <1>2, <1>3, <1>4 DEF Init, TypeInv, TypeOK

\* Removing a name from _incoming leaves a directory listing.
LEMMA WithoutType ==
  ASSUME NEW p, \E P \in SUBSET Part : incoming \in [P -> Time]
  PROVE  \E P \in SUBSET Part : Without(p) \in [P -> Time]
  <1>1. PICK P \in SUBSET Part : incoming \in [P -> Time]
    OBVIOUS
  <1>2. P \ {p} \in SUBSET Part /\ Without(p) \in [P \ {p} -> Time]
    BY <1>1 DEF Without
  <1> QED
    BY <1>2

\* So does adding one.
LEMMA NewPartType ==
  ASSUME TypeInv, NEW p \in Part, NewPart(p)
  PROVE  \E P \in SUBSET Part : incoming' \in [P -> Time]
  <1>1. PICK P \in SUBSET Part : incoming \in [P -> Time]
    BY DEF TypeInv, TypeOK
  <1>2. P \cup {p} \in SUBSET Part /\ incoming' \in [P \cup {p} -> Time]
    BY <1>1 DEF NewPart, TypeInv, TypeOK
  <1> QED
    BY <1>2

LEMMA NextTypeInv == TypeInv /\ [AnyStep]_vars => TypeInv'
  <1> SUFFICES ASSUME TypeInv, [AnyStep]_vars PROVE TypeInv'
    OBVIOUS
  <1> USE NoneAssumption, BoundsAssumption, ContentAssumption
      DEF TypeInv, TypeOK, ThreadInv, Inside, Outside, Reusing, Rewriting,
          Goto, lockVars, entryVars, envVars, threadVars
  <1>1. ASSUME NEW t \in Thread, NEW h \in Sha, Start(t, h) PROVE TypeInv'
    <2>1. PICK p \in Part :
            /\ NewPart(p)
            /\ tmp' = [tmp EXCEPT ![t] = p]
            /\ stuck' = stuck \ {p}
      BY <1>1 DEF Start
    <2>2. \E P \in SUBSET Part : incoming' \in [P -> Time]
      BY <2>1, NewPartType
    <2>3. /\ uploads' \in 0..MaxUploads
          /\ left' \in [Thread -> 0..Chunks] /\ left'[t] \in 1..Chunks
      BY <1>1 DEF Start
    <2> QED
      BY ZenonT(40), <1>1, <2>1, <2>2, <2>3 DEF Start
  <1>2. ASSUME NEW t \in Thread, ReceiveChunk(t) PROVE TypeInv'
    <2>1. \E P \in SUBSET Part : incoming' \in [P -> Time]
      <3>1. PICK P \in SUBSET Part : incoming \in [P -> Time]
        OBVIOUS
      <3>2. incoming' \in [P -> Time]
        BY <1>2, <3>1 DEF ReceiveChunk
      <3> QED
        BY <3>2
    <2> QED
      BY <1>2, <2>1 DEF ReceiveChunk
  <1>3. ASSUME NEW t \in Thread, Interrupted(t) PROVE TypeInv'
    BY <1>3 DEF Interrupted
  <1>4. ASSUME NEW t \in Thread, LockFor(t) PROVE TypeInv'
    BY <1>4 DEF LockFor
  <1>5. ASSUME NEW t \in Thread, Acquire(t) PROVE TypeInv'
    BY <1>5 DEF Acquire
  <1>6. ASSUME NEW t \in Thread, Check(t) PROVE TypeInv'
    BY <1>6 DEF Check
  <1>7. ASSUME NEW t \in Thread, Scan(t) PROVE TypeInv'
    BY <1>7 DEF Scan, RelayList
  <1>8. ASSUME NEW t \in Thread, TouchRead(t) PROVE TypeInv'
    BY <1>8 DEF TouchRead
  <1>9. ASSUME NEW t \in Thread, TouchOpen(t) PROVE TypeInv'
    BY <1>9 DEF TouchOpen, OpenMeta
  <1>10. ASSUME NEW t \in Thread, TouchWrite(t) PROVE TypeInv'
    BY <1>10 DEF TouchWrite, FillMeta
  <1>11. ASSUME NEW t \in Thread, Invalidate(t) PROVE TypeInv'
    BY <1>11 DEF Invalidate
  <1>12. ASSUME NEW t \in Thread, Replace(t) PROVE TypeInv'
    BY <1>12, WithoutType DEF Replace
  <1>13. ASSUME NEW t \in Thread, Wipe(t) PROVE TypeInv'
    BY <1>13 DEF Wipe
  <1>14. ASSUME NEW t \in Thread, ExtractStream(t) PROVE TypeInv'
    BY <1>14 DEF ExtractStream
  <1>15. ASSUME NEW t \in Thread, Collect(t) PROVE TypeInv'
    BY <1>15 DEF Collect, RelayList
  <1>16. ASSUME NEW t \in Thread, MetaOpen(t) PROVE TypeInv'
    BY <1>16 DEF MetaOpen, OpenMeta
  <1>17. ASSUME NEW t \in Thread, MetaWrite(t) PROVE TypeInv'
    BY <1>17 DEF MetaWrite, FillMeta
  <1>18. ASSUME NEW t \in Thread, Raise(t) PROVE TypeInv'
    <2>1. root' \in [Sha -> BOOLEAN]
      BY <1>18 DEF Raise
    <2>2. extracted' \in [Sha -> SUBSET Stream]
      <3>1. CASE pc[t] = "wipe"
        <4>1. PICK rest \in SUBSET extracted[sha[t]] :
                extracted' = [extracted EXCEPT ![sha[t]] = rest]
          BY <1>18, <3>1 DEF Raise
        <4>2. extracted[sha[t]] \subseteq Stream
          BY <3>1
        <4> QED
          BY <4>1, <4>2
      <3>2. CASE pc[t] /= "wipe"
        BY <1>18, <3>2 DEF Raise
      <3> QED
        BY <3>1, <3>2
    <2> QED
      BY <1>18, <2>1, <2>2 DEF Raise
  <1>19. ASSUME NEW t \in Thread, Release(t) PROVE TypeInv'
    BY <1>19 DEF Release
  <1>20. ASSUME NEW t \in Thread, Cleanup(t) PROVE TypeInv'
    BY <1>20, WithoutType DEF Cleanup, Leave
  <1>21. CASE Crash
    BY <1>21 DEF Crash
  <1>22. CASE Tick
    BY <1>22 DEF Tick, Time
  <1>23. CASE UNCHANGED vars
    BY <1>23 DEF vars
  <1>24. ASSUME NEW t \in Thread, StartFails(t) PROVE TypeInv'
    <2>1. PICK p \in Part : NewPart(p) /\ stuck' = stuck \cup {p}
      BY <1>24 DEF StartFails
    <2>2. \E P \in SUBSET Part : incoming' \in [P -> Time]
      BY <2>1, NewPartType
    <2>3. uploads' \in 0..MaxUploads
      BY <1>24 DEF StartFails
    <2> QED
      BY <1>24, <2>1, <2>2, <2>3 DEF StartFails
  <1>25. ASSUME NEW t \in Thread, CleanupFails(t) PROVE TypeInv'
    <2>1. tmp[t] \in Part
      <3>1. PICK P \in SUBSET Part : incoming \in [P -> Time]
        OBVIOUS
      <3> QED
        BY <1>25, <3>1 DEF CleanupFails
    <2> QED
      BY <1>25, <2>1 DEF CleanupFails, Leave
  <1> QED
    BY <1>1, <1>2, <1>3, <1>4, <1>5, <1>6, <1>7, <1>8, <1>9, <1>10, <1>11,
       <1>12, <1>13, <1>14, <1>15, <1>16, <1>17, <1>18, <1>19, <1>20, <1>21,
       <1>22, <1>23, <1>24, <1>25
    DEF AnyStep, Next, Work, Abort

\* Type correctness of every run of uploads, errors and kills.
THEOREM TypeCorrect == Spec => []TypeOK
  <1>1. Spec => []TypeInv
    BY InitTypeInv, NextTypeInv, NextIsAny, PTL DEF Spec
  <1> QED
    BY <1>1, PTL DEF TypeInv

-----------------------------------------------------------------------------
(* One lock per content *)

\* A thread waiting for a lock, or past it, has the Lock object the table has
\* for its content; inside the with block it holds it.
LockInv ==
  \A t \in Thread :
    /\ pc[t] \in Inside \cup {"acquire"} => locks[sha[t]] = lk[t]
    /\ pc[t] \in Inside => holder[lk[t]] = t

\* Two threads inside for one content would both hold the same Lock object.
LEMMA LockInvExcludes == TypeInv /\ LockInv => MutualExclusion
  BY DEF TypeInv, ThreadInv, LockInv, MutualExclusion

\* A step that leaves the locks alone and moves a thread only within the with
\* block, or only outside it, keeps the lock invariant.
LEMMA LockInvFrame ==
  ASSUME LockInv, UNCHANGED lockVars, UNCHANGED lk,
         \A t \in Thread :
           /\ pc'[t] \in Inside => pc[t] \in Inside
           /\ pc'[t] = "acquire" => pc[t] = "acquire"
           /\ pc'[t] \in Inside \cup {"acquire"} => sha'[t] = sha[t]
  PROVE  LockInv'
  BY DEF LockInv, lockVars

LEMMA NextLockInv == TypeInv /\ LockInv /\ [AnyStep]_vars => LockInv'
  <1> SUFFICES ASSUME TypeInv, LockInv, [AnyStep]_vars PROVE LockInv'
    OBVIOUS
  <1> USE NoneAssumption
      DEF TypeInv, TypeOK, ThreadInv, Inside, Reusing, Rewriting, Goto
  <1>1. ASSUME NEW t \in Thread, LockFor(t) PROVE LockInv'
    <2>1. PICK l \in Lock :
            /\ IF locks[sha[t]] = None THEN Fresh(l) ELSE l = locks[sha[t]]
            /\ lk' = [lk EXCEPT ![t] = l]
            /\ locks' = [locks EXCEPT ![sha[t]] = l]
      BY <1>1 DEF LockFor
    <2>2. pc[t] = "lookup" /\ pc' = [pc EXCEPT ![t] = "acquire"] /\ sha' = sha
          /\ holder' = holder
      BY <1>1 DEF LockFor
    <2>3. ASSUME NEW u \in Thread, pc'[u] \in Inside \cup {"acquire"}
          PROVE  locks'[sha'[u]] = lk'[u]
      <3>1. CASE u = t
        BY <2>1, <2>2, <3>1
      <3>2. CASE u /= t
        <4>1. pc[u] \in Inside \cup {"acquire"} /\ lk[u] \in Lock
              /\ locks[sha[u]] = lk[u] /\ lk'[u] = lk[u]
          BY <2>1, <2>2, <2>3, <3>2 DEF LockInv
        <4>2. sha[u] = sha[t] => l = lk[u]
          BY <2>1, <4>1
        <4> QED
          BY <2>1, <2>2, <4>1, <4>2
      <3> QED
        BY <3>1, <3>2
    <2>4. ASSUME NEW u \in Thread, pc'[u] \in Inside
          PROVE  holder'[lk'[u]] = u
      BY <2>1, <2>2, <2>4 DEF LockInv
    <2> QED
      BY <2>3, <2>4 DEF LockInv
  <1>2. ASSUME NEW t \in Thread, Acquire(t) PROVE LockInv'
    BY <1>2 DEF Acquire, LockInv
  <1>3. ASSUME NEW t \in Thread, Release(t) PROVE LockInv'
    BY <1>3 DEF Release, LockInv
  <1>4. CASE Crash
    BY <1>4 DEF Crash, LockInv
  <1>5. CASE Tick \/ UNCHANGED vars
    BY <1>5, LockInvFrame DEF Tick, vars, threadVars
  <1>6. ASSUME NEW t \in Thread,
               (\E h \in Sha : Start(t, h)) \/ StartFails(t) \/ ReceiveChunk(t)
               \/ Interrupted(t) \/ Cleanup(t) \/ CleanupFails(t)
        PROVE  LockInv'
    BY <1>6, LockInvFrame
    DEF Start, StartFails, threadVars, ReceiveChunk, Interrupted, Cleanup, CleanupFails,
        Leave
  <1>7. ASSUME NEW t \in Thread,
               Check(t) \/ Scan(t) \/ TouchRead(t) \/ TouchOpen(t) \/ TouchWrite(t)
        PROVE  LockInv'
    BY <1>7, LockInvFrame DEF Check, Scan, TouchRead, TouchOpen, TouchWrite
  <1>8. ASSUME NEW t \in Thread,
               Invalidate(t) \/ Replace(t) \/ Wipe(t) \/ ExtractStream(t)
               \/ Collect(t) \/ MetaOpen(t) \/ MetaWrite(t) \/ Raise(t)
        PROVE  LockInv'
    BY <1>8, LockInvFrame DEF Invalidate, Replace, Wipe, ExtractStream, Collect,
       MetaOpen, MetaWrite, Raise
  <1> QED
    BY <1>1, <1>2, <1>3, <1>4, <1>5, <1>6, <1>7, <1>8 DEF AnyStep, Next, Work, Abort

\* "One lock per hash ... the second waits": while no sweep runs, two uploads
\* are never inside the with block for the same content.
THEOREM OneThreadPerContent == Spec => []MutualExclusion
  <1>1. Init => LockInv
    BY DEF Init, LockInv, Inside, Reusing, Rewriting
  <1>2. Spec => [](TypeInv /\ LockInv)
    BY <1>1, InitTypeInv, NextTypeInv, NextLockInv, NextIsAny, PTL DEF Spec
  <1> QED
    BY <1>2, LockInvExcludes, PTL

-----------------------------------------------------------------------------
(* Whole extractions *)

\* How far a thread inside the with block is with its content's entry.
EntryOK(t) ==
  /\ pc[t] \in {"replace", "wipe", "extract", "meta_open"} =>
       meta[sha[t]] = Absent
  /\ pc[t] \in {"wipe", "extract", "meta_open"} => source[sha[t]]
  /\ pc[t] = "extract" => extracted[sha[t]] \cup todo[t] = Content[sha[t]]
  /\ pc[t] \in {"meta_open", "meta_write"} =>
       extracted[sha[t]] = Content[sha[t]]
  /\ pc[t] \in {"scan", "touch", "touch_open", "touch_write", "meta_write"} =>
       Complete(sha[t])
  /\ pc[t] = "mkdir" /\ Complete(sha[t]) => Content[sha[t]] \cap Gle = {}
  /\ \/ pc[t] \in {"touch", "touch_open", "touch_write", "meta_open", "meta_write"}
     \/ pc[t] \in {"unlock", "cleanup"} /\ ok[t]
     => relays[t] = ExpectedRelays(sha[t])
EntryInv == \A t \in Thread : EntryOK(t)

\* The whole inductive invariant.
CacheInv == TypeInv /\ LockInv /\ CompleteIsWhole /\ EntryInv

\* A step of t, t being inside the with block or leaving the entries alone: it
\* is enough to look at t itself and at its own content's entry.
LEMMA StepOfOne ==
  ASSUME CacheInv, NEW t \in Thread,
         pc[t] \in Inside \/ UNCHANGED entryVars,
         \A u \in Thread \ {t} :
           /\ pc'[u] = pc[u] /\ sha'[u] = sha[u] /\ todo'[u] = todo[u]
           /\ relays'[u] = relays[u] /\ ok'[u] = ok[u],
         \A h \in Sha \ {sha[t]} :
           meta'[h] = meta[h] /\ source'[h] = source[h] /\ extracted'[h] = extracted[h],
         \A h \in Sha : h = sha[t] /\ Complete(h)' => extracted'[h] = Content[h],
         EntryOK(t)'
  PROVE  CompleteIsWhole' /\ EntryInv'
  <1>1. CompleteIsWhole'
    BY DEF CacheInv, CompleteIsWhole, Complete
  <1>2. ASSUME NEW u \in Thread, u /= t PROVE EntryOK(u)'
    <2>1. CASE pc[u] \in Inside
      <3>1. sha[u] \in Sha
        BY <2>1 DEF CacheInv, TypeInv, ThreadInv, Inside, Reusing, Rewriting
      <3>2. sha[u] /= sha[t] \/ UNCHANGED entryVars
        BY <1>2, <2>1, LockInvExcludes DEF CacheInv, MutualExclusion
      <3>3. /\ meta'[sha[u]] = meta[sha[u]] /\ source'[sha[u]] = source[sha[u]]
            /\ extracted'[sha[u]] = extracted[sha[u]]
        BY <3>1, <3>2 DEF entryVars
      <3>4. EntryOK(u)
        BY DEF CacheInv, EntryInv
      <3>5. /\ pc'[u] = pc[u] /\ sha'[u] = sha[u] /\ todo'[u] = todo[u]
            /\ relays'[u] = relays[u] /\ ok'[u] = ok[u]
        BY <1>2
      <3> QED
        BY <3>3, <3>4, <3>5 DEF EntryOK, Complete, ExpectedRelays, RelayList
    <2>2. CASE pc[u] \notin Inside
      BY <1>2, <2>2
      DEF CacheInv, EntryInv, EntryOK, ExpectedRelays, RelayList, Inside,
          Reusing, Rewriting
    <2> QED
      BY <2>1, <2>2
  <1> QED
    BY <1>1, <1>2 DEF EntryInv

\* Steps that change no thread and no entry.
Quiet == Tick \/ UNCHANGED vars \/ \E t \in Thread : StartFails(t)

LEMMA QuietFrame == Quiet => UNCHANGED <<threadVars, entryVars>>
  BY DEF Quiet, Tick, StartFails, vars

LEMMA NextEntryInv == CacheInv /\ [AnyStep]_vars => CompleteIsWhole' /\ EntryInv'
  <1> SUFFICES ASSUME CacheInv, [AnyStep]_vars PROVE CompleteIsWhole' /\ EntryInv'
    OBVIOUS
  <1> USE DEF Goto
  <1>1. ASSUME NEW t \in Thread, NEW h \in Sha, Start(t, h)
        PROVE  CompleteIsWhole' /\ EntryInv'
    <2>1. EntryOK(t)'
      BY <1>1 DEF Start, CacheInv, TypeInv, TypeOK, EntryOK
    <2> QED
      BY <1>1, <2>1, StepOfOne
      DEF Start, entryVars, CacheInv, TypeInv, TypeOK, CompleteIsWhole, Complete
  <1>2. ASSUME NEW t \in Thread,
               ReceiveChunk(t) \/ Interrupted(t) \/ LockFor(t) \/ Acquire(t)
        PROVE  CompleteIsWhole' /\ EntryInv'
    BY <1>2, StepOfOne
    DEF ReceiveChunk, Interrupted, LockFor, Acquire, entryVars, CacheInv, TypeInv,
        TypeOK, CompleteIsWhole, Complete, EntryOK
  <1>3. ASSUME NEW t \in Thread,
               Release(t) \/ Cleanup(t) \/ CleanupFails(t) \/ TouchRead(t)
        PROVE  CompleteIsWhole' /\ EntryInv'
    <2>1. EntryOK(t)
      BY DEF CacheInv, EntryInv
    <2>2. EntryOK(t)'
      <3>1. CASE Release(t)
        BY <2>1, <3>1
        DEF Release, CacheInv, TypeInv, TypeOK, EntryOK, ExpectedRelays, RelayList
      <3>2. CASE Cleanup(t) \/ CleanupFails(t)
        BY <3>2 DEF Cleanup, CleanupFails, Leave, CacheInv, TypeInv, TypeOK, EntryOK
      <3>3. CASE TouchRead(t)
        BY <2>1, <3>3
        DEF TouchRead, entryVars, CacheInv, TypeInv, TypeOK, EntryOK, Complete,
            ExpectedRelays, RelayList
      <3> QED
        BY <1>3, <3>1, <3>2, <3>3
    <2> QED
      BY <1>3, <2>2, StepOfOne
      DEF Release, Cleanup, CleanupFails, Leave, TouchRead, entryVars, CacheInv, TypeInv,
          TypeOK, CompleteIsWhole, Complete
  <1>4. ASSUME NEW t \in Thread, Check(t)
        PROVE  CompleteIsWhole' /\ EntryInv'
    BY <1>4, StepOfOne
    DEF Check, entryVars, CacheInv, TypeInv, TypeOK, CompleteIsWhole, Complete, EntryOK
  <1>5. ASSUME NEW t \in Thread, Scan(t)
        PROVE  CompleteIsWhole' /\ EntryInv'
    <2>1. sha[t] \in Sha /\ pc[t] = "scan" /\ pc[t] \in Inside
      BY <1>5 DEF Scan, CacheInv, TypeInv, ThreadInv, Inside, Reusing
    <2>2. extracted[sha[t]] = Content[sha[t]] /\ Complete(sha[t])
      BY <2>1 DEF CacheInv, EntryInv, EntryOK, CompleteIsWhole
    <2>3. EntryOK(t)'
      BY <1>5, <2>1, <2>2
      DEF Scan, CacheInv, TypeInv, TypeOK, entryVars, EntryOK, Complete,
          ExpectedRelays, RelayList
    <2> QED
      BY <1>5, <2>2, <2>3, StepOfOne
      DEF Scan, entryVars, CacheInv, TypeInv, TypeOK, Complete
  <1>6. ASSUME NEW t \in Thread, TouchOpen(t) \/ TouchWrite(t)
        PROVE  CompleteIsWhole' /\ EntryInv'
    <2>1. sha[t] \in Sha /\ pc[t] \in {"touch_open", "touch_write"} /\ pc[t] \in Inside
      BY <1>6 DEF TouchOpen, TouchWrite, CacheInv, TypeInv, ThreadInv, Inside, Reusing
    <2>2. /\ extracted[sha[t]] = Content[sha[t]] /\ Complete(sha[t])
          /\ relays[t] = ExpectedRelays(sha[t])
      BY <2>1 DEF CacheInv, EntryInv, EntryOK, CompleteIsWhole
    <2>3. Complete(sha[t])'
      <3>1. source[sha[t]] /\ meta[sha[t]] /= Absent /\ now /= Absent
        BY <2>2, NoneAssumption, BoundsAssumption
        DEF Complete, CacheInv, TypeInv, TypeOK, Time
      <3>2. sha' = sha /\ source' = source
        BY <1>6 DEF TouchOpen, TouchWrite
      <3>3. meta'[sha[t]] \in {meta[sha[t]], Torn, now}
        BY <1>6, <2>1
        DEF TouchOpen, TouchWrite, OpenMeta, FillMeta, CacheInv, TypeInv, TypeOK
      <3> QED
        BY <3>1, <3>2, <3>3, NoneAssumption DEF Complete
    <2>4. EntryOK(t)'
      BY <1>6, <2>1, <2>2, <2>3
      DEF TouchOpen, TouchWrite, CacheInv, TypeInv, TypeOK, EntryOK,
          ExpectedRelays, RelayList
    <2> QED
      BY <1>6, <2>1, <2>2, <2>4, StepOfOne
      DEF TouchOpen, TouchWrite, OpenMeta, FillMeta, CacheInv, TypeInv, TypeOK
  <1>7. ASSUME NEW t \in Thread, Invalidate(t)
        PROVE  CompleteIsWhole' /\ EntryInv'
    BY <1>7, StepOfOne
    DEF Invalidate, CacheInv, TypeInv, TypeOK, ThreadInv, Inside, Rewriting,
        CompleteIsWhole, Complete, EntryOK
  <1>8. ASSUME NEW t \in Thread, Replace(t)
        PROVE  CompleteIsWhole' /\ EntryInv'
    BY <1>8, StepOfOne
    DEF Replace, CacheInv, TypeInv, TypeOK, ThreadInv, Inside, Rewriting,
        CompleteIsWhole, Complete, EntryInv, EntryOK
  <1>9. ASSUME NEW t \in Thread, Wipe(t)
        PROVE  CompleteIsWhole' /\ EntryInv'
    BY <1>9, StepOfOne
    DEF Wipe, CacheInv, TypeInv, TypeOK, ThreadInv, Inside, Rewriting,
        CompleteIsWhole, Complete, EntryInv, EntryOK
  <1>10. ASSUME NEW t \in Thread, ExtractStream(t)
         PROVE  CompleteIsWhole' /\ EntryInv'
    <2>1. sha[t] \in Sha /\ pc[t] = "extract" /\ pc[t] \in Inside
      BY <1>10 DEF ExtractStream, CacheInv, TypeInv, ThreadInv, Inside, Rewriting
    <2>2. /\ meta[sha[t]] = Absent /\ source[sha[t]]
          /\ extracted[sha[t]] \cup todo[t] = Content[sha[t]]
      BY <2>1 DEF CacheInv, EntryInv, EntryOK
    <2>3. EntryOK(t)'
      BY <1>10, <2>1, <2>2
      DEF ExtractStream, CacheInv, TypeInv, TypeOK, EntryOK
    <2> QED
      BY <1>10, <2>1, <2>2, <2>3, StepOfOne
      DEF ExtractStream, CacheInv, TypeInv, TypeOK, Complete
  <1>11. ASSUME NEW t \in Thread, Collect(t)
         PROVE  CompleteIsWhole' /\ EntryInv'
    <2>1. sha[t] \in Sha /\ pc[t] = "extract" /\ todo[t] = {}
      BY <1>11 DEF Collect, CacheInv, TypeInv, ThreadInv
    <2>2. extracted[sha[t]] = Content[sha[t]]
      BY <2>1 DEF CacheInv, EntryInv, EntryOK
    <2>3. EntryOK(t)'
      BY <1>11, <2>1, <2>2
      DEF Collect, CacheInv, TypeInv, TypeOK, entryVars, EntryInv, EntryOK,
          ExpectedRelays, RelayList
    <2> QED
      BY <1>11, <2>2, <2>3, StepOfOne
      DEF Collect, entryVars, CacheInv, TypeInv, TypeOK, Complete
  <1>12. ASSUME NEW t \in Thread, MetaOpen(t) \/ MetaWrite(t)
         PROVE  CompleteIsWhole' /\ EntryInv'
    <2>1. sha[t] \in Sha /\ pc[t] \in {"meta_open", "meta_write"} /\ pc[t] \in Inside
      BY <1>12 DEF MetaOpen, MetaWrite, CacheInv, TypeInv, ThreadInv, Inside, Rewriting
    <2>2. /\ extracted[sha[t]] = Content[sha[t]]
          /\ relays[t] = ExpectedRelays(sha[t])
      BY <2>1 DEF CacheInv, EntryInv, EntryOK
    <2>3. MetaOpen(t) => Complete(sha[t])'
      BY <2>1, NoneAssumption
      DEF MetaOpen, OpenMeta, Complete, CacheInv, TypeInv, TypeOK, EntryInv, EntryOK
    <2>4. EntryOK(t)'
      BY <1>12, <2>1, <2>2, <2>3
      DEF MetaOpen, MetaWrite, CacheInv, TypeInv, TypeOK, EntryOK,
          ExpectedRelays, RelayList
    <2> QED
      BY <1>12, <2>1, <2>2, <2>4, StepOfOne
      DEF MetaOpen, MetaWrite, OpenMeta, FillMeta, CacheInv, TypeInv, TypeOK
  <1>13. ASSUME NEW t \in Thread, Raise(t)
         PROVE  CompleteIsWhole' /\ EntryInv'
    <2>1. sha[t] \in Sha /\ pc[t] \in Inside
      BY <1>13 DEF Raise, CacheInv, TypeInv, ThreadInv, Inside, Reusing, Rewriting
    <2>2. \A h \in Sha : h = sha[t] /\ Complete(h)' => extracted'[h] = Content[h]
      <3>1. CASE pc[t] = "wipe"
        BY <1>13, <2>1, <3>1 DEF Raise, Complete, CacheInv, EntryInv, EntryOK
      <3>2. CASE pc[t] /= "wipe"
        BY <1>13, <2>1, <3>2 DEF Raise, Complete, CacheInv, CompleteIsWhole
      <3> QED
        BY <3>1, <3>2
    <2>3. EntryOK(t)'
      BY <1>13 DEF Raise, EntryOK, CacheInv, TypeInv, TypeOK
    <2>4. \A h \in Sha \ {sha[t]} : meta'[h] = meta[h] /\ source'[h] = source[h]
                                  /\ extracted'[h] = extracted[h]
      BY <1>13 DEF Raise, CacheInv, TypeInv, TypeOK
    <2>5. \A u \in Thread \ {t} :
            /\ pc'[u] = pc[u] /\ sha'[u] = sha[u] /\ todo'[u] = todo[u]
            /\ relays'[u] = relays[u] /\ ok'[u] = ok[u]
      BY <1>13 DEF Raise, CacheInv, TypeInv, TypeOK
    <2> QED
      BY <2>1, <2>2, <2>3, <2>4, <2>5, StepOfOne
  <1>14. CASE Crash
    BY <1>14 DEF Crash, entryVars, CacheInv, CompleteIsWhole, Complete, EntryInv, EntryOK
  <1>15. CASE Quiet
    <2>1. UNCHANGED <<threadVars, entryVars>>
      BY <1>15, QuietFrame
    <2> QED
      BY ZenonT(40), <2>1
      DEF threadVars, entryVars, CacheInv, CompleteIsWhole, Complete,
          EntryInv, EntryOK, ExpectedRelays, RelayList
  <1> QED
    BY <1>1, <1>2, <1>3, <1>4, <1>5, <1>6, <1>7, <1>8, <1>9, <1>10, <1>11,
       <1>12, <1>13, <1>14, <1>15
    DEF AnyStep, Next, Work, Abort, Quiet

\* The inductive invariant holds of every run.
THEOREM CacheInvHolds == Spec => []CacheInv
  <1>1. Init => LockInv
    BY DEF Init, LockInv, Inside, Reusing, Rewriting
  <1>2. Init => CompleteIsWhole /\ EntryInv
    BY DEF Init, CompleteIsWhole, Complete, EntryInv, EntryOK
  <1>3. CacheInv /\ [Next]_vars => CacheInv'
    BY NextIsAny, NextTypeInv, NextLockInv, NextEntryInv DEF CacheInv
  <1> QED
    BY <1>1, <1>2, <1>3, InitTypeInv, PTL DEF Spec, CacheInv

\* "Sem meta.json ate a extracao terminar ... refaz em vez de servir meia
\* extracao": without a sweep, whatever errors and kills there are, an entry
\* that looks complete holds the whole extraction.
THEOREM CompleteEntriesAreWhole == Spec => []CompleteIsWhole
  BY CacheInvHolds, PTL DEF CacheInv

\* An upload that returns lists the relays of the RDB it was given.
THEOREM UploadsReturnWholeLists == Spec => []ReturnedIsWhole
  <1>1. CacheInv => ReturnedIsWhole
    BY DEF CacheInv, EntryInv, EntryOK, ReturnedIsWhole
  <1> QED
    BY <1>1, CacheInvHolds, PTL

-----------------------------------------------------------------------------
(* What is complete stays complete *)

Stays(h) ==
  Complete(h) /\ Content[h] \cap Gle /= {} =>
    Complete(h)' /\ extracted'[h] = extracted[h]

LEMMA NextStays ==
  ASSUME CacheInv, [AnyStep]_vars, NEW h \in Sha, Complete(h),
         Content[h] \cap Gle /= {}
  PROVE  Complete(h)' /\ extracted'[h] = extracted[h]
  <1>1. CASE UNCHANGED entryVars
    BY <1>1 DEF entryVars, Complete
  <1>2. ASSUME NEW t \in Thread, TouchOpen(t) \/ TouchWrite(t) \/ MetaOpen(t)
               \/ MetaWrite(t)
        PROVE  Complete(h)' /\ extracted'[h] = extracted[h]
    <2>1. source' = source /\ extracted' = extracted
      BY <1>2 DEF TouchOpen, TouchWrite, MetaOpen, MetaWrite
    <2>2. meta'[h] \in {meta[h], Torn, now}
      BY <1>2
      DEF TouchOpen, TouchWrite, MetaOpen, MetaWrite, OpenMeta, FillMeta, CacheInv,
          TypeInv, TypeOK
    <2>3. now /= Absent
      BY NoneAssumption, BoundsAssumption DEF CacheInv, TypeInv, TypeOK, Time
    <2> QED
      BY <2>1, <2>2, <2>3, NoneAssumption DEF Complete
  <1>3. ASSUME NEW t \in Thread, Invalidate(t)
        PROVE  Complete(h)' /\ extracted'[h] = extracted[h]
    <2>1. h /= sha[t]
      BY <1>3 DEF Invalidate, CacheInv, EntryInv, EntryOK
    <2> QED
      BY <1>3, <2>1 DEF Invalidate, Complete, CacheInv, TypeInv, TypeOK
  <1>4. ASSUME NEW t \in Thread, Replace(t) \/ Wipe(t) \/ ExtractStream(t)
        PROVE  Complete(h)' /\ extracted'[h] = extracted[h]
    <2>1. h /= sha[t]
      BY <1>4 DEF Replace, Wipe, ExtractStream, CacheInv, EntryInv, EntryOK, Complete
    <2> QED
      BY <1>4, <2>1
      DEF Replace, Wipe, ExtractStream, Complete, CacheInv, TypeInv, TypeOK
  <1>5. ASSUME NEW t \in Thread, Raise(t)
        PROVE  Complete(h)' /\ extracted'[h] = extracted[h]
    <2>1. pc[t] = "wipe" => h /= sha[t]
      BY <1>5 DEF CacheInv, EntryInv, EntryOK, Complete
    <2> QED
      BY <1>5, <2>1 DEF Raise, Complete, CacheInv, TypeInv, TypeOK
  <1>6. ASSUME NEW t \in Thread,
               \/ (\E g \in Sha : Start(t, g)) \/ ReceiveChunk(t) \/ Interrupted(t)
               \/ LockFor(t) \/ Acquire(t) \/ Check(t) \/ Scan(t) \/ TouchRead(t)
               \/ Collect(t) \/ Release(t) \/ Cleanup(t) \/ CleanupFails(t) \/ StartFails(t)
        PROVE  UNCHANGED entryVars
    BY <1>6
    DEF Start, ReceiveChunk, Interrupted, LockFor, Acquire, Check, Scan, TouchRead,
        Collect, Release, Cleanup, CleanupFails, StartFails, Leave
  <1>7. CASE Crash \/ Tick \/ UNCHANGED vars
    BY <1>1, <1>7 DEF Crash, Tick, vars
  <1> QED
    BY <1>1, <1>2, <1>3, <1>4, <1>5, <1>6, <1>7 DEF AnyStep, Next, Work, Abort

\* While no sweep runs, no upload, error or kill takes a complete entry with a
\* GLE, or a file of it, away from the sessions that use it.
THEOREM CompleteEntriesStay == Spec => CompleteStays
  <1>1. CacheInv /\ [Next]_vars => [\A h \in Sha : Stays(h)]_vars
    BY NextStays, NextIsAny DEF Stays
  <1>2. Spec => [][\A h \in Sha : Stays(h)]_vars
    BY <1>1, CacheInvHolds, PTL DEF Spec
  <1> QED
    BY <1>2 DEF CompleteStays, Stays

-----------------------------------------------------------------------------
(* No temporary is left over *)

\* Steps that keep the temporaries, of the threads and on the disk, and send
\* no thread home.
LEMMA PartsFrame ==
  ASSUME NoOrphanPart, DOMAIN incoming' = DOMAIN incoming, tmp' = tmp, crashes' = crashes,
         stuck' = stuck,
         \A u \in Thread : pc[u] /= "idle" => pc'[u] /= "idle"
  PROVE  NoOrphanPart'
  BY DEF NoOrphanPart

LEMMA NextNoOrphanPart == TypeInv /\ NoOrphanPart /\ [Next]_vars => NoOrphanPart'
  <1> SUFFICES ASSUME TypeInv, NoOrphanPart, [Next]_vars PROVE NoOrphanPart'
    OBVIOUS
  <1>0. pc \in [Thread -> Outside \cup Inside] /\ tmp \in [Thread -> Part \cup {None}]
    BY DEF TypeInv, TypeOK
  <1>1. ASSUME NEW t \in Thread, NEW h \in Sha, Start(t, h) PROVE NoOrphanPart'
    <2>1. PICK p \in Part :
            /\ NewPart(p)
            /\ tmp' = [tmp EXCEPT ![t] = p]
            /\ stuck' = stuck \ {p}
      BY <1>1 DEF Start
    <2>2. pc[t] = "idle" /\ pc' = [pc EXCEPT ![t] = "stream"] /\ crashes' = crashes
      BY <1>1 DEF Start, Goto
    <2>3. DOMAIN incoming' = DOMAIN incoming \cup {p}
      BY <2>1 DEF NewPart
    <2> QED
      BY <1>0, <2>1, <2>2, <2>3 DEF NoOrphanPart
  \* os.replace and unlink: the temporary of t itself is gone.
  <1>2. ASSUME NEW t \in Thread, Replace(t) \/ Cleanup(t) PROVE NoOrphanPart'
    <2>1. /\ DOMAIN incoming' = DOMAIN incoming \ {tmp[t]}
          /\ crashes' = crashes /\ stuck' = stuck
          /\ \A u \in Thread : u /= t => tmp'[u] = tmp[u] /\ pc'[u] = pc[u]
      BY <1>0, <1>2 DEF Replace, Cleanup, Leave, Without, Goto, envVars
    <2> QED
      BY <1>0, <2>1 DEF NoOrphanPart
  <1>3. ASSUME NEW t \in Thread,
               \/ ReceiveChunk(t) \/ Interrupted(t) \/ LockFor(t) \/ Acquire(t) \/ Check(t)
               \/ Scan(t) \/ TouchRead(t) \/ TouchOpen(t) \/ TouchWrite(t) \/ Invalidate(t)
               \/ Wipe(t) \/ ExtractStream(t) \/ Collect(t) \/ MetaOpen(t) \/ MetaWrite(t)
               \/ Abort(t) \/ Release(t)
        PROVE  NoOrphanPart'
    <2>1. /\ DOMAIN incoming' = DOMAIN incoming /\ tmp' = tmp
          /\ crashes' = crashes /\ stuck' = stuck
      BY <1>3
      DEF ReceiveChunk, Interrupted, LockFor, Acquire, Check, Scan, TouchRead, TouchOpen,
          TouchWrite, Invalidate, Wipe, ExtractStream, Collect, MetaOpen, MetaWrite, Abort,
          Raise, Release, envVars
    <2>2. pc' = pc \/ \E place : place /= "idle" /\ pc' = [pc EXCEPT ![t] = place]
      BY <1>3
      DEF ReceiveChunk, Interrupted, LockFor, Acquire, Check, Scan, TouchRead, TouchOpen,
          TouchWrite, Invalidate, Wipe, ExtractStream, Collect, MetaOpen, MetaWrite, Abort,
          Raise, Release, Goto
    <2> QED
      BY <1>0, <2>1, <2>2, PartsFrame
  <1>4. CASE Crash
    <2>1. crashes' /= 0
      BY <1>4, BoundsAssumption DEF Crash, TypeInv, TypeOK
    <2> QED
      BY <2>1 DEF NoOrphanPart
  <1>5. CASE Tick \/ UNCHANGED vars
    <2>1. UNCHANGED <<incoming, tmp, crashes, pc, stuck>>
      BY <1>5 DEF Tick, vars, threadVars, envVars
    <2> QED
      BY <2>1 DEF NoOrphanPart
  \* The two errors that do leave a file name it in stuck.
  <1>6. ASSUME NEW t \in Thread, StartFails(t) PROVE NoOrphanPart'
    <2>1. PICK p \in Part : NewPart(p) /\ stuck' = stuck \cup {p}
      BY <1>6 DEF StartFails
    <2>2. DOMAIN incoming' = DOMAIN incoming \cup {p}
      BY <2>1 DEF NewPart
    <2>3. UNCHANGED <<pc, tmp, crashes>>
      BY <1>6 DEF StartFails, threadVars
    <2> QED
      BY <2>1, <2>2, <2>3 DEF NoOrphanPart
  <1>7. ASSUME NEW t \in Thread, CleanupFails(t) PROVE NoOrphanPart'
    <2>1. /\ incoming' = incoming /\ crashes' = crashes
          /\ stuck' = stuck \cup {tmp[t]}
          /\ \A u \in Thread : u /= t => tmp'[u] = tmp[u] /\ pc'[u] = pc[u]
      BY <1>0, <1>7 DEF CleanupFails, Leave, Goto
    <2> QED
      BY <1>0, <2>1 DEF NoOrphanPart
  <1> QED
    BY <1>1, <1>2, <1>3, <1>4, <1>5, <1>6, <1>7 DEF Next, Work

\* Whatever raises, and wherever: without a kill a temporary outlives the
\* upload it belongs to only when removing it, or closing it, is what raised.
THEOREM NoPartIsLeftOver == Spec => []NoOrphanPart
  <1>1. Init => NoOrphanPart
    BY DEF Init, NoOrphanPart
  <1> QED
    BY <1>1, InitTypeInv, NextTypeInv, NextNoOrphanPart, NextIsAny, PTL DEF Spec

-----------------------------------------------------------------------------
(* The abstract store is implemented *)

\* An upload on its way out of the with block without an exception leaves a
\* complete entry behind.
DoneInv == \A t \in Thread : pc[t] = "unlock" /\ ok[t] => Complete(sha[t])
StoreInv == CacheInv /\ DoneInv

\* builderBar, without its CHOOSE: MutualExclusion leaves it one thread.
BuilderFact ==
  \A h \in Sha :
    /\ \A t \in Thread : Building(t, h) => builderBar[h] = t
    /\ (\A t \in Thread : ~Building(t, h)) => builderBar[h] = None

LEMMA BuilderIs == CacheInv => BuilderFact
  <1> SUFFICES ASSUME CacheInv, NEW h \in Sha
               PROVE  /\ \A t \in Thread : Building(t, h) => builderBar[h] = t
                      /\ (\A t \in Thread : ~Building(t, h)) => builderBar[h] = None
    BY DEF BuilderFact
  <1>1. \A t, u \in Thread : Building(t, h) /\ Building(u, h) => t = u
    BY LockInvExcludes DEF CacheInv, MutualExclusion, Building, Inside
  <1>2. ASSUME NEW t \in Thread, Building(t, h) PROVE builderBar[h] = t
    <2>1. (CHOOSE u \in Thread : Building(u, h)) = t
      BY <1>1, <1>2
    <2> QED
      BY <1>2, <2>1 DEF builderBar
  <1>3. (\A t \in Thread : ~Building(t, h)) => builderBar[h] = None
    BY DEF builderBar
  <1> QED
    BY <1>2, <1>3

LEMMA NextBuilderIs == CacheInv' => BuilderFact'
  BY BuilderIs, PTL

LEMMA NextDoneInv == StoreInv /\ [AnyStep]_vars => DoneInv'
  <1> SUFFICES ASSUME StoreInv, [AnyStep]_vars PROVE DoneInv'
    OBVIOUS
  <1>0. CacheInv /\ DoneInv /\ CacheInv'
    BY NextTypeInv, NextLockInv, NextEntryInv DEF StoreInv, CacheInv
  <1> USE DEF Goto
  \* Only its own steps send a thread to the end of the with block.
  <1>1. ASSUME NEW u \in Thread, NEW t \in Thread, TouchRead(t) \/ TouchOpen(t)
               \/ TouchWrite(t) \/ MetaWrite(t), pc'[u] = "unlock", ok'[u]
        PROVE  Complete(sha[u])'
    <2>1. pc[t] \in Inside /\ sha' = sha /\ sha[t] \in Sha /\ source' = source
      BY <1>0, <1>1
      DEF TouchRead, TouchOpen, TouchWrite, MetaWrite, Inside, Reusing, Rewriting,
          CacheInv, TypeInv, ThreadInv, entryVars
    <2>2. Complete(sha[t])
      BY <1>0, <1>1
      DEF TouchRead, TouchOpen, TouchWrite, MetaWrite, CacheInv, EntryInv, EntryOK
    <2>3. /\ \A h \in Sha : h /= sha[t] => meta'[h] = meta[h]
          /\ meta'[sha[t]] \in {meta[sha[t]], Torn, now}
      BY <1>0, <1>1, <2>1
      DEF TouchRead, TouchOpen, TouchWrite, MetaWrite, OpenMeta, FillMeta, CacheInv,
          TypeInv, TypeOK, entryVars
    <2>4. now /= Absent
      BY <1>0, NoneAssumption, BoundsAssumption DEF CacheInv, TypeInv, TypeOK, Time
    <2>5. Complete(sha[t])'
      BY <2>1, <2>2, <2>3, <2>4, NoneAssumption DEF Complete
    <2>6. CASE u = t
      BY <2>1, <2>5, <2>6
    <2>7. CASE u /= t
      <3>1. pc[u] = "unlock" /\ ok[u] /\ sha[u] \in Sha
        BY <1>0, <1>1, <2>7
        DEF TouchRead, TouchOpen, TouchWrite, MetaWrite, CacheInv, TypeInv, TypeOK, ThreadInv
      <3>2. Complete(sha[u])
        BY <1>0, <3>1 DEF DoneInv
      <3> QED
        BY <2>1, <2>3, <2>5, <3>1, <3>2 DEF Complete
    <2> QED
      BY <2>6, <2>7
  <1>2. ASSUME NEW u \in Thread, NEW t \in Thread,
               Invalidate(t) \/ Replace(t) \/ Wipe(t) \/ ExtractStream(t) \/ Raise(t)
               \/ MetaOpen(t),
               pc'[u] = "unlock", ok'[u]
        PROVE  Complete(sha[u])'
    <2>1. pc[t] \in Inside /\ sha' = sha /\ u /= t /\ pc[u] = "unlock" /\ ok[u]
      BY <1>0, <1>2
      DEF Invalidate, Replace, Wipe, ExtractStream, Raise, MetaOpen, Inside, Reusing, Rewriting,
          CacheInv, TypeInv, TypeOK
    <2>2. Complete(sha[u]) /\ sha[u] \in Sha /\ sha[u] /= sha[t]
      BY <1>0, <2>1, LockInvExcludes
      DEF DoneInv, CacheInv, TypeInv, ThreadInv, MutualExclusion, Inside
    <2>3. meta'[sha[u]] = meta[sha[u]] /\ source'[sha[u]] = source[sha[u]]
      BY <1>0, <1>2, <2>2
      DEF Invalidate, Replace, Wipe, ExtractStream, Raise, MetaOpen, OpenMeta, CacheInv,
          TypeInv, TypeOK
    <2> QED
      BY <2>1, <2>2, <2>3 DEF Complete
  <1>3. ASSUME NEW u \in Thread, NEW t \in Thread,
               \/ (\E g \in Sha : Start(t, g)) \/ ReceiveChunk(t) \/ Interrupted(t)
               \/ LockFor(t) \/ Acquire(t) \/ Check(t) \/ Scan(t)
               \/ Collect(t) \/ Release(t) \/ Cleanup(t) \/ CleanupFails(t),
               pc'[u] = "unlock", ok'[u]
        PROVE  Complete(sha[u])'
    <2>1. UNCHANGED entryVars /\ pc[u] = "unlock" /\ ok[u] /\ sha'[u] = sha[u]
      BY <1>0, <1>3
      DEF Start, ReceiveChunk, Interrupted, LockFor, Acquire, Check, Scan, Collect, Release,
          Cleanup, CleanupFails, Leave, CacheInv, TypeInv, TypeOK
    <2> QED
      BY <1>0, <2>1 DEF DoneInv, Complete, entryVars
  <1>4. ASSUME NEW u \in Thread, Crash \/ Quiet, pc'[u] = "unlock", ok'[u]
        PROVE  Complete(sha[u])'
    BY <1>0, <1>4, QuietFrame DEF Crash, threadVars, entryVars, DoneInv, Complete
  <1> QED
    BY <1>1, <1>2, <1>3, <1>4 DEF AnyStep, Next, Work, Abort, Quiet, DoneInv

LEMMA NextStoreInv == StoreInv /\ [AnyStep]_vars => StoreInv'
  BY NextTypeInv, NextLockInv, NextEntryInv, NextDoneInv DEF StoreInv, CacheInv

\* The three ways a step changes who builds what.
LEMMA BuilderSame ==
  ASSUME CacheInv, CacheInv',
         \A t \in Thread, h \in Sha : Building(t, h)' <=> Building(t, h)
  PROVE  builderBar' = builderBar
  <1>1. BuilderFact /\ BuilderFact'
    BY BuilderIs, NextBuilderIs
  <1>2. \A h \in Sha : builderBar'[h] = builderBar[h]
    BY <1>1 DEF BuilderFact
  <1> QED
    BY <1>2 DEF builderBar

LEMMA BuilderEnters ==
  ASSUME CacheInv, CacheInv', NEW t \in Thread, NEW g \in Sha,
         Building(t, g)', \A h \in Sha : ~Building(t, h),
         \A h \in Sha \ {g} : ~Building(t, h)',
         \A u \in Thread \ {t}, h \in Sha : Building(u, h)' <=> Building(u, h)
  PROVE  builderBar[g] = None /\ builderBar' = [builderBar EXCEPT ![g] = t]
  <1>1. BuilderFact /\ BuilderFact'
    BY BuilderIs, NextBuilderIs
  <1>2. builderBar'[g] = t
    BY <1>1 DEF BuilderFact
  <1>3. ASSUME NEW u \in Thread, Building(u, g) PROVE FALSE
    <2>1. u /= t /\ Building(u, g)'
      BY <1>3
    <2>2. builderBar'[g] = u
      BY <1>1, <2>1 DEF BuilderFact
    <2> QED
      BY <1>2, <2>1, <2>2
  <1>4. builderBar[g] = None
    BY <1>1, <1>3 DEF BuilderFact
  <1>5. \A h \in Sha : h /= g => builderBar'[h] = builderBar[h]
    BY <1>1 DEF BuilderFact
  <1> QED
    BY <1>2, <1>4, <1>5 DEF builderBar

LEMMA BuilderLeaves ==
  ASSUME CacheInv, CacheInv', NEW t \in Thread, NEW g \in Sha,
         Building(t, g), \A h \in Sha : ~Building(t, h)',
         \A h \in Sha \ {g} : ~Building(t, h),
         \A u \in Thread \ {t}, h \in Sha : Building(u, h)' <=> Building(u, h)
  PROVE  builderBar[g] = t /\ builderBar' = [builderBar EXCEPT ![g] = None]
  <1>1. BuilderFact /\ BuilderFact'
    BY BuilderIs, NextBuilderIs
  <1>2. builderBar[g] = t
    BY <1>1 DEF BuilderFact
  <1>3. ASSUME NEW u \in Thread, Building(u, g)' PROVE FALSE
    <2>1. u /= t /\ Building(u, g)
      BY <1>3
    <2>2. builderBar[g] = u
      BY <1>1, <2>1 DEF BuilderFact
    <2> QED
      BY <1>2, <2>1, <2>2
  <1>4. builderBar'[g] = None
    BY <1>1, <1>3 DEF BuilderFact
  <1>5. \A h \in Sha : h /= g => builderBar'[h] = builderBar[h]
    BY <1>1 DEF BuilderFact
  <1> QED
    BY <1>2, <1>4, <1>5 DEF builderBar

\* Where every entry that looks complete is whole, these are the same.
LEMMA WholeIs == CacheInv => wholeBar = {h \in Sha : Complete(h)}
  BY DEF CacheInv, CompleteIsWhole, wholeBar

LEMMA NextWholeIs == CacheInv' => wholeBar' = {h \in Sha : Complete(h)'}
  BY DEF CacheInv, CompleteIsWhole, wholeBar, Complete

LEMMA WholeSame ==
  ASSUME CacheInv, CacheInv', \A h \in Sha : Complete(h)' <=> Complete(h)
  PROVE  wholeBar' = wholeBar
  BY WholeIs, NextWholeIs

LEMMA InitStore == Init => Store!StoreInit
  BY DEF Init, Store!StoreInit, builderBar, wholeBar, answerBar, Building, Rewriting, Complete

Bars == <<builderBar, wholeBar, answerBar>>

LEMMA AnswerSame ==
  ASSUME \A t \in Thread :
           /\ pc'[t] = "cleanup" /\ ok'[t] <=> pc[t] = "cleanup" /\ ok[t]
           /\ pc[t] = "cleanup" => sha'[t] = sha[t] /\ relays'[t] = relays[t]
  PROVE  answerBar' = answerBar
  BY DEF answerBar

\* A step of t, whose program counter is the only one to move.
Moves(t, place) ==
  /\ pc[t] /= place /\ pc' = [pc EXCEPT ![t] = place] /\ sha' = sha /\ sha[t] \in Sha

LEMMA BuilderMoves ==
  ASSUME CacheInv, CacheInv', NEW t \in Thread, NEW place, Moves(t, place)
  PROVE  /\ (pc[t] \in Rewriting <=> place \in Rewriting) => builderBar' = builderBar
         /\ pc[t] \notin Rewriting /\ place \in Rewriting =>
              builderBar[sha[t]] = None /\ builderBar' = [builderBar EXCEPT ![sha[t]] = t]
         /\ pc[t] \in Rewriting /\ place \notin Rewriting =>
              builderBar[sha[t]] = t /\ builderBar' = [builderBar EXCEPT ![sha[t]] = None]
  <1>1. /\ pc'[t] = place /\ sha'[t] = sha[t]
        /\ \A u \in Thread \ {t} : pc'[u] = pc[u] /\ sha'[u] = sha[u]
    BY DEF Moves, CacheInv, TypeInv, TypeOK
  <1>2. \A u \in Thread \ {t}, h \in Sha : Building(u, h)' <=> Building(u, h)
    BY <1>1 DEF Building
  <1>3. CASE pc[t] \in Rewriting <=> place \in Rewriting
    <2>1. \A u \in Thread, h \in Sha : Building(u, h)' <=> Building(u, h)
      BY <1>1, <1>3 DEF Building
    <2> QED
      BY <1>3, <2>1, BuilderSame
  <1>4. CASE pc[t] \notin Rewriting /\ place \in Rewriting
    <2>1. /\ Building(t, sha[t])' /\ \A h \in Sha : ~Building(t, h)
          /\ \A h \in Sha \ {sha[t]} : ~Building(t, h)'
      BY <1>1, <1>4 DEF Building, Moves
    <2> QED
      BY <1>2, <1>4, <2>1, BuilderEnters DEF Moves
  <1>5. CASE pc[t] \in Rewriting /\ place \notin Rewriting
    <2>1. /\ Building(t, sha[t]) /\ \A h \in Sha : ~Building(t, h)'
          /\ \A h \in Sha \ {sha[t]} : ~Building(t, h)
      BY <1>1, <1>5 DEF Building, Moves
    <2> QED
      BY <1>2, <1>5, <2>1, BuilderLeaves DEF Moves
  <1> QED
    BY <1>3, <1>4, <1>5

\* Steps that neither build, commit nor answer.
LEMMA StutterSteps ==
  ASSUME StoreInv, CacheInv',
         \/ \E t \in Thread :
              \/ (\E h \in Sha : Start(t, h)) \/ ReceiveChunk(t) \/ Interrupted(t)
              \/ LockFor(t) \/ Acquire(t) \/ TouchRead(t) \/ TouchOpen(t) \/ TouchWrite(t)
              \/ Replace(t) \/ Wipe(t) \/ ExtractStream(t) \/ Collect(t)
         \/ Quiet
  PROVE  UNCHANGED Bars
  <1> USE DEF Goto, Rewriting
  <1>0. CacheInv
    BY DEF StoreInv
  \* What they leave of a thread's place, and of its content and answer there.
  <1> DEFINE Keeps ==
        \A u \in Thread :
          /\ pc'[u] \in Rewriting <=> pc[u] \in Rewriting
          /\ pc[u] \in Rewriting \cup {"cleanup"} => sha'[u] = sha[u]
          /\ pc'[u] = "cleanup" /\ ok'[u] <=> pc[u] = "cleanup" /\ ok[u]
          /\ pc[u] = "cleanup" => relays'[u] = relays[u]
  <1>5. Keeps
    <2>0. /\ pc \in [Thread -> Outside \cup Inside] /\ ok \in [Thread -> BOOLEAN]
          /\ sha \in [Thread -> Sha \cup {None}] /\ relays \in [Thread -> SUBSET Stream]
      BY <1>0 DEF CacheInv, TypeInv, TypeOK
    <2>1. CASE Quiet
      BY <2>1, QuietFrame DEF threadVars
    <2>2. ASSUME NEW t \in Thread, NEW h \in Sha, Start(t, h) PROVE Keeps
      BY <2>0, <2>2 DEF Start
    <2>3. ASSUME NEW t \in Thread,
                 ReceiveChunk(t) \/ Interrupted(t) \/ LockFor(t) \/ Acquire(t) \/ TouchRead(t)
          PROVE  Keeps
      BY <2>0, <2>3 DEF ReceiveChunk, Interrupted, LockFor, Acquire, TouchRead
    <2>4. ASSUME NEW t \in Thread,
                 TouchOpen(t) \/ TouchWrite(t) \/ Replace(t) \/ Wipe(t) \/ ExtractStream(t)
          PROVE  Keeps
      BY <2>0, <2>4 DEF TouchOpen, TouchWrite, Replace, Wipe, ExtractStream
    <2>5. ASSUME NEW t \in Thread, Collect(t) PROVE Keeps
      BY <2>0, <2>5 DEF Collect
    <2> QED
      BY <2>1, <2>2, <2>3, <2>4, <2>5
  <1>1. \A t \in Thread, h \in Sha : Building(t, h)' <=> Building(t, h)
    BY <1>5 DEF Building
  <1>2. answerBar' = answerBar
    BY <1>5, AnswerSame
  <1>3. wholeBar' = wholeBar
    <2>1. CASE UNCHANGED <<meta, source>>
      BY <1>0, <2>1, WholeSame DEF Complete
    <2>2. ASSUME NEW t \in Thread, TouchOpen(t) \/ TouchWrite(t)
          PROVE  wholeBar' = wholeBar
      <3>1. Complete(sha[t]) /\ source' = source
        BY <1>0, <2>2 DEF TouchOpen, TouchWrite, CacheInv, EntryInv, EntryOK
      <3>2. /\ \A h \in Sha : h /= sha[t] => meta'[h] = meta[h]
            /\ sha[t] \in Sha /\ meta'[sha[t]] \in {meta[sha[t]], Torn, now}
        BY <1>0, <2>2
        DEF TouchOpen, TouchWrite, OpenMeta, FillMeta, CacheInv, TypeInv, TypeOK, ThreadInv
      <3>3. now /= Absent
        BY <1>0, NoneAssumption, BoundsAssumption DEF CacheInv, TypeInv, TypeOK, Time
      <3> QED
        BY <1>0, <3>1, <3>2, <3>3, NoneAssumption, WholeSame DEF Complete
    <2>3. ASSUME NEW t \in Thread, Replace(t) PROVE wholeBar' = wholeBar
      <3>1. /\ meta[sha[t]] = Absent /\ meta' = meta
            /\ \A h \in Sha : h /= sha[t] => source'[h] = source[h]
        BY <1>0, <2>3 DEF Replace, CacheInv, EntryInv, EntryOK, TypeInv, TypeOK
      <3> QED
        BY <1>0, <3>1, WholeSame DEF Complete
    <2>4. ASSUME NEW t \in Thread,
                 \/ (\E h \in Sha : Start(t, h)) \/ ReceiveChunk(t) \/ Interrupted(t)
                 \/ LockFor(t) \/ Acquire(t) \/ TouchRead(t) \/ Wipe(t) \/ ExtractStream(t)
                 \/ Collect(t)
          PROVE  UNCHANGED <<meta, source>>
      BY <2>4
      DEF Start, ReceiveChunk, Interrupted, LockFor, Acquire, TouchRead, Wipe,
          ExtractStream, Collect, entryVars
    <2>5. CASE Quiet
      BY <2>1, <2>5, QuietFrame DEF entryVars
    <2> QED
      BY <2>1, <2>2, <2>3, <2>4, <2>5
  <1>4. builderBar' = builderBar
    BY <1>0, <1>1, BuilderSame
  <1> QED
    BY <1>2, <1>3, <1>4 DEF Bars

\* Every step of a thread through the with block is one of the store's, or none.
LEMMA StoreSteps ==
  ASSUME StoreInv, CacheInv', NEW t \in Thread,
         Check(t) \/ Scan(t) \/ Invalidate(t) \/ MetaOpen(t) \/ MetaWrite(t) \/ Abort(t)
  PROVE  (\E h \in Sha : \/ Store!Begin(t, h) \/ Store!Discard(t, h)
                         \/ Store!Commit(t, h) \/ Store!Leave(t, h))
         \/ UNCHANGED Bars
  <1> USE DEF Goto
  <1>0. CacheInv /\ pc \in [Thread -> Outside \cup Inside]
    BY DEF StoreInv, CacheInv, TypeInv, TypeOK
  <1>1. PICK place : Moves(t, place)
    BY <1>0
    DEF Check, Scan, Invalidate, MetaOpen, MetaWrite, Abort, Raise, Moves, CacheInv, TypeInv,
        ThreadInv, Inside, Reusing, Rewriting
  <1>2. answerBar' = answerBar
    <2>1. \A u \in Thread : pc[u] /= "cleanup" => pc'[u] /= "cleanup"
      BY <1>0 DEF Check, Scan, Invalidate, MetaOpen, MetaWrite, Abort, Raise
    <2>2. \A u \in Thread : pc[u] = "cleanup" =>
            pc'[u] = "cleanup" /\ sha'[u] = sha[u] /\ relays'[u] = relays[u] /\ ok'[u] = ok[u]
      BY <1>0
      DEF Check, Scan, Invalidate, MetaOpen, MetaWrite, Abort, Raise, Rewriting, CacheInv,
          TypeInv, TypeOK
    <2> QED
      BY <2>1, <2>2, AnswerSame
  <1>3. CASE Check(t) \/ Scan(t)
    <2>1. UNCHANGED <<meta, source, extracted>>
      BY <1>3 DEF Check, Scan, entryVars
    <2>2. wholeBar' = wholeBar
      BY <1>0, <2>1, WholeSame DEF Complete
    <2>3. CASE place = "mkdir"
      <3>1. Complete(sha[t]) => sha[t] \in BarrenBar
        <4>1. pc'[t] = "mkdir" /\ sha'[t] = sha[t] /\ sha[t] \in Sha
          BY <1>0, <1>1, <2>3 DEF Moves
        <4>2. EntryOK(t)'
          BY DEF CacheInv, EntryInv
        <4> QED
          BY <2>1, <4>1, <4>2 DEF EntryOK, BarrenBar, Complete
      <3>2. sha[t] \in wholeBar => sha[t] \in BarrenBar
        BY <1>0, <3>1, WholeIs
      <3>3. pc[t] \notin Rewriting /\ place \in Rewriting
        BY <1>3, <2>3 DEF Check, Scan, Rewriting
      <3> QED
        BY <1>0, <1>1, <1>2, <2>2, <3>2, <3>3, BuilderMoves DEF Store!Begin, Moves
    <2>4. CASE place /= "mkdir"
      <3>1. pc[t] \notin Rewriting /\ place \notin Rewriting
        BY <1>0, <1>1, <1>3, <2>4 DEF Check, Scan, Rewriting, Moves
      <3> QED
        BY <1>0, <1>1, <1>2, <2>2, <3>1, BuilderMoves DEF Bars
    <2> QED
      BY <2>3, <2>4
  <1>4. CASE Invalidate(t)
    <2>1. pc[t] \in Rewriting /\ place \in Rewriting /\ sha[t] \in Sha
      BY <1>0, <1>1, <1>4 DEF Invalidate, Rewriting, Moves
    <2>2. /\ source' = source /\ meta'[sha[t]] = Absent
          /\ \A h \in Sha : h /= sha[t] => meta'[h] = meta[h]
      BY <1>0, <1>4, <2>1 DEF Invalidate, CacheInv, TypeInv, TypeOK
    <2>3. wholeBar' = wholeBar \ {sha[t]}
      BY <1>0, <2>1, <2>2, WholeIs, NextWholeIs DEF Complete
    <2>4. builderBar' = builderBar
      BY <1>0, <1>1, <2>1, BuilderMoves
    <2>5. CASE sha[t] \in wholeBar
      <3>1. sha[t] \in BarrenBar
        BY <1>0, <1>4, <2>1, <2>5, WholeIs
        DEF Invalidate, BarrenBar, CacheInv, EntryInv, EntryOK
      <3>2. builderBar[sha[t]] = t
        <4>1. Building(t, sha[t])
          BY <2>1 DEF Building
        <4> QED
          BY <1>0, <2>1, <4>1, BuilderIs DEF BuilderFact
      <3> QED
        BY <1>2, <2>1, <2>3, <2>4, <3>1, <3>2 DEF Store!Discard
    <2>6. CASE sha[t] \notin wholeBar
      BY <1>2, <2>3, <2>4, <2>6 DEF Bars
    <2> QED
      BY <2>5, <2>6
  <1>5. CASE MetaOpen(t)
    <2>1. pc[t] \in Rewriting /\ place \in Rewriting /\ sha[t] \in Sha
      BY <1>0, <1>1, <1>5 DEF MetaOpen, Rewriting, Moves
    <2>2. /\ source' = source /\ source[sha[t]] /\ meta'[sha[t]] /= Absent
          /\ \A h \in Sha : h /= sha[t] => meta'[h] = meta[h]
      BY <1>0, <1>5, <2>1, NoneAssumption
      DEF MetaOpen, OpenMeta, CacheInv, TypeInv, TypeOK, EntryInv, EntryOK
    <2>3. wholeBar' = wholeBar \cup {sha[t]}
      BY <1>0, <2>1, <2>2, WholeIs, NextWholeIs DEF Complete
    <2>4. builderBar' = builderBar
      BY <1>0, <1>1, <2>1, BuilderMoves
    <2>5. builderBar[sha[t]] = t
      <3>1. Building(t, sha[t])
        BY <2>1 DEF Building
      <3> QED
        BY <1>0, <2>1, <3>1, BuilderIs DEF BuilderFact
    <2> QED
      BY <1>2, <2>1, <2>3, <2>4, <2>5 DEF Store!Commit
  <1>6. CASE MetaWrite(t)
    <2>1. pc[t] \in Rewriting /\ place \notin Rewriting /\ sha[t] \in Sha
      BY <1>0, <1>1, <1>6 DEF MetaWrite, Rewriting, Moves
    <2>2. /\ source' = source /\ Complete(sha[t]) /\ meta'[sha[t]] /= Absent
          /\ \A h \in Sha : h /= sha[t] => meta'[h] = meta[h]
      <3>1. now /= Absent
        BY <1>0, NoneAssumption, BoundsAssumption DEF CacheInv, TypeInv, TypeOK, Time
      <3>2. Complete(sha[t])
        BY <1>0, <1>6 DEF MetaWrite, CacheInv, EntryInv, EntryOK
      <3> QED
        BY <1>0, <1>6, <2>1, <3>1, <3>2
        DEF MetaWrite, FillMeta, CacheInv, TypeInv, TypeOK, Complete
    <2>3. wholeBar' = wholeBar
      BY <1>0, <2>1, <2>2, WholeSame DEF Complete
    <2> QED
      BY <1>0, <1>1, <1>2, <2>1, <2>3, BuilderMoves DEF Store!Leave
  <1>7. CASE Abort(t)
    <2>1. UNCHANGED <<meta, source>> /\ place = "unlock"
      BY <1>0, <1>1, <1>7 DEF Abort, Raise, Moves
    <2>2. wholeBar' = wholeBar
      BY <1>0, <2>1, WholeSame DEF Complete
    <2>3. place \notin Rewriting /\ sha[t] \in Sha
      BY <1>1, <2>1 DEF Rewriting, Moves
    <2>4. CASE pc[t] \in Rewriting
      BY <1>0, <1>1, <1>2, <2>2, <2>3, <2>4, BuilderMoves DEF Store!Leave
    <2>5. CASE pc[t] \notin Rewriting
      BY <1>0, <1>1, <1>2, <2>2, <2>3, <2>5, BuilderMoves DEF Bars
    <2> QED
      BY <2>4, <2>5
  <1> QED
    BY <1>3, <1>4, <1>5, <1>6, <1>7

LEMMA AnswerSteps ==
  ASSUME StoreInv, CacheInv', NEW t \in Thread, Release(t) \/ Cleanup(t) \/ CleanupFails(t)
  PROVE  (\E h \in Sha : Store!Answer(t, h)) \/ Store!Take(t) \/ UNCHANGED Bars
  <1> USE DEF Goto
  <1>0. CacheInv
    BY DEF StoreInv
  <1>1. wholeBar' = wholeBar
    BY <1>0, WholeSame DEF Release, Cleanup, CleanupFails, Leave, entryVars, Complete
  <1>2. CASE Release(t)
    <2>1. Moves(t, "cleanup") /\ pc[t] = "unlock"
      BY <1>0, <1>2
      DEF Release, Moves, CacheInv, TypeInv, ThreadInv, Inside
    <2>2. builderBar' = builderBar /\ ~Building(t, sha[t])
      BY <1>0, <2>1, BuilderMoves DEF Rewriting, Building
    <2>3. CASE ok[t]
      <3>1. Complete(sha[t]) /\ relays[t] = ExpectedRelays(sha[t]) /\ sha[t] \in Sha
        BY <1>0, <2>1, <2>3 DEF StoreInv, DoneInv, CacheInv, EntryInv, EntryOK, Moves
      <3>2. sha[t] \in wholeBar
        BY <1>0, <3>1, WholeIs
      <3>3. builderBar[sha[t]] = None
        <4>1. \A u \in Thread : ~Building(u, sha[t])
          BY <1>0, <2>1, LockInvExcludes
          DEF CacheInv, MutualExclusion, Building, Inside, Rewriting
        <4> QED
          BY <1>0, <3>1, <4>1, BuilderIs DEF BuilderFact
      <3>4. answerBar' = [answerBar EXCEPT ![t] = <<sha[t], ExpectedRelays(sha[t])>>]
        <4>1. /\ pc'[t] = "cleanup" /\ ok' = ok /\ sha' = sha /\ relays' = relays
              /\ \A u \in Thread : u /= t => pc'[u] = pc[u]
          BY <1>0, <1>2 DEF Release, CacheInv, TypeInv, TypeOK
        <4> QED
          BY <2>3, <3>1, <4>1 DEF answerBar
      <3> QED
        BY <1>1, <2>2, <3>1, <3>2, <3>3, <3>4 DEF Store!Answer
    <2>4. CASE ~ok[t]
      <3>1. answerBar' = answerBar
        BY <1>0, <1>2, <2>4, AnswerSame DEF Release, CacheInv, TypeInv, TypeOK
      <3> QED
        BY <1>1, <2>2, <3>1 DEF Bars
    <2> QED
      BY <2>3, <2>4
  <1>3. CASE Cleanup(t) \/ CleanupFails(t)
    <2>1. /\ pc[t] = "cleanup" /\ pc'[t] = "idle"
          /\ \A u \in Thread \ {t} :
               pc'[u] = pc[u] /\ sha'[u] = sha[u] /\ ok'[u] = ok[u] /\ relays'[u] = relays[u]
      BY <1>0, <1>3 DEF Cleanup, CleanupFails, Leave, CacheInv, TypeInv, TypeOK
    <2>2. \A u \in Thread, h \in Sha : Building(u, h)' <=> Building(u, h)
      BY <2>1 DEF Building, Rewriting
    <2>3. answerBar' = [answerBar EXCEPT ![t] = None]
      BY <2>1 DEF answerBar
    <2> QED
      BY <1>0, <1>1, <2>2, <2>3, BuilderSame DEF Store!Take
  <1> QED
    BY <1>2, <1>3

LEMMA DieStep ==
  ASSUME StoreInv, CacheInv', Crash
  PROVE  Store!Die
  <1>0. CacheInv
    BY DEF StoreInv
  <1>1. wholeBar' = wholeBar
    BY <1>0, WholeSame DEF Crash, entryVars, Complete
  <1>2. builderBar' = [h \in Sha |-> None]
    <2>1. \A u \in Thread, h \in Sha : ~Building(u, h)'
      BY DEF Crash, Building, Rewriting
    <2> QED
      BY <2>1 DEF builderBar
  <1>3. answerBar' = [u \in Thread |-> None]
    BY DEF Crash, answerBar
  <1> QED
    BY <1>1, <1>2, <1>3 DEF Store!Die

\* Every behaviour of uploads, errors and kills, for any number of threads and
\* contents, is one of ExtractionStore: one builder at a time and per content,
\* whole extractions only, none of a content with a GLE ever rebuilt, every
\* answer the relay list of a whole extraction.
THEOREM StoreImplemented == Spec => ImplementsStore
  <1>1. Spec => []StoreInv
    <2>1. Init => DoneInv
      BY DEF Init, DoneInv
    <2>2. Init => LockInv /\ CompleteIsWhole /\ EntryInv
      BY DEF Init, LockInv, Inside, Reusing, Rewriting, CompleteIsWhole, Complete,
             EntryInv, EntryOK
    <2> QED
      BY <2>1, <2>2, InitTypeInv, NextStoreInv, NextIsAny, PTL DEF Spec, StoreInv, CacheInv
  <1>2. StoreInv /\ [Next]_vars => [Store!StoreNext]_(Store!storeVars)
    <2> SUFFICES ASSUME StoreInv, [Next]_vars
                 PROVE  [Store!StoreNext]_(Store!storeVars)
      OBVIOUS
    <2>0. CacheInv'
      BY NextStoreInv, NextIsAny DEF StoreInv
    <2>1. UNCHANGED Bars => UNCHANGED Store!storeVars
      BY DEF Bars, Store!storeVars
    <2>2. ASSUME NEW t \in Thread,
                 Check(t) \/ Scan(t) \/ Invalidate(t) \/ MetaOpen(t) \/ MetaWrite(t) \/ Abort(t)
          PROVE  [Store!StoreNext]_(Store!storeVars)
      BY <2>0, <2>1, <2>2, StoreSteps DEF Store!StoreNext
    <2>3. ASSUME NEW t \in Thread, Release(t) \/ Cleanup(t) \/ CleanupFails(t)
          PROVE  [Store!StoreNext]_(Store!storeVars)
      BY <2>0, <2>1, <2>3, AnswerSteps DEF Store!StoreNext
    <2>4. CASE Crash
      BY <2>0, <2>4, DieStep DEF Store!StoreNext
    <2>5. CASE \/ \E t \in Thread :
                    \/ (\E h \in Sha : Start(t, h)) \/ ReceiveChunk(t) \/ Interrupted(t)
                    \/ LockFor(t) \/ Acquire(t) \/ TouchRead(t) \/ TouchOpen(t) \/ TouchWrite(t)
                    \/ Replace(t) \/ Wipe(t) \/ ExtractStream(t) \/ Collect(t)
               \/ Quiet
      BY <2>0, <2>1, <2>5, StutterSteps
    <2> QED
      BY <2>2, <2>3, <2>4, <2>5 DEF Next, Work, Quiet
  <1> QED
    BY <1>1, <1>2, InitStore, PTL DEF Spec, ImplementsStore, Store!StoreSpec
=============================================================================
