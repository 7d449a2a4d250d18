------------------------ MODULE RegistryIndexProofs ------------------------
(***************************************************************************)
(* As long as no system call fails, whatever crashes and whatever order    *)
(* the handlers run in: the index in memory, index.json and the files of   *)
(* the store agree whenever nobody writes, what was acknowledged is stored *)
(* and listed, and created_at is written once.                             *)
(*                                                                         *)
(* The invariant is FaultFree of RegistryInvariants, next to IInv.  First  *)
(* the frame of a step, then one section per part of FaultFree.            *)
(***************************************************************************)
EXTENDS RegistryProofs

USE ProcessesAssumption, PathsAssumption, BoundsAssumption
USE DEF Procs

\* The steps of a process that asks for the lock or holds it alone, when its
\* system calls succeed.
MutexStep(p) ==
    \/ TakeWriteLock(p) \/ Scan(p) \/ Rebuild(p) \/ ScanLosesTemp(p)
    \/ Rename(p) \/ ReleaseWriteLock(p)

\* What holds before a step.
Before == IInv /\ StreamHeld /\ FaultFree

-----------------------------------------------------------------------------
(* The frame of a step.                                                    *)

\* A step after which no call has failed is one of a process whose calls
\* succeed, the clock's or a crash.
LEMMA FaultlessStep ==
    ASSUME IInv, faults = 0 => NothingFails, Next, faults' = 0
    PROVE  /\ faults = 0
           /\ \/ Tick \/ Crash
              \/ \E h \in Handlers : Requests(h) \/ ClientStep(h) \/ HandlerStep(h)
              \/ \E p \in Procs : MutexStep(p)
<1>0. faults \in Nat
  BY DEF IInv, TypeOK
<1>1. ASSUME Fault PROVE FALSE
  BY <1>0, <1>1 DEF Fault
<1>2. ASSUME NEW h \in Handlers, DigestFails(h) PROVE FALSE
  BY <1>1, <1>2 DEF DigestFails
<1>3. ASSUME NEW p \in Procs, FaultStep(p) PROVE FALSE
  BY <1>1, <1>3 DEF FaultStep, RenameFails, PrepareFails, MoveAsideFails, SwapFails,
     RestoreFails, DiscardFails, ScanFails, IndexUnreadable
<1>4. ASSUME NEW p \in Procs, LockedStep(p)
      PROVE  faults = 0 /\ MutexStep(p)
  <2>1. faults' = faults
    BY <1>4 DEF LockedStep, TakeWriteLock, Scan, Rebuild, ScanLosesTemp, Rename, MoveAside,
       Swap, Restore, Discard, ReleaseWriteLock, envVars
  <2>2. ~ (MoveAside(p) \/ Swap(p) \/ Restore(p) \/ Discard(p))
    BY <2>1 DEF NothingFails, MovedAside, MoveAside, Swap, Restore, Discard
  <2> QED BY <1>4, <2>1, <2>2 DEF LockedStep, MutexStep
<1>5. ASSUME NEW h \in Handlers, Requests(h)
      PROVE  faults' = faults
  <2>1. PICK r : Arrive(h, r)
    BY <1>5 DEF Requests, ArrivePublish, ArriveRevocations, ArriveDownload, ArriveQuery
  <2> QED BY <2>1 DEF Arrive, envVars
<1>6. ASSUME NEW h \in Handlers, ClientStep(h) \/ HandlerStep(h)
      PROVE  faults' = faults
  BY <1>6 DEF ClientStep, HandlerStep, Stage, StageFails, Stream, Validate, Reject, Commit,
     Record, Reply, TakeReadLock, Snapshot, Open, envVars
<1>7. ASSUME Tick \/ Crash PROVE faults' = faults
  BY <1>7 DEF Tick, Crash
<1> QED BY <1>2, <1>3, <1>4, <1>5, <1>6, <1>7 DEF Next

\* A step of one process changes the registers and the temporary of no other.
LEMMA OthersUntouched ==
    ASSUME IInv, DOMAIN out = Procs, NEW p \in Procs, NEW q \in Procs, q # p,
           \/ MutexStep(p)
           \/ p \in Handlers /\ (Requests(p) \/ ClientStep(p) \/ HandlerStep(p))
    PROVE  /\ pc'[q] = pc[q] /\ req'[q] = req[q] /\ out'[q] = out[q]
           /\ put'[q] = put[q] /\ err'[q] = err[q] /\ cap'[q] = cap[q]
           /\ temp'[q] = temp[q]
<1> USE DEF IInv, TypeOK, diskVars, regVars, memVars, Goto
<1>1. CASE MutexStep(p)
  <2>1. CASE TakeWriteLock(p) \/ Scan(p) \/ ScanLosesTemp(p) \/ ReleaseWriteLock(p)
    BY <2>1 DEF TakeWriteLock, Scan, ScanLosesTemp, ReleaseWriteLock, Fails
  <2>2. CASE Rebuild(p) \/ Rename(p)
    BY <2>2 DEF Rebuild, Rename, Save
  <2> QED BY <1>1, <2>1, <2>2 DEF MutexStep
<1>2. CASE p \in Handlers /\ Requests(p)
  <2>1. PICK r : Arrive(p, r)
    BY <1>2 DEF Requests, ArrivePublish, ArriveRevocations, ArriveDownload, ArriveQuery
  <2> QED BY <2>1 DEF Arrive, Answer
<1>3. CASE p \in Handlers /\ ClientStep(p)
  BY <1>3 DEF ClientStep, Stage, StageFails, Stream, Answer
<1>4. CASE p \in Handlers /\ HandlerStep(p)
  <2>1. CASE Validate(p) \/ Reject(p) \/ Record(p) \/ Reply(p)
    BY <2>1 DEF Validate, Reject, Record, Save, Reply, Answer
  <2>2. CASE Commit(p)
    BY <2>2 DEF Commit, KeptCreatedAt
  <2>3. CASE TakeReadLock(p) \/ Snapshot(p) \/ Open(p)
    BY <2>3 DEF TakeReadLock, Snapshot, Open, Answer
  <2> QED BY <1>4, <2>1, <2>2, <2>3 DEF HandlerStep
<1> QED BY <1>1, <1>2, <1>3, <1>4

\* Two processes are not between Lock and Unlock at once.
LEMMA CriticalAlone ==
    ASSUME IInv, NEW p \in Procs, NEW q \in Procs, pc[p] \in Critical, pc[q] \in Critical
    PROVE  p = q
BY DEF IInv, Locking, WriteLocked

\* A handler that is not idle finds the index loaded.
LEMMA HandlerFindsIndex ==
    ASSUME BootsAlone, NEW h \in Handlers, pc[h] # "idle"
    PROVE  Serving /\ Loaded
BY DEF BootsAlone, Serving, Loaded

\* The destination of a replaceFile, by the kind of its file.
LEMMA PutCases ==
    ASSUME IInv, NEW p \in Procs, pc[p] = "rename"
    PROVE  /\ FitsAt(put[p].src, put[p].dst) /\ put[p].src # Absent
           /\ \/ put[p].dst = IndexPath
              \/ /\ p \in Handlers /\ Publishing(p)
                 /\ put[p].dst = req[p].path /\ put[p].dst \in Names
              \/ /\ p \in Handlers /\ Uploading(p) /\ req[p].kind = "revput"
                 /\ put[p].dst = req[p].path /\ put[p].dst \in Issuers
<1>1. FitsAt(put[p].src, put[p].dst)
  BY DEF IInv, PutFits, Replacing
<1>2. put[p].src # Absent
  BY <1>1, FitsAtType, AbsentAssumption
<1>3. CASE put[p].dst # IndexPath
  <2>1. Uploading(p) /\ put[p].dst = req[p].path /\ p \in Handlers
    BY <1>3 DEF IInv, PutFits, Replacing, Uploading, Procs
  <2>2. req[p] \in Request /\ req[p].path # NoPath
    BY <2>1 DEF IInv, RequestFits
  <2> QED BY <1>1, <1>2, <2>1, <2>2, RequestType DEF Uploading, Publishing
<1> QED BY <1>1, <1>2, <1>3

\* A request that arrives is answered at once, or taken up.
LEMMA Arrival ==
    ASSUME IInv, DOMAIN out = Procs, NEW h \in Handlers, Requests(h)
    PROVE  /\ Serving /\ pc[h] = "idle"
           /\ UNCHANGED <<diskVars, memVars, histVars, envVars>>
           /\ out'[h] = Absent
           /\ \/ /\ pc'[h] = "idle" /\ req'[h] = Absent /\ err'[h] = FALSE
                 /\ status'[h] \in {400, 401, 404, 405}
              \/ \E r \in Request :
                    /\ Refusal(r) = 0
                    /\ req'[h] = r /\ pc'[h] = FirstStep(r.kind) /\ status'[h] = 0
                    /\ UNCHANGED <<cap, put, err>>
<1>0. h \in Procs
  BY DEF Procs
<1>1. PICK r \in Request : Arrive(h, r)
  BY ArrivesRequest
<1>2. Refusal(r) \in {0, 400, 401, 404, 405}
  BY DEF Refusal
<1>3. CASE Refusal(r) # 0
  BY <1>0, <1>1, <1>2, <1>3 DEF Arrive, Answer, Goto, IInv, TypeOK
<1>4. CASE Refusal(r) = 0
  BY <1>0, <1>1, <1>4 DEF Arrive, Goto, IInv, TypeOK
<1> QED BY <1>3, <1>4

LEMMA FirstLabels == \A kind : FirstStep(kind) \in {"stage", "lock", "rlock"}
BY DEF FirstStep

-----------------------------------------------------------------------------
(* Booting.                                                                *)

LEMMA BootsAloneStep ==
    ASSUME Before, Next, faults' = 0, faults = 0
    PROVE  BootsAlone'
<1> USE DEF Before, FaultFree
<1>0. SUFFICES ASSUME ~ Serving'
               PROVE  /\ \A h \in Handlers : pc'[h] = "idle"
                      /\ temp' = Nothing /\ listed' = {}
  BY DEF BootsAlone
<1>1. CASE Crash
  BY <1>1, ProcessesAssumption DEF Crash, Booting, Procs
<1>2. CASE Tick
  BY <1>0, <1>2 DEF Tick, BootsAlone, Serving, diskVars, memVars
<1>3. ASSUME NEW h \in Handlers, Requests(h) \/ ClientStep(h) \/ HandlerStep(h) \/ MutexStep(h)
      PROVE  FALSE
  <2>1. h \in Procs /\ Main \in Procs /\ h # Main
    BY ProcessesAssumption DEF Procs
  <2>2. pc'[Main] = pc[Main]
    BY <1>3, <2>1, OthersUntouched DEF StreamHeld
  <2>3. ~ Serving
    BY <1>0, <2>2 DEF Serving
  <2>4. pc[h] = "idle" /\ ~ Requests(h)
    BY <2>3, Arrival DEF BootsAlone, StreamHeld
  <2> QED BY <1>3, <2>4 DEF ClientStep, HandlerStep, MutexStep, Stage, StageFails, Stream,
       Validate, Reject, Commit, Record, Reply, TakeReadLock, Snapshot, Open,
       TakeWriteLock, Scan, Rebuild, ScanLosesTemp, Rename, ReleaseWriteLock
<1>4. CASE MutexStep(Main)
  <2>1. Main \in Procs
    BY DEF Procs
  <2>2. ~ Serving
    BY <1>4 DEF Serving, MutexStep, TakeWriteLock, Scan, Rebuild, ScanLosesTemp, Rename,
       ReleaseWriteLock
  <2>3. \A h \in Handlers : pc[h] = "idle" /\ pc'[h] = pc[h]
    <3> SUFFICES ASSUME NEW h \in Handlers PROVE pc[h] = "idle" /\ pc'[h] = pc[h]
      OBVIOUS
    <3>1. h \in Procs /\ h # Main
      BY ProcessesAssumption DEF Procs
    <3> QED BY <1>4, <2>1, <2>2, <3>1, OthersUntouched DEF BootsAlone, StreamHeld
  <2>4. temp' = temp
    <3>1. Rename(Main) => put[Main].dst = IndexPath
      BY <2>1, PutCases, ProcessesAssumption DEF Rename
    <3> QED BY <1>4, <3>1 DEF MutexStep, TakeWriteLock, Scan, Rebuild, ScanLosesTemp, Rename,
         ReleaseWriteLock, diskVars
  <2>5. listed' = {}
    <3>1. temp = Nothing /\ listed = {}
      BY <2>2 DEF BootsAlone
    <3> QED BY <1>4, <3>1 DEF MutexStep, TakeWriteLock, Scan, Rebuild, ScanLosesTemp, Rename,
         ReleaseWriteLock, memVars, Nothing
  <2> QED BY <2>2, <2>3, <2>4, <2>5 DEF BootsAlone
<1> QED BY <1>1, <1>2, <1>3, <1>4, FaultlessStep DEF Procs

-----------------------------------------------------------------------------
(* No error.                                                               *)

LEMMA OwnErrors ==
    ASSUME Before, NEW p \in Procs,
           \/ MutexStep(p)
           \/ p \in Handlers /\ (Requests(p) \/ ClientStep(p) \/ HandlerStep(p))
    PROVE  /\ pc'[p] \notin {"aside"} \cup MovedAside
           /\ err'[p] => pc'[p] = "unlock" /\ ~ Uploading(p)'
<1> USE DEF Before, FaultFree, IInv, TypeOK, regVars, Goto, MovedAside
<1>0. ~ err[p] \/ pc[p] = "unlock"
  BY DEF NothingFails
<1>1. CASE MutexStep(p)
  <2>1. CASE TakeWriteLock(p) \/ Scan(p) \/ Rebuild(p)
    BY <2>1 DEF TakeWriteLock, Scan, Rebuild, Save, NothingFails
  <2>2. CASE ScanLosesTemp(p)
    <3>1. ~ Uploading(p)
      BY <2>2 DEF ScanLosesTemp, RequestFits, Uploading, Procs
    <3> QED BY <2>2, <3>1 DEF ScanLosesTemp, Fails, Uploading
  <2>3. CASE Rename(p)
    BY <2>3 DEF Rename, AfterReplace, NothingFails
  <2>4. CASE ReleaseWriteLock(p)
    BY <2>4 DEF ReleaseWriteLock, NothingFails
  <2> QED BY <1>1, <2>1, <2>2, <2>3, <2>4 DEF MutexStep
<1>2. CASE p \in Handlers /\ Requests(p)
  <2>1. pc[p] = "idle" /\ (err'[p] = FALSE \/ err' = err)
    BY <1>2, Arrival DEF StreamHeld
  <2>2. pc'[p] \in {"idle", "stage", "lock", "rlock"}
    BY <1>2, Arrival, FirstLabels DEF StreamHeld
  <2>3. ~ err'[p]
    BY <1>0, <2>1
  <2> QED BY <2>2, <2>3
<1>3. CASE p \in Handlers /\ ClientStep(p)
  BY <1>3 DEF ClientStep, Stage, StageFails, Stream, Answer, NothingFails
<1>4. CASE p \in Handlers /\ HandlerStep(p)
  BY <1>4 DEF HandlerStep, Validate, Reject, Commit, Record, Save, Reply, TakeReadLock,
     Snapshot, Open, Answer, NothingFails
<1> QED BY <1>1, <1>2, <1>3, <1>4

LEMMA NothingFailsStep ==
    ASSUME Before, Next, faults' = 0, faults = 0
    PROVE  NothingFails'
<1> USE DEF Before, FaultFree
<1>1. CASE Tick
  BY <1>1 DEF Tick, NothingFails, Uploading, regVars
<1>2. CASE Crash
  BY <1>2 DEF Crash, Booting, NoErrors, NothingFails, MovedAside
<1>3. ASSUME NEW p \in Procs,
             \/ MutexStep(p)
             \/ p \in Handlers /\ (Requests(p) \/ ClientStep(p) \/ HandlerStep(p))
      PROVE  NothingFails'
  <2> SUFFICES ASSUME NEW q \in Procs
               PROVE  /\ pc'[q] \notin {"aside"} \cup MovedAside
                      /\ err'[q] => pc'[q] = "unlock" /\ ~ Uploading(q)'
    BY DEF NothingFails
  <2>1. CASE q = p
    BY <1>3, <2>1, OwnErrors
  <2>2. CASE q # p
    BY <1>3, <2>2, OthersUntouched DEF NothingFails, Uploading, StreamHeld
  <2> QED BY <2>1, <2>2
<1> QED BY <1>1, <1>2, <1>3, FaultlessStep DEF Procs

-----------------------------------------------------------------------------
(* The index.                                                              *)

\* A process in a critical step is the only one that may be saving the index
\* or about to record an artifact.
LEMMA AloneAtIndex ==
    ASSUME IInv, NEW p \in Procs, pc[p] \in Critical
    PROVE  \A q \in Procs : q # p => ~ Saving(q) /\ pc[q] # "record"
BY CriticalAlone DEF Saving, Critical, Replacing

\* A step that leaves the files and the index alone, of a process that neither
\* saves nor records anything, keeps what is known of the index.
LEMMA IndexQuiet ==
    ASSUME Before, NEW p \in Procs, UNCHANGED <<disk, Index>>,
           \A q \in Procs : q # p => pc'[q] = pc[q] /\ req'[q] = req[q] /\ put'[q] = put[q],
           ~ Saving(p), ~ Saving(p)', pc[p] # "record", Loaded' => Loaded
    PROVE  IndexFollows'
<1>1. StoredIndex' = StoredIndex /\ \A n \in Names : Contents(n)' = Contents(n)
  BY DEF StoredIndex, Contents
<1>2. \A q \in Procs : Saving(q)' = Saving(q) /\ (Saving(q)' => put'[q] = put[q])
  BY DEF Saving
<1>3. ASSUME Loaded', NEW n \in Names
      PROVE  \/ Listing(Index)'[n] = Contents(n)'
             \/ \E h \in Handlers : pc'[h] = "record" /\ req'[h].path = n
  <2>1. CASE Listing(Index)[n] = Contents(n)
    BY <1>1, <2>1 DEF Listing
  <2>2. CASE \E h \in Handlers : pc[h] = "record" /\ req[h].path = n
    BY <2>2 DEF Procs
  <2> QED BY <1>3, <2>1, <2>2 DEF Before, FaultFree, IndexFollows
<1>4. \A n \in Names : StoredIndex'[n] # Absent => disk'[n] # Absent
  BY <1>1 DEF Before, FaultFree, IndexFollows
<1>5. \A q \in Procs : Saving(q)' => put'[q].src.index = Index'
  BY <1>2 DEF Before, FaultFree, IndexFollows
<1>6. Loaded' => /\ Keeps(Index, StoredIndex)'
                 /\ (\A q \in Procs : ~ Saving(q)') => StoredIndex' = Index'
  BY <1>1, <1>2 DEF Before, FaultFree, IndexFollows, Keeps
<1> QED BY <1>3, <1>4, <1>5, <1>6 DEF IndexFollows

\* With nobody about to record an artifact, the loaded index lists exactly the
\* artifacts of the store.
LEMMA IndexListsStore ==
    ASSUME Before, Loaded, \A h \in Handlers : pc[h] # "record"
    PROVE  \A n \in Names : /\ Listing(Index)[n] = Contents(n)
                            /\ Index[n] # Absent <=> disk[n] # Absent
<1> SUFFICES ASSUME NEW n \in Names
             PROVE  /\ Listing(Index)[n] = Contents(n)
                    /\ Index[n] # Absent <=> disk[n] # Absent
  OBVIOUS
<1>1. Listing(Index)[n] = Contents(n)
  BY DEF Before, FaultFree, IndexFollows
<1>2. disk[n] # Absent => disk[n].body \in Bodies
  BY DEF Before, IInv, DiskFits, FitsAt, Paths, Artifact
<1>3. Index[n] # Absent => Index[n].digest \in Bodies
  BY DEF Before, IInv, TypeOK, IndexValue, Capsule
<1> QED BY <1>1, <1>2, <1>3, BodiesAssumption DEF Listing, Contents

\* index.json is replaced by the index in memory.
LEMMA IndexSaved ==
    ASSUME Before, NEW p \in Procs, Rename(p), put[p].dst = IndexPath
    PROVE  IndexFollows' /\ StoredIndex' = Index /\ Keeps(Index, StoredIndex)
<1> USE DEF Before, FaultFree
<1>0. pc[p] = "rename" /\ pc[p] \in Critical /\ Saving(p)
  BY DEF Rename, Critical, Replacing, Saving
<1>1. Loaded
  BY <1>0, HandlerFindsIndex DEF Loaded, Procs
<1>2. \A q \in Procs : q # p => ~ Saving(q) /\ pc[q] # "record"
  BY <1>0, AloneAtIndex
<1>3. put[p].src # Absent /\ put[p].src.index = Index
  BY <1>0, PutCases DEF IndexFollows
<1>4. /\ disk'[IndexPath] = put[p].src
      /\ \A n \in Names : disk'[n] = disk[n]
      /\ Index' = Index
  BY DEF Rename, IInv, TypeOK, Paths, memVars
<1>5. StoredIndex' = Index
  BY <1>3, <1>4 DEF StoredIndex
<1>6. \A n \in Names : Contents(n)' = Contents(n)
  BY <1>4 DEF Contents
<1>7. \A n \in Names : /\ Listing(Index)[n] = Contents(n)
                       /\ Index[n] # Absent <=> disk[n] # Absent
  <2>1. \A h \in Handlers : pc[h] # "record"
    BY <1>0, <1>2 DEF Procs
  <2> QED BY <1>1, <2>1, IndexListsStore
<1>8. \A q \in Procs : ~ Saving(q)'
  <2> SUFFICES ASSUME NEW q \in Procs PROVE ~ Saving(q)'
    OBVIOUS
  <2>1. CASE q = p
    BY <2>1 DEF Rename, AfterReplace, Goto, Saving, IInv, TypeOK
  <2>2. CASE q # p
    BY <1>2, <2>2, OthersUntouched DEF MutexStep, StreamHeld, Saving
  <2> QED BY <2>1, <2>2
<1>9. Keeps(Index, Index)
  BY DEF Keeps
<1>10. Listing(Index)' = Listing(Index) /\ Keeps(Index, StoredIndex)' = Keeps(Index, Index)
  BY <1>4, <1>5 DEF Listing, Keeps
<1>11. Keeps(Index, StoredIndex)
  BY <1>1 DEF IndexFollows
<1> QED BY <1>4, <1>5, <1>6, <1>7, <1>8, <1>9, <1>10, <1>11 DEF IndexFollows

\* An uploaded file replaces the file at its path.
LEMMA IndexAtRename ==
    ASSUME Before, NEW p \in Procs, Rename(p), put[p].dst # IndexPath
    PROVE  IndexFollows' /\ StoredIndex' = StoredIndex
<1> USE DEF Before, FaultFree
<1>0. pc[p] = "rename" /\ pc[p] \in Critical /\ p \in Procs
  BY DEF Rename, Critical, Replacing
<1>1. /\ p \in Handlers /\ put[p].dst = req[p].path /\ put[p].src # Absent
      /\ put[p].dst \in Names \/ put[p].dst \in Issuers
  BY <1>0, PutCases
<1>2. Loaded
  BY <1>0, <1>1, HandlerFindsIndex
<1>3. \A q \in Procs : ~ Saving(q) /\ pc[q] # "record"
  BY <1>0, AloneAtIndex DEF Saving
<1>4. StoredIndex = Index
  BY <1>2, <1>3 DEF IndexFollows
<1>5. /\ disk' = [disk EXCEPT ![req[p].path] = put[p].src]
      /\ Index' = Index /\ req'[p] = req[p]
      /\ pc'[p] = IF put[p].dst \in Names THEN "record" ELSE "unlock"
  BY <1>1 DEF Rename, AfterReplace, Goto, IInv, TypeOK, memVars, regVars
<1>6. StoredIndex' = StoredIndex
  BY <1>1, <1>5 DEF StoredIndex
<1>7. \A n \in Names : n # req[p].path => disk'[n] = disk[n] /\ Contents(n)' = Contents(n)
  BY <1>5 DEF Contents
<1>8. \A q \in Procs : ~ Saving(q)'
  <2> SUFFICES ASSUME NEW q \in Procs PROVE ~ Saving(q)'
    OBVIOUS
  <2>1. CASE q = p
    BY <1>5, <2>1 DEF Saving
  <2>2. CASE q # p
    BY <1>3, <2>2, OthersUntouched DEF MutexStep, StreamHeld, Saving
  <2> QED BY <2>1, <2>2
<1>9. ASSUME NEW n \in Names
      PROVE  \/ Listing(Index)'[n] = Contents(n)'
             \/ \E h \in Handlers : pc'[h] = "record" /\ req'[h].path = n
  <2>1. CASE n = req[p].path
    BY <1>1, <1>5, <2>1
  <2>2. CASE n # req[p].path
    <3>1. Listing(Index)[n] = Contents(n)
      BY <1>2, <1>3 DEF IndexFollows, Procs
    <3>2. Listing(Index)' = Listing(Index)
      BY <1>5 DEF Listing
    <3> QED BY <1>7, <2>2, <3>1, <3>2
  <2> QED BY <2>1, <2>2
<1>10. ASSUME NEW n \in Names, StoredIndex[n] # Absent
       PROVE  disk'[n] # Absent
  <2>1. disk[n] # Absent /\ n \in Paths
    BY <1>10 DEF IndexFollows, Paths
  <2> QED BY <1>1, <1>5, <2>1 DEF IInv, TypeOK
<1>11. Keeps(Index, StoredIndex)'
  BY <1>4, <1>5, <1>6 DEF Keeps
<1> QED BY <1>4, <1>5, <1>6, <1>8, <1>9, <1>10, <1>11 DEF IndexFollows

\* A reload makes an index that lists the store and keeps every created_at.
LEMMA IndexAtRebuild ==
    ASSUME Before, NEW p \in Procs, Rebuild(p)
    PROVE  IndexFollows'
<1> USE DEF Before, FaultFree
<1>0. pc[p] = "scan" /\ pc[p] \in Critical
  BY DEF Rebuild, Critical
<1>1. /\ UNCHANGED disk /\ Index' = Rebuilt(StoredIndex)
      /\ Saving(p)' /\ put'[p].src.index = Index'
  BY DEF Rebuild, Save, Goto, Saving, IInv, TypeOK, diskVars
<1>2. StoredIndex' = StoredIndex /\ \A n \in Names : Contents(n)' = Contents(n)
  BY <1>1 DEF StoredIndex, Contents
<1>3. \A q \in Procs : q # p => ~ Saving(q)'
  BY <1>0, AloneAtIndex, OthersUntouched DEF MutexStep, StreamHeld, Saving
<1>4. ASSUME NEW n \in Names
      PROVE  /\ Listing(Index)'[n] = Contents(n)
             /\ StoredIndex[n] # Absent =>
                   Index'[n] # Absent /\ Index'[n].created = StoredIndex[n].created
  <2>1. Listing(Index)'[n] = IF Index'[n] = Absent THEN Absent ELSE Index'[n].digest
    BY DEF Listing
  <2>2. CASE disk[n] = Absent
    <3>1. StoredIndex[n] = Absent
      BY <2>2 DEF IndexFollows
    <3>2. Index'[n] = Absent
      BY <1>1, <2>2, <3>1 DEF Rebuilt
    <3> QED BY <2>1, <2>2, <3>1, <3>2 DEF Contents
  <2>3. CASE disk[n] # Absent
    <3>1. Index'[n] = [digest |-> disk[n].body,
                       created |-> IF StoredIndex[n] = Absent THEN disk[n].mtime
                                                              ELSE StoredIndex[n].created]
      BY <1>1, <2>3 DEF Rebuilt
    <3>2. Index'[n] # Absent
      <4>1. Rebuilt(StoredIndex) \in IndexValue
        BY RebuiltType, StoredIndexType DEF IInv
      <4>2. disk[n] \in Artifact
        BY <2>3 DEF IInv, DiskFits, FitsAt, Paths
      <4>3. StoredIndex[n] # Absent => StoredIndex[n].created \in Times
        BY StoredIndexType DEF IInv, IndexValue, Capsule
      <4>4. Index'[n] \in Capsule
        BY <3>1, <4>2, <4>3 DEF Capsule, Artifact
      <4> QED BY <4>4, AbsentAssumption
    <3>3. Contents(n) = disk[n].body
      BY <2>3 DEF Contents
    <3> QED BY <2>1, <3>1, <3>2, <3>3
  <2> QED BY <2>2, <2>3
<1>5. Keeps(Index, StoredIndex)'
  BY <1>2, <1>4 DEF Keeps
<1>6. \A q \in Procs : Saving(q)' => put'[q].src.index = Index'
  BY <1>1, <1>3
<1>7. \A n \in Names : StoredIndex'[n] # Absent => disk'[n] # Absent
  BY <1>1, <1>2 DEF IndexFollows
<1>8. \A n \in Names : Listing(Index)'[n] = Contents(n)'
  BY <1>2, <1>4
<1> QED BY <1>1, <1>5, <1>6, <1>7, <1>8 DEF IndexFollows

\* The entry of an upload makes the index agree with the file it has replaced.
LEMMA IndexAtRecord ==
    ASSUME Before, NEW h \in Handlers, Record(h)
    PROVE  IndexFollows' /\ Publishing(h) /\ Index'[req[h].path] # Absent
<1> USE DEF Before, FaultFree
<1>0. pc[h] = "record" /\ pc[h] \in Critical /\ h \in Procs
  BY DEF Record, Critical, Procs
<1>1. Publishing(h) /\ EntryOf(h, disk[req[h].path]) /\ Loaded
  BY <1>0, HandlerFindsIndex DEF EntryFits
<1>2. req[h].path \in Names
  BY <1>0, <1>1, RequestType DEF Publishing, IInv, RequestFits
<1>3. \A q \in Procs : ~ Saving(q) /\ (q # h => pc[q] # "record")
  BY <1>0, AloneAtIndex DEF Saving
<1>4. StoredIndex = Index
  BY <1>1, <1>3 DEF IndexFollows
<1>5. /\ UNCHANGED disk /\ Index' = [Index EXCEPT ![req[h].path] = cap[h]]
      /\ Saving(h)' /\ put'[h].src.index = Index'
  BY <1>0 DEF Record, Save, Goto, Saving, IInv, TypeOK, diskVars
<1>6. StoredIndex' = StoredIndex /\ \A n \in Names : Contents(n)' = Contents(n)
  BY <1>5 DEF StoredIndex, Contents
<1>7. /\ Index'[req[h].path] = cap[h] /\ cap[h] # Absent
      /\ \A n \in Names : n # req[h].path => Index'[n] = Index[n]
  BY <1>1, <1>2, <1>5, AbsentAssumption DEF EntryOf, IInv, TypeOK, IndexValue
<1>8. \A q \in Procs : q # h => ~ Saving(q)'
  BY <1>0, <1>3, OthersUntouched DEF HandlerStep, StreamHeld, Saving
<1>9. ASSUME NEW n \in Names
      PROVE  Listing(Index)'[n] = Contents(n)
  <2>1. Listing(Index)'[n] = IF Index'[n] = Absent THEN Absent ELSE Index'[n].digest
    BY DEF Listing
  <2>2. CASE n = req[h].path
    BY <1>1, <1>7, <2>1, <2>2 DEF EntryOf, Contents
  <2>3. CASE n # req[h].path
    <3>1. ~ \E g \in Handlers : pc[g] = "record" /\ req[g].path = n
      BY <1>3, <2>3
    <3>2. Listing(Index)[n] = Contents(n)
      BY <1>1, <3>1 DEF IndexFollows
    <3> QED BY <1>7, <2>1, <2>3, <3>2 DEF Listing
  <2> QED BY <2>2, <2>3
<1>10. Keeps(Index, StoredIndex)'
  BY <1>1, <1>4, <1>6, <1>7 DEF Keeps, EntryOf
<1>11. \A q \in Procs : Saving(q)' => put'[q].src.index = Index'
  BY <1>5, <1>8
<1>12. \A n \in Names : StoredIndex'[n] # Absent => disk'[n] # Absent
  BY <1>5, <1>6 DEF IndexFollows
<1>13. \A n \in Names : Listing(Index)'[n] = Contents(n)'
  BY <1>6, <1>9
<1> QED BY <1>0, <1>1, <1>5, <1>7, <1>10, <1>11, <1>12, <1>13 DEF IndexFollows

\* A handler that asked to write, and whose request is proper, has a path.
LEMMA UploadPath ==
    ASSUME IInv, NEW h \in Handlers, pc[h] # "idle", Uploading(h)
    PROVE  /\ req[h].path \in Names \cup Issuers
           /\ req[h].kind = "publish" => req[h].path \in Names /\ req[h].content \in Bodies
           /\ req[h].kind = "revput" =>
                 req[h].path \in Issuers /\ req[h].content \in RevocationList
<1>1. req[h] \in Request /\ req[h].path # NoPath /\ req[h].kind \in {"publish", "revput"}
  BY DEF IInv, RequestFits, Uploading
<1> QED BY <1>1, RequestType

\* The index through the steps of a handler that neither records nor writes.
LEMMA IndexAtHandler ==
    ASSUME Before, NEW h \in Handlers, ~ Record(h),
           Requests(h) \/ ClientStep(h) \/ HandlerStep(h)
    PROVE  IndexFollows' /\ UNCHANGED <<disk, Index>>
<1> USE DEF Before, Goto
<1>0. h \in Procs /\ Main \in Procs /\ h # Main
  OBVIOUS
<1>1. \A q \in Procs : q # h => pc'[q] = pc[q] /\ req'[q] = req[q] /\ put'[q] = put[q]
  BY <1>0, OthersUntouched DEF StreamHeld
<1>2. Loaded' => Loaded
  BY <1>0, <1>1 DEF Loaded
<1>3. UNCHANGED <<disk, Index>> /\ pc[h] \notin {"rename", "record"}
  <2>1. CASE Requests(h)
    BY <2>1, Arrival DEF StreamHeld, diskVars, memVars
  <2>2. CASE ClientStep(h)
    BY <2>2 DEF ClientStep, Stage, StageFails, Stream, Leave, diskVars, memVars
  <2>3. CASE HandlerStep(h)
    BY <2>3 DEF HandlerStep, Validate, Reject, Commit, Reply, TakeReadLock, Snapshot, Open,
       Leave, HoldReadLock, diskVars, memVars
  <2> QED BY <2>1, <2>2, <2>3
<1>4. ~ Saving(h)'
  <2>1. CASE Requests(h)
    <3>1. pc'[h] \in {"idle", "stage", "lock", "rlock"}
      BY <2>1, Arrival, FirstLabels DEF StreamHeld
    <3> QED BY <3>1 DEF Saving
  <2>2. CASE ClientStep(h)
    BY <1>0, <2>2 DEF ClientStep, Stage, StageFails, Stream, Answer, Saving, IInv, TypeOK
  <2>3. CASE Commit(h)
    <3>1. put'[h].dst \in Names \cup Issuers
      BY <1>0, <2>3, UploadPath DEF Commit, IInv, TypeOK
    <3> QED BY <3>1 DEF Saving
  <2>4. CASE HandlerStep(h) /\ ~ Commit(h)
    BY <1>0, <2>4 DEF HandlerStep, Validate, Reject, Reply, TakeReadLock, Snapshot, Open,
       Answer, Saving, IInv, TypeOK
  <2> QED BY <2>1, <2>2, <2>3, <2>4
<1>5. ~ Saving(h) /\ pc[h] # "record"
  BY <1>3 DEF Saving
<1> QED BY <1>0, <1>1, <1>2, <1>3, <1>4, <1>5, IndexQuiet

\* The index through the steps at the lock that move no file.
LEMMA IndexAtLock ==
    ASSUME Before, NEW p \in Procs,
           TakeWriteLock(p) \/ Scan(p) \/ ScanLosesTemp(p) \/ ReleaseWriteLock(p)
    PROVE  IndexFollows' /\ UNCHANGED <<disk, Index>>
<1> USE DEF Before, Goto
<1>1. \A q \in Procs : q # p => pc'[q] = pc[q] /\ req'[q] = req[q] /\ put'[q] = put[q]
  BY OthersUntouched DEF StreamHeld, MutexStep
<1>2. /\ UNCHANGED <<disk, Index>>
      /\ ~ Saving(p) /\ ~ Saving(p)' /\ pc[p] # "record"
  BY DEF TakeWriteLock, Scan, ScanLosesTemp, ReleaseWriteLock, Fails, Saving, IInv, TypeOK,
     diskVars, memVars
<1>3. Loaded' => Loaded
  <2>1. CASE p # Main
    BY <1>1, <2>1 DEF Loaded
  <2>2. CASE p = Main
    <3>1. ~ ScanLosesTemp(p)
      BY <2>2 DEF ScanLosesTemp, FaultFree, BootsAlone, Serving
    <3> QED BY <2>2, <3>1 DEF TakeWriteLock, Scan, ReleaseWriteLock, Loaded, IInv, TypeOK
  <2> QED BY <2>1, <2>2
<1> QED BY <1>1, <1>2, <1>3, IndexQuiet

LEMMA IndexFollowsStep ==
    ASSUME Before, Next, faults' = 0, faults = 0
    PROVE  IndexFollows'
<1>1. CASE Tick
  <2>1. /\ StoredIndex' = StoredIndex /\ Listing(Index)' = Listing(Index)
        /\ \A n \in Names : Contents(n)' = Contents(n)
        /\ \A p \in Procs : Saving(p)' = Saving(p)
        /\ Keeps(Index, StoredIndex)' = Keeps(Index, StoredIndex) /\ Loaded' = Loaded
        /\ UNCHANGED <<disk, Index, pc, put, req>>
    BY <1>1 DEF Tick, diskVars, memVars, regVars, StoredIndex, Listing, Contents, Saving,
       Keeps, Loaded
  <2>2. IndexFollows
    BY DEF Before, FaultFree
  <2> QED BY <2>1, <2>2 DEF IndexFollows
<1>2. CASE Crash
  <2>1. ~ Loaded' /\ \A p \in Procs : ~ Saving(p)'
    BY <1>2 DEF Crash, Booting, Loaded, Saving
  <2>2. StoredIndex' = StoredIndex /\ disk' = disk
    BY <1>2 DEF Crash, StoredIndex
  <2> QED BY <2>1, <2>2 DEF IndexFollows, Before, FaultFree
<1>3. ASSUME NEW h \in Handlers, Requests(h) \/ ClientStep(h) \/ HandlerStep(h)
      PROVE  IndexFollows'
  BY <1>3, IndexAtHandler, IndexAtRecord
<1>4. ASSUME NEW p \in Procs, MutexStep(p)
      PROVE  IndexFollows'
  BY <1>4, IndexAtLock, IndexAtRebuild, IndexSaved, IndexAtRename DEF MutexStep
<1> QED BY <1>1, <1>2, <1>3, <1>4, FaultlessStep DEF Before, FaultFree

\* index.json never loses an entry or changes its created_at.
LEMMA StoredIndexGrows ==
    ASSUME Before, Next, faults' = 0, faults = 0
    PROVE  \A n \in Names :
              StoredIndex[n] # Absent =>
                  StoredIndex'[n] # Absent /\ StoredIndex'[n].created = StoredIndex[n].created
<1>1. CASE StoredIndex' = StoredIndex
  BY <1>1
<1>2. CASE StoredIndex' = Index /\ Keeps(Index, StoredIndex)
  BY <1>2 DEF Keeps
<1>3. disk' = disk => StoredIndex' = StoredIndex
  BY DEF StoredIndex
<1>4. CASE Tick \/ Crash
  BY <1>1, <1>3, <1>4 DEF Tick, Crash, diskVars
<1>5. ASSUME NEW h \in Handlers, Requests(h) \/ ClientStep(h) \/ HandlerStep(h)
      PROVE  disk' = disk
  <2>1. CASE Record(h)
    BY <2>1 DEF Record, diskVars
  <2> QED BY <1>5, <2>1, IndexAtHandler
<1>6. ASSUME NEW p \in Procs, MutexStep(p)
      PROVE  \/ StoredIndex' = StoredIndex
             \/ StoredIndex' = Index /\ Keeps(Index, StoredIndex)
  <2>1. CASE Rebuild(p)
    BY <1>3, <2>1 DEF Rebuild, diskVars
  <2>2. CASE TakeWriteLock(p) \/ Scan(p) \/ ScanLosesTemp(p) \/ ReleaseWriteLock(p)
    BY <1>3, <2>2, IndexAtLock
  <2>3. CASE Rename(p)
    BY <2>3, IndexSaved, IndexAtRename
  <2> QED BY <1>6, <2>1, <2>2, <2>3 DEF MutexStep
<1> QED BY <1>1, <1>2, <1>3, <1>4, <1>5, <1>6, FaultlessStep DEF Before, FaultFree

-----------------------------------------------------------------------------
(* The entry of an upload.                                                 *)

\* While a process is in a critical step, no other changes a file or the index.
LEMMA OthersLeaveIndex ==
    ASSUME Before, NEW p \in Procs, NEW q \in Procs, p # q, pc[q] \in Critical,
           \/ MutexStep(p)
           \/ p \in Handlers /\ (Requests(p) \/ ClientStep(p) \/ HandlerStep(p))
    PROVE  UNCHANGED <<disk, Index>>
<1>1. pc[p] \notin Critical
  BY CriticalAlone DEF Before
<1>2. ~ Record(p) /\ ~ Rename(p) /\ ~ Rebuild(p)
  BY <1>1 DEF Record, Rename, Rebuild, Critical, Replacing
<1> QED BY <1>2, IndexAtHandler, IndexAtLock DEF MutexStep

\* What EntryFits says of one handler.
EntryFitsFor(h) ==
    /\ pc[h] = "record" => Publishing(h)
    /\ Publishing(h) =>
          /\ pc[h] \in {"lock", "locked"} => cap[h].digest = temp[h].body
          /\ pc[h] = "rename" /\ ~ Saving(h) => EntryOf(h, put[h].src)
          /\ pc[h] = "record" => EntryOf(h, disk[req[h].path])
          /\ Saving(h) => Index[req[h].path] # Absent
          /\ pc[h] \in {"unlock", "reply"} => StoredIndex[req[h].path] # Absent

\* The handler's own steps.
LEMMA OwnEntry ==
    ASSUME Before, NEW h \in Handlers,
           MutexStep(h) \/ Requests(h) \/ ClientStep(h) \/ HandlerStep(h)
    PROVE  EntryFitsFor(h)'
<1> USE DEF Goto
<1>0. h \in Procs /\ EntryFitsFor(h) /\ IInv /\ TypeOK
  BY DEF Before, FaultFree, EntryFits, EntryFitsFor, IInv
<1>1. CASE pc'[h] \in {"idle", "stage", "validate", "rlock", "read", "stream", "scan"}
  BY <1>1 DEF EntryFitsFor, Saving
<1>2. CASE ~ Uploading(h)' /\ pc'[h] # "record"
  BY <1>2 DEF EntryFitsFor, Publishing
<1>3. CASE Requests(h)
  <2>1. CASE pc'[h] = "lock"
    <3>1. PICK r \in Request : req'[h] = r /\ pc'[h] = FirstStep(r.kind)
      BY <1>3, <2>1, Arrival DEF Before, StreamHeld
    <3>2. r.kind = "list"
      BY <2>1, <3>1 DEF FirstStep
    <3> QED BY <1>2, <2>1, <3>1, <3>2 DEF Uploading
  <2>2. CASE pc'[h] # "lock"
    <3>1. pc'[h] \in {"idle", "stage", "rlock"}
      BY <1>3, <2>2, Arrival, FirstLabels DEF Before, StreamHeld
    <3> QED BY <1>1, <3>1
  <2> QED BY <2>1, <2>2
<1>4. CASE Validate(h)
  BY <1>0, <1>4 DEF Validate, TypeOK, diskVars, EntryFitsFor, Publishing, Uploading, Saving
<1>5. CASE TakeWriteLock(h)
  BY <1>0, <1>5 DEF TakeWriteLock, TypeOK, diskVars, regVars, EntryFitsFor, Publishing,
     Uploading, Saving
<1>6. CASE Commit(h)
  <2>1. /\ pc[h] = "locked" /\ pc'[h] = "rename" /\ req' = req /\ Index' = Index
        /\ put'[h].src = temp[h] /\ Uploading(h) /\ cap' = KeptCreatedAt(h)
    BY <1>0, <1>6 DEF Commit, TypeOK, memVars
  <2>2. ~ Saving(h)'
    <3>1. put'[h].dst \in Names \cup Issuers
      BY <1>0, <1>6, UploadPath DEF Commit, TypeOK
    <3> QED BY <3>1 DEF Saving
  <2>3. ASSUME req[h].kind = "publish"
        PROVE  EntryOf(h, put[h].src)'
    <3>1. cap[h] \in Capsule /\ temp[h] \in Artifact /\ cap[h].digest = temp[h].body
      BY <1>0, <2>1, <2>3 DEF IInv, StagedFits, EntryFitsFor, Publishing
    <3>2. temp[h] # Absent
      BY <3>1, AbsentAssumption DEF Files
    <3>3. CASE Index[req[h].path] = Absent
      BY <2>1, <3>1, <3>2, <3>3 DEF KeptCreatedAt, EntryOf
    <3>4. CASE Index[req[h].path] # Absent
      <4>1. Index[req[h].path] \in Capsule
        BY <1>0, <2>1, <2>3, <3>4, UploadPath DEF TypeOK, IndexValue
      <4>2. cap'[h] = [cap[h] EXCEPT !.created = Index[req[h].path].created]
        BY <1>0, <2>1, <2>3, <3>4 DEF KeptCreatedAt, TypeOK
      <4>3. cap'[h] \in Capsule /\ cap'[h].digest = cap[h].digest
            /\ cap'[h].created = Index[req[h].path].created
        BY <3>1, <4>1, <4>2 DEF Capsule
      <4> QED BY <2>1, <3>1, <3>2, <4>3 DEF EntryOf
    <3> QED BY <3>3, <3>4
  <2> QED BY <2>1, <2>2, <2>3 DEF EntryFitsFor, Publishing, Uploading
<1>7. CASE Rename(h) /\ put[h].dst = IndexPath
  <2>1. /\ Saving(h) /\ pc[h] = "rename" /\ req' = req
        /\ pc'[h] = "unlock" /\ StoredIndex' = Index
    BY <1>0, <1>7, IndexSaved DEF Rename, AfterReplace, Saving, TypeOK, regVars
  <2> QED BY <1>0, <2>1 DEF EntryFitsFor, Publishing, Uploading, Saving
<1>8. CASE Rename(h) /\ put[h].dst # IndexPath
  <2>1. /\ pc[h] = "rename" /\ ~ Saving(h) /\ UNCHANGED <<req, cap, put, Index>>
        /\ pc'[h] = IF put[h].dst \in Names THEN "record" ELSE "unlock"
        /\ disk'[put[h].dst] = put[h].src
    <3>1. pc[h] = "rename" /\ put[h].dst \in Paths
      BY <1>0, <1>8, PutCases, FitsAtType DEF Rename
    <3> QED BY <1>0, <1>8, <3>1 DEF Rename, AfterReplace, Saving, TypeOK, regVars, memVars
  <2>2. CASE Publishing(h) /\ put[h].dst = req[h].path /\ put[h].dst \in Names
    <3>1. EntryOf(h, put[h].src)
      BY <1>0, <2>1, <2>2 DEF EntryFitsFor
    <3>2. EntryOf(h, disk[req[h].path])'
      BY <2>1, <2>2, <3>1 DEF EntryOf
    <3>3. pc'[h] = "record"
      BY <2>1, <2>2
    <3> QED BY <2>1, <2>2, <3>2, <3>3 DEF EntryFitsFor, Publishing, Uploading, Saving
  <2>3. CASE req[h].kind = "revput" /\ put[h].dst \in Issuers
    <3>1. pc'[h] = "unlock"
      BY <2>1, <2>3
    <3> QED BY <2>1, <2>3, <3>1 DEF EntryFitsFor, Publishing
  <2> QED BY <1>0, <1>8, <2>1, <2>2, <2>3, PutCases
<1>9. CASE Record(h)
  <2>1. pc'[h] = "rename" /\ Saving(h)' /\ req' = req /\ Index'[req[h].path] # Absent
    BY <1>0, <1>9, IndexAtRecord DEF Record, Save, Saving, TypeOK
  <2> QED BY <2>1 DEF EntryFitsFor
<1>10. CASE ReleaseWriteLock(h)
  <2>1. /\ pc[h] = "unlock" /\ pc'[h] \in {"serving", "reply", "rlock"}
        /\ req' = req /\ StoredIndex' = StoredIndex
    BY <1>0, <1>10 DEF ReleaseWriteLock, StoredIndex, TypeOK, diskVars
  <2> QED BY <1>0, <2>1 DEF EntryFitsFor, Publishing, Uploading, Saving
<1>11. CASE Rebuild(h) \/ ScanLosesTemp(h)
  <2>1. ~ Uploading(h) /\ req' = req /\ pc'[h] # "record"
    BY <1>0, <1>11 DEF Rebuild, ScanLosesTemp, Save, Fails, IInv, RequestFits, TypeOK
  <2> QED BY <1>2, <2>1 DEF Uploading
<1>12. CASE ClientStep(h) \/ Scan(h) \/ Reject(h) \/ Reply(h) \/ TakeReadLock(h)
            \/ Snapshot(h) \/ Open(h)
  <2>1. pc'[h] \in {"idle", "stage", "validate", "rlock", "read", "stream", "scan"}
    BY <1>0, <1>12 DEF ClientStep, Stage, StageFails, Stream, Scan, Reject, Reply,
       TakeReadLock, Snapshot, Open, Answer, TypeOK
  <2> QED BY <1>1, <2>1
<1> QED BY <1>3, <1>4, <1>5, <1>6, <1>7, <1>8, <1>9, <1>10, <1>11, <1>12
     DEF MutexStep, HandlerStep

LEMMA EntryFitsStep ==
    ASSUME Before, Next, faults' = 0, faults = 0
    PROVE  EntryFits'
<1> SUFFICES ASSUME NEW h \in Handlers PROVE EntryFitsFor(h)'
  BY DEF EntryFits, EntryFitsFor
<1>0. h \in Procs /\ EntryFitsFor(h)
  BY DEF Before, FaultFree, EntryFits, EntryFitsFor
<1>1. CASE Tick
  BY <1>0, <1>1 DEF Tick, EntryFitsFor, Publishing, Uploading, Saving, EntryOf, StoredIndex,
     diskVars, memVars, regVars
<1>2. CASE Crash
  <2>1. pc'[h] = "idle"
    BY <1>0, <1>2 DEF Crash, Booting
  <2> QED BY <2>1 DEF EntryFitsFor, Publishing
<1>3. ASSUME NEW p \in Procs,
             \/ MutexStep(p)
             \/ p \in Handlers /\ (Requests(p) \/ ClientStep(p) \/ HandlerStep(p))
      PROVE  EntryFitsFor(h)'
  <2>1. CASE p = h
    BY <1>3, <2>1, OwnEntry
  <2>2. CASE p # h
    <3>1. /\ pc'[h] = pc[h] /\ req'[h] = req[h] /\ put'[h] = put[h]
          /\ cap'[h] = cap[h] /\ temp'[h] = temp[h]
      BY <1>0, <1>3, <2>2, OthersUntouched DEF Before, StreamHeld
    <3>2. CASE pc[h] \in {"unlock", "reply"}
      <4>1. Publishing(h)' = Publishing(h) /\ ~ Saving(h)'
        BY <3>1, <3>2 DEF Publishing, Uploading, Saving
      <4>2. Publishing(h) => StoredIndex'[req[h].path] # Absent
        <5>1. Publishing(h) => req[h].path \in Names
          BY <3>2, UploadPath DEF Publishing, Before
        <5> QED BY <1>0, <3>2, <5>1, StoredIndexGrows DEF EntryFitsFor
      <4> QED BY <3>1, <3>2, <4>1, <4>2 DEF EntryFitsFor
    <3>3. CASE pc[h] \in {"rename", "record"}
      <4>1. UNCHANGED <<disk, Index>>
        BY <1>0, <1>3, <2>2, <3>3, OthersLeaveIndex DEF Critical, Replacing
      <4> QED BY <1>0, <3>1, <3>3, <4>1 DEF EntryFitsFor, Publishing, Uploading, Saving, EntryOf
    <3>4. CASE pc[h] \notin {"unlock", "reply", "rename", "record"}
      BY <1>0, <3>1, <3>4 DEF EntryFitsFor, Publishing, Uploading, Saving
    <3> QED BY <3>2, <3>3, <3>4
  <2> QED BY <2>1, <2>2
<1> QED BY <1>1, <1>2, <1>3, FaultlessStep DEF Before, FaultFree

-----------------------------------------------------------------------------
(* What an upload carries.                                                 *)

\* What CallHeld says of one handler.
CallHeldFor(h) ==
    /\ pc[h] = "idle" <=> req[h] = Absent
    /\ pc[h] \notin {"idle", "stream"} => out[h] = Absent
    /\ (pc[h] # "idle" /\ Uploading(h)) =>
          /\ pc[h] \in {"validate", "lock", "locked"} => Carries(h, temp[h])
          /\ pc[h] = "rename" /\ ~ Saving(h) =>
                temp[h] # Absent /\ Carries(h, put[h].src)
          /\ pc[h] \in {"record", "unlock", "reply"} \/ Saving(h) => temp[h] = Absent

\* A handler that stays with its request and its empty hands.
LEMMA CallKept ==
    ASSUME NEW h \in Handlers, CallHeldFor(h), req'[h] = req[h], out'[h] = out[h],
           pc[h] \notin {"idle", "stream"}, pc'[h] \notin {"idle", "stream"},
           Uploading(h) =>
              /\ pc'[h] \in {"validate", "lock", "locked"} => Carries(h, temp[h])'
              /\ pc'[h] = "rename" /\ ~ Saving(h)' =>
                    temp'[h] # Absent /\ Carries(h, put[h].src)'
              /\ pc'[h] \in {"record", "unlock", "reply"} \/ Saving(h)' => temp'[h] = Absent
    PROVE  CallHeldFor(h)'
BY DEF CallHeldFor, Uploading

\* A handler that has answered.
LEMMA CallAnswered ==
    ASSUME TypeOK, NEW h \in Handlers, NEW code, NEW payload, Answer(h, code, payload)
    PROVE  CallHeldFor(h)'
BY DEF Answer, Goto, TypeOK, CallHeldFor

\* The handler's own steps.
LEMMA OwnCall ==
    ASSUME Before, NEW h \in Handlers,
           MutexStep(h) \/ Requests(h) \/ ClientStep(h) \/ HandlerStep(h)
    PROVE  CallHeldFor(h)'
<1> USE DEF Goto
<1>0. h \in Procs /\ CallHeldFor(h) /\ IInv /\ TypeOK /\ DOMAIN out = Procs
  BY DEF Before, FaultFree, CallHeld, CallHeldFor, IInv, StreamHeld
<1>1. CASE Requests(h)
  <2>1. CASE pc'[h] = "idle" /\ req'[h] = Absent
    BY <2>1 DEF CallHeldFor
  <2>2. CASE \E r \in Request : req'[h] = r /\ pc'[h] = FirstStep(r.kind)
    <3>1. PICK r \in Request : req'[h] = r /\ pc'[h] = FirstStep(r.kind)
      BY <2>2
    <3>2. r # Absent
      BY AbsentAssumption
    <3>3. pc'[h] \in {"stage", "lock", "rlock"}
      BY <3>1, FirstLabels
    <3>4. pc'[h] = "lock" => ~ Uploading(h)'
      BY <3>1 DEF FirstStep, Uploading
    <3>5. out'[h] = Absent
      BY <1>0, <1>1, Arrival
    <3> QED BY <3>1, <3>2, <3>3, <3>4, <3>5 DEF CallHeldFor, Saving
  <2> QED BY <1>0, <1>1, <2>1, <2>2, Arrival
<1>2. CASE Stage(h)
  <2>1. /\ pc[h] = "stage" /\ pc'[h] = "validate" /\ req' = req /\ out' = out
        /\ temp'[h] = IF req[h].kind = "publish"
                      THEN [body |-> req[h].content, mtime |-> now] ELSE req[h].content
    BY <1>0, <1>2 DEF Stage, TypeOK, regVars
  <2>2. Carries(h, temp[h])'
    BY <2>1 DEF Carries
  <2> QED BY <1>0, <2>1, <2>2, CallKept DEF Saving
<1>3. CASE Validate(h) \/ TakeWriteLock(h)
  <2>1. /\ pc[h] \in {"validate", "lock"} /\ pc'[h] \in {"lock", "locked"}
        /\ UNCHANGED <<req, out, temp>>
    BY <1>0, <1>3 DEF Validate, TakeWriteLock, TypeOK, diskVars, regVars
  <2>2. Uploading(h) => Carries(h, temp[h])'
    BY <1>0, <2>1 DEF CallHeldFor, Carries
  <2> QED BY <1>0, <2>1, <2>2, CallKept DEF Saving
<1>4. CASE Commit(h)
  <2>1. /\ pc[h] = "locked" /\ pc'[h] = "rename" /\ UNCHANGED <<req, out, temp>>
        /\ put'[h] = [src |-> temp[h], dst |-> req[h].path] /\ Uploading(h)
    BY <1>0, <1>4 DEF Commit, TypeOK, diskVars
  <2>2. ~ Saving(h)'
    <3>1. req[h].path \in Names \cup Issuers
      BY <1>0, <2>1, UploadPath
    <3> QED BY <2>1, <3>1 DEF Saving
  <2>3. temp[h] # Absent
    <3>1. temp[h] \in Files
      BY <1>0, <2>1 DEF IInv, StagedFits, Files
    <3> QED BY <3>1, AbsentAssumption
  <2>4. Carries(h, put[h].src)'
    BY <1>0, <2>1 DEF CallHeldFor, Carries
  <2> QED BY <1>0, <2>1, <2>2, <2>3, <2>4, CallKept
<1>5. CASE Rename(h)
  <2>1. /\ pc[h] = "rename" /\ pc'[h] \in {"record", "unlock"} /\ UNCHANGED <<req, out, put>>
        /\ temp'[h] = IF put[h].dst = IndexPath THEN temp[h] ELSE Absent
    BY <1>0, <1>5 DEF Rename, AfterReplace, TypeOK, regVars
  <2>2. ~ Saving(h)'
    BY <2>1 DEF Saving
  <2>3. Uploading(h) => temp'[h] = Absent
    BY <1>0, <2>1 DEF CallHeldFor, Saving
  <2> QED BY <1>0, <2>1, <2>2, <2>3, CallKept
<1>6. CASE Record(h) \/ ReleaseWriteLock(h)
  <2>1. /\ pc[h] \in {"record", "unlock"} /\ UNCHANGED <<req, out, temp>>
        /\ pc'[h] \in {"rename", "reply", "rlock"}
        /\ pc'[h] = "rename" => Saving(h)'
    BY <1>0, <1>6 DEF Record, Save, ReleaseWriteLock, Saving, TypeOK, diskVars, regVars
  <2>2. Uploading(h) => temp'[h] = Absent
    BY <1>0, <2>1 DEF CallHeldFor
  <2> QED BY <1>0, <2>1, <2>2, CallKept
<1>7. CASE Scan(h) \/ Rebuild(h) \/ ScanLosesTemp(h)
  <2>1. /\ pc[h] \in {"locked", "scan"} /\ pc'[h] \in {"scan", "rename", "unlock"}
        /\ UNCHANGED <<req, out>> /\ ~ Uploading(h)
    BY <1>0, <1>7 DEF Scan, Rebuild, ScanLosesTemp, Save, Fails, IInv, RequestFits, TypeOK,
       regVars
  <2> QED BY <1>0, <2>1, CallKept
<1>8. CASE TakeReadLock(h)
  <2>1. pc[h] = "rlock" /\ pc'[h] = "read" /\ UNCHANGED <<req, out>>
    BY <1>0, <1>8 DEF TakeReadLock, TypeOK, regVars
  <2> QED BY <1>0, <2>1, CallKept DEF Saving
<1>9. CASE Open(h) /\ pc'[h] = "stream"
  <2>1. pc[h] = "read" /\ req' = req
    BY <1>0, <1>9 DEF Open, Answer, TypeOK
  <2> QED BY <1>0, <1>9, <2>1 DEF CallHeldFor, Saving
<1>10. ASSUME NEW code, NEW payload, Answer(h, code, payload)
       PROVE  CallHeldFor(h)'
  BY <1>0, <1>10, CallAnswered
<1>11. CASE StageFails(h) \/ Stream(h) \/ Reject(h) \/ Reply(h) \/ Snapshot(h)
  BY <1>10, <1>11 DEF StageFails, Stream, Reject, Reply, Snapshot
<1>12. CASE Open(h) /\ pc'[h] # "stream"
  BY <1>0, <1>10, <1>12 DEF Open, TypeOK
<1> QED BY <1>1, <1>2, <1>3, <1>4, <1>5, <1>6, <1>7, <1>8, <1>9, <1>11, <1>12
     DEF MutexStep, ClientStep, HandlerStep

LEMMA CallHeldStep ==
    ASSUME Before, Next, faults' = 0, faults = 0
    PROVE  CallHeld'
<1> SUFFICES ASSUME NEW h \in Handlers PROVE CallHeldFor(h)'
  BY DEF CallHeld, CallHeldFor
<1>0. h \in Procs /\ CallHeldFor(h)
  BY DEF Before, FaultFree, CallHeld, CallHeldFor
<1>1. CASE Tick
  BY <1>0, <1>1 DEF Tick, CallHeldFor, Carries, Uploading, Saving, diskVars, regVars
<1>2. CASE Crash
  <2>1. pc'[h] = "idle" /\ req'[h] = Absent
    BY <1>0, <1>2 DEF Crash, Booting, Nothing
  <2> QED BY <2>1 DEF CallHeldFor
<1>3. ASSUME NEW p \in Procs,
             \/ MutexStep(p)
             \/ p \in Handlers /\ (Requests(p) \/ ClientStep(p) \/ HandlerStep(p))
      PROVE  CallHeldFor(h)'
  <2>1. CASE p = h
    BY <1>3, <2>1, OwnCall
  <2>2. CASE p # h
    <3>1. /\ pc'[h] = pc[h] /\ req'[h] = req[h] /\ put'[h] = put[h]
          /\ out'[h] = out[h] /\ temp'[h] = temp[h]
      BY <1>0, <1>3, <2>2, OthersUntouched DEF Before, StreamHeld
    <3> QED BY <1>0, <3>1 DEF CallHeldFor, Carries, Uploading, Saving
  <2> QED BY <2>1, <2>2
<1> QED BY <1>1, <1>2, <1>3, FaultlessStep DEF Before, FaultFree

-----------------------------------------------------------------------------
(* What was acknowledged.                                                  *)

LEMMA AckedDurableStep ==
    ASSUME Before, Next, faults' = 0, faults = 0
    PROVE  AckedDurable'
<1> USE DEF histVars
<1>1. \A n \in Names : StoredIndex[n] # Absent => StoredIndex'[n] # Absent /\ disk'[n] # Absent
  BY StoredIndexGrows, IndexFollowsStep DEF IndexFollows
<1>2. ASSUME NEW n \in acked', n \notin acked
      PROVE  n \in Names /\ StoredIndex[n] # Absent
  <2>1. PICK h \in Handlers : Reply(h) /\ req[h].kind = "publish" /\ req[h].path = n
    <3>1. ASSUME NEW h \in Handlers, ClientStep(h) \/ HandlerStep(h), ~ Reply(h)
          PROVE  acked' = acked
      BY <3>1 DEF ClientStep, HandlerStep, Stage, StageFails, Stream, Validate, Reject,
         Commit, Record, TakeReadLock, Snapshot, Open
    <3>2. ASSUME NEW h \in Handlers, Requests(h)
          PROVE  acked' = acked
      BY <3>2, Arrival DEF Before, StreamHeld
    <3>3. ASSUME NEW p \in Procs, MutexStep(p)
          PROVE  acked' = acked
      BY <3>3 DEF MutexStep, TakeWriteLock, Scan, Rebuild, ScanLosesTemp, Rename,
         ReleaseWriteLock
    <3>4. PICK h \in Handlers : Reply(h)
      BY <1>2, <3>1, <3>2, <3>3, FaultlessStep DEF Before, FaultFree, Tick, Crash
    <3> QED BY <1>2, <3>4 DEF Reply
  <2>2. pc[h] = "reply" /\ Publishing(h)
    BY <2>1 DEF Reply, Publishing, Before, IInv, RequestFits
  <2> QED BY <2>1, <2>2, UploadPath DEF Publishing, Before, FaultFree, EntryFits
<1>3. \A n \in acked : n \in Names /\ StoredIndex[n] # Absent
  BY DEF Before, FaultFree, AckedDurable, IInv, TypeOK
<1> QED BY <1>1, <1>2, <1>3 DEF AckedDurable

-----------------------------------------------------------------------------
(* The theorems.                                                           *)

LEMMA InitFaultFree == Init => FaultFree
<1> SUFFICES ASSUME Init PROVE FaultFree
  OBVIOUS
<1>1. BootsAlone
  BY DEF Init, BootsAlone, Booting
<1>2. NothingFails
  BY DEF Init, NothingFails, Booting, NoErrors, MovedAside
<1>3. \A h \in Handlers : pc[h] = "idle" /\ req[h] = Absent
  BY DEF Init, Booting, Nothing
<1>4. EntryFits /\ CallHeld
  BY <1>3 DEF EntryFits, CallHeld, Publishing
<1>5. ~ Loaded /\ \A p \in Procs : ~ Saving(p)
  BY DEF Init, Booting, Loaded, Saving
<1>6. StoredIndex = EmptyIndex
  BY DEF Init, StoredIndex, Paths
<1>7. IndexFollows
  BY <1>5, <1>6 DEF IndexFollows, EmptyIndex
<1>8. AckedDurable
  BY DEF Init, AckedDurable
<1> QED BY <1>1, <1>2, <1>4, <1>7, <1>8 DEF FaultFree

LEMMA NextFaultFree == IInv /\ StreamHeld /\ FaultFreeInv /\ [Next]_vars => FaultFreeInv'
<1> SUFFICES ASSUME IInv, StreamHeld, FaultFreeInv, [Next]_vars, faults' = 0
             PROVE  FaultFree'
  BY DEF FaultFreeInv
<1>1. CASE Next
  <2>1. faults = 0 /\ Before
    BY <1>1, FaultlessStep DEF FaultFreeInv, FaultFree, Before
  <2> QED BY <1>1, <2>1, BootsAloneStep, NothingFailsStep, EntryFitsStep, IndexFollowsStep,
             CallHeldStep, AckedDurableStep DEF FaultFree
<1>2. CASE UNCHANGED vars
  <2>1. FaultFree
    BY <1>2 DEF FaultFreeInv, vars, envVars
  <2>2. BootsAlone' /\ NothingFails'
    BY <1>2, <2>1 DEF FaultFree, BootsAlone, NothingFails, Serving, Uploading, vars, diskVars,
       memVars, regVars
  <2>3. EntryFits' /\ CallHeld' /\ AckedDurable'
    BY <1>2, <2>1 DEF FaultFree, EntryFits, CallHeld, AckedDurable, Publishing, Uploading,
       Saving, EntryOf, Carries, StoredIndex, vars, diskVars, memVars, regVars, histVars
  <2>4. IndexFollows'
    BY <1>2, <2>1 DEF FaultFree, IndexFollows, Loaded, Keeps, Listing, Contents, StoredIndex,
       Saving, vars, diskVars, memVars, regVars
  <2> QED BY <2>2, <2>3, <2>4 DEF FaultFree
<1> QED BY <1>1, <1>2

LEMMA StreamHeldInvariance == Spec => []StreamHeld
<1>1. Init => StreamHeld
  BY DEF Init, StreamHeld, Booting, Nothing
<1> QED BY <1>1, StreamHeldStep, Invariance, PTL DEF Spec

\* FaultFree holds up to the first system call that fails.
THEOREM FaultFreeInvariance == Spec => []FaultFreeInv
<1>1. Init => FaultFreeInv
  BY InitFaultFree DEF FaultFreeInv
<1> QED BY <1>1, NextFaultFree, Invariance, StreamHeldInvariance, PTL DEF Spec

\* As long as no system call has failed, through any crash: whenever nobody
\* holds the lock alone, the index in memory is index.json and lists exactly
\* the artifacts of the store, with their digests.
THEOREM IndexIsFaithful == Spec => [](faults = 0 => IndexFaithful)
<1>1. ASSUME IInv, FaultFree
      PROVE  IndexFaithful
  <2> SUFFICES ASSUME Serving, \A p \in Procs : ~ WriteLocked(mu, p)
               PROVE  /\ StoredIndex = Index
                      /\ \A n \in Names : Listing(Index)[n] = Contents(n)
    BY DEF IndexFaithful
  <2>1. \A p \in Procs : pc[p] \notin Critical
    BY <1>1 DEF IInv, Locking
  <2>2. Loaded /\ (\A p \in Procs : ~ Saving(p)) /\ \A h \in Handlers : pc[h] # "record"
    BY <2>1 DEF Serving, Loaded, Saving, Critical, Replacing
  <2> QED BY <1>1, <2>2 DEF FaultFree, IndexFollows
<1>2. IInv /\ FaultFreeInv => (faults = 0 => IndexFaithful)
  BY <1>1 DEF FaultFreeInv
<1> QED BY <1>2, Invariance, FaultFreeInvariance, PTL

\* As long as no system call has failed, through any crash: an artifact whose
\* upload was answered 201 is in the store and in index.json.
THEOREM AcknowledgedIsDurable == Spec => [](faults = 0 => AckedDurable)
<1>1. FaultFreeInv => (faults = 0 => AckedDurable)
  BY DEF FaultFreeInv, FaultFree
<1> QED BY <1>1, FaultFreeInvariance, PTL

\* When no system call ever fails, created_at in index.json is written once:
\* republications, reloads and restarts keep it.
THEOREM CreatedAtIsStable == Spec /\ [](faults = 0) => CreatedAtStable
<1> DEFINE Stable ==
        \A n \in Names :
            StoredIndex[n] # Absent =>
                /\ StoredIndex'[n] # Absent
                /\ StoredIndex'[n].created = StoredIndex[n].created
<1>1. ASSUME IInv, StreamHeld, FaultFreeInv, faults = 0, faults' = 0, [Next]_vars
      PROVE  [Stable]_vars
  BY <1>1, StoredIndexGrows DEF Before, FaultFreeInv
<1>2. IInv /\ StreamHeld /\ FaultFreeInv /\ faults = 0 /\ (faults = 0)' /\ [Next]_vars
      => [Stable]_vars
  BY <1>1
<1> QED BY <1>2, Invariance, StreamHeldInvariance, FaultFreeInvariance, PTL
     DEF Spec, CreatedAtStable
=============================================================================
