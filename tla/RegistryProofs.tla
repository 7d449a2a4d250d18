--------------------------- MODULE RegistryProofs ---------------------------
(***************************************************************************)
(* IInv of RegistryInvariants is an inductive invariant of the registry,   *)
(* for any number of handlers, names, issuers, faults and crashes.  With   *)
(* it: every variable keeps its type, nothing the registry has not         *)
(* validated is ever in its store, and staged uploads and downloads end as *)
(* they should.                                                            *)
(*                                                                         *)
(* One lemma per action; lemmas at the beginning collect what the actions  *)
(* that answer a request have in common.                                   *)
(***************************************************************************)
EXTENDS RegistryInvariants, TLAPS

USE ProcessesAssumption, PathsAssumption, BoundsAssumption
USE DEF Procs

-----------------------------------------------------------------------------
(* Types.                                                                  *)

\* A file that fits a path is a file, and the path a path.
LEMMA FitsAtType ==
    ASSUME NEW f, NEW x, FitsAt(f, x)
    PROVE  f \in Files /\ x \in Paths
BY DEF FitsAt, Files, Paths

\* The file that fits index.json is an index.
LEMMA FitsAtIndex ==
    ASSUME NEW f, FitsAt(f, IndexPath)
    PROVE  f \in IndexFile
BY DEF FitsAt

\* What an upload asks for.
LEMMA RequestType ==
    ASSUME NEW r \in Request
    PROVE  /\ r.kind = "publish" => r.path \in Names \cup {NoPath} /\ r.content \in Bodies
           /\ r.kind = "revput" =>
                 r.path \in Issuers \cup {NoPath} /\ r.content \in RevocationList
<1>1. CASE r \in [kind : {"publish"}, path : Names \cup {NoPath}, post : BOOLEAN,
                  bearer : Bearers, content : Bodies]
  BY <1>1
<1>2. CASE r \in [kind : {"revput"}, path : Issuers \cup {NoPath}, post : BOOLEAN,
                  bearer : Bearers, content : RevocationList]
  BY <1>2
<1>3. CASE r \in [kind : {"get"}, path : Names \cup {NoPath}]
  BY <1>3
<1>4. CASE r \in [kind : {"revget"}, path : Issuers \cup {NoPath}]
  BY <1>4
<1>5. CASE r \in [kind : {"list", "health"}, path : {NoPath}]
  BY <1>5
<1> QED BY <1>1, <1>2, <1>3, <1>4, <1>5 DEF Request

\* Moving on keeps the program counters typed.
LEMMA GotoType ==
    ASSUME TypeOK, NEW p \in Procs, NEW l \in Labels, Goto(p, l)
    PROVE  pc' \in [Procs -> Labels]
BY DEF TypeOK, Goto

\* So does answering, for every register it clears.
LEMMA AnswerType ==
    ASSUME TypeOK, NEW p \in Procs, NEW code \in Statuses, NEW payload,
           Answer(p, code, payload)
    PROVE  /\ pc' \in [Procs -> Labels]
           /\ req' \in [Procs -> Request \cup {Absent}]
           /\ cap' \in [Procs -> Capsule \cup {Absent}]
           /\ put' \in [Procs -> [src : Files \cup {Absent}, dst : Paths \cup {NoPath}]]
           /\ err' \in [Procs -> BOOLEAN]
           /\ status' \in [Procs -> Statuses]
BY DEF TypeOK, Answer, Goto, NoPut, Labels

\* A process that answers keeps the parts of IInv that speak of processes at
\* work, provided it was not in a critical step and stores nothing.
LEMMA AnswerFits ==
    ASSUME IInv, NEW p \in Handlers, NEW code, NEW payload,
           Answer(p, code, payload), pc[p] \notin Critical,
           temp' \in {temp, [temp EXCEPT ![p] = Absent]},
           UNCHANGED <<disk, backup>>
    PROVE  RequestFits' /\ StagedFits' /\ PutFits' /\ BackupFits' /\ DiskFits'
<1> USE DEF IInv, TypeOK, Answer, Goto
<1>1. \A q \in Procs : q # p =>
        /\ pc'[q] = pc[q] /\ req'[q] = req[q] /\ put'[q] = put[q]
        /\ temp'[q] = temp[q] /\ cap'[q] = cap[q]
  OBVIOUS
<1>2. pc'[p] = "idle"
  OBVIOUS
<1>3. RequestFits'
  BY <1>1, <1>2 DEF RequestFits, Uploading
<1>4. StagedFits'
  BY <1>1, <1>2 DEF StagedFits, Uploading
<1>5. PutFits'
  BY <1>1, <1>2 DEF PutFits, Uploading, Replacing
<1>6. BackupFits'
  BY <1>1, <1>2 DEF BackupFits, MovedAside, Critical, Replacing
<1>7. DiskFits'
  BY DEF DiskFits
<1> QED BY <1>3, <1>4, <1>5, <1>6, <1>7

-----------------------------------------------------------------------------
(* The lock.                                                               *)

LockType == [writers : Seq(Procs), readers : SUBSET Procs, parked : SUBSET Procs]

\* Asking for the lock, or leaving a read lock, takes nobody's write lock.
LEMMA LockKeepsOwner ==
    ASSUME NEW m \in LockType, NEW p \in Procs
    PROVE  /\ Lock(m, p) \in LockType
           /\ RLock(m, p) \in LockType
           /\ RUnlock(m, p) \in LockType
           /\ \A q \in Procs : WriteLocked(m, q) =>
                 /\ WriteLocked(Lock(m, p), q)
                 /\ WriteLocked(RLock(m, p), q)
                 /\ WriteLocked(RUnlock(m, p), q)
<1>1. Lock(m, p) \in LockType /\ \A q \in Procs : WriteLocked(m, q) => WriteLocked(Lock(m, p), q)
  <2>1. m.writers \in Seq(Procs)
    BY DEF LockType
  <2>2. Append(m.writers, p) \in Seq(Procs)
    BY <2>1
  <2>3. m.writers # <<>> =>
          Append(m.writers, p) # <<>> /\ Head(Append(m.writers, p)) = Head(m.writers)
    BY <2>1
  <2> QED BY <2>2, <2>3 DEF Lock, LockType, WriteLocked
<1>2. RLock(m, p) \in LockType /\ \A q \in Procs : WriteLocked(m, q) => WriteLocked(RLock(m, p), q)
  BY DEF RLock, LockType, WriteLocked
<1>3. RUnlock(m, p) \in LockType /\ \A q \in Procs : WriteLocked(m, q) => WriteLocked(RUnlock(m, p), q)
  BY DEF RUnlock, LockType, WriteLocked
<1> QED BY <1>1, <1>2, <1>3

\* One process owns the write lock; its Unlock leaves a lock.
LEMMA OwnerIsUnique ==
    ASSUME NEW m \in LockType, NEW p \in Procs, WriteLocked(m, p)
    PROVE  /\ Unlock(m) \in LockType
           /\ \A q \in Procs : WriteLocked(m, q) => q = p
BY DEF Unlock, LockType, WriteLocked

\* A step that leaves the lock alone, or asks for it, or leaves a read lock,
\* and takes no process but the owner into a critical step, keeps Locking.
LEMMA LockingKept ==
    ASSUME TypeOK, Locking, NEW p \in Procs,
           mu' \in {mu, Lock(mu, p), RLock(mu, p), RUnlock(mu, p)},
           \A q \in Procs : q # p => pc'[q] = pc[q],
           pc'[p] \in Critical => WriteLocked(mu, p)
    PROVE  Locking'
<1>1. mu \in LockType
  BY DEF TypeOK, LockType
<1>2. \A q \in Procs : WriteLocked(mu, q) => WriteLocked(mu', q)
  BY <1>1, LockKeepsOwner
<1> QED BY <1>2 DEF Locking

-----------------------------------------------------------------------------
(* The index.                                                              *)

LEMMA StoredIndexType ==
    ASSUME TypeOK, DiskFits
    PROVE  StoredIndex \in IndexValue
<1>1. disk[IndexPath] # Absent => disk[IndexPath] \in IndexFile
  BY FitsAtIndex DEF DiskFits, Paths
<1> QED BY <1>1 DEF StoredIndex, EmptyIndex, IndexValue, IndexFile

\* A reload makes an index of any index and the files that fit their paths.
LEMMA RebuiltType ==
    ASSUME TypeOK, DiskFits, NEW old \in IndexValue
    PROVE  Rebuilt(old) \in IndexValue
<1>1. ASSUME NEW n \in Names, disk[n] # Absent
      PROVE  disk[n] \in Artifact
  BY <1>1 DEF DiskFits, FitsAt, Paths
<1>2. ASSUME NEW n \in Names
      PROVE  old[n] = Absent \/ old[n].created \in Times
  BY DEF IndexValue, Capsule
<1> QED BY <1>1, <1>2 DEF Rebuilt, IndexValue, Capsule, Artifact

-----------------------------------------------------------------------------
(* One lemma per action.                                                   *)

\* The upload is staged.
LEMMA StageStep ==
    ASSUME NEW h \in Handlers, IInv, Stage(h)
    PROVE  IInv'
<1> USE DEF IInv, diskVars, memVars, regVars, histVars, envVars
<1>1. TypeOK'
  <2>1. pc' \in [Procs -> Labels]
    BY GotoType DEF Stage, Labels
  <2>2. temp' \in [Procs -> Artifact \cup RevocationList \cup {Absent}]
    BY RequestType DEF TypeOK, Stage, RequestFits, Uploading, Artifact
  <2> QED BY <2>1, <2>2 DEF TypeOK, Stage
<1>2. Locking'
  BY DEF TypeOK, Locking, Critical, Replacing, Stage, Goto, Labels
<1>3. RequestFits'
  BY DEF TypeOK, RequestFits, Uploading, Stage, Goto, Labels
<1>4. StagedFits'
  <2>1. ASSUME NEW q \in Handlers, pc'[q] \in {"validate", "lock", "locked"}, Uploading(q)'
        PROVE  /\ temp'[q] \in IF req'[q].kind = "publish" THEN Artifact ELSE RevocationList
               /\ pc'[q] # "validate" => FitsAt(temp'[q], req'[q].path)
               /\ (pc'[q] # "validate" /\ req'[q].kind = "publish") => cap'[q] \in Capsule
    <3>1. CASE q = h
      BY <2>1, <3>1, RequestType DEF TypeOK, Stage, Goto, RequestFits, Uploading, Artifact
    <3>2. CASE q # h
      BY <2>1, <3>2 DEF TypeOK, Stage, Goto, StagedFits, Uploading
    <3> QED BY <3>1, <3>2
  <2> QED BY <2>1 DEF StagedFits
<1>5. PutFits'
  BY DEF TypeOK, PutFits, Replacing, Uploading, Stage, Goto, Labels
<1>6. BackupFits'
  BY DEF TypeOK, BackupFits, MovedAside, PutFits, Replacing, Locking, Critical, WriteLocked, Stage, Goto, Labels
<1>7. DiskFits'
  BY DEF TypeOK, DiskFits, PutFits, BackupFits, Replacing, MovedAside, Stage, Goto, Labels
<1> QED BY <1>1, <1>2, <1>3, <1>4, <1>5, <1>6, <1>7

\* An upload that fails as it is staged.
LEMMA StageFailsStep ==
    ASSUME NEW h \in Handlers, IInv, StageFails(h)
    PROVE  IInv'
<1> USE DEF IInv, diskVars, memVars, regVars, histVars, envVars
<1>1. PICK code \in Statuses : \E payload : Answer(h, code, payload)
  BY DEF StageFails, Statuses
<1>2. PICK payload : Answer(h, code, payload)
  BY <1>1
<1>3. TypeOK'
  <2>1. temp' \in [Procs -> Artifact \cup RevocationList \cup {Absent}]
    BY DEF TypeOK, StageFails
  <2>2. mu' \in [writers : Seq(Procs), readers : SUBSET Procs, parked : SUBSET Procs]
    BY LockKeepsOwner DEF TypeOK, LockType, StageFails
  <2> QED BY <1>2, <2>1, <2>2, AnswerType DEF TypeOK, StageFails
<1>4. Locking'
  BY <1>2, LockingKept DEF StageFails, Answer, Goto, TypeOK, Critical, Replacing
<1>5. RequestFits' /\ StagedFits' /\ PutFits' /\ BackupFits' /\ DiskFits'
  BY <1>2, AnswerFits DEF StageFails, Critical, Replacing
<1> QED BY <1>3, <1>4, <1>5

\* The upload is accepted: it fits the path of its request.
LEMMA ValidateStep ==
    ASSUME NEW h \in Handlers, IInv, Validate(h)
    PROVE  IInv'
<1> USE DEF IInv, diskVars, memVars, regVars, histVars, envVars
<1>1. TypeOK'
  <2>1. pc' \in [Procs -> Labels]
    BY GotoType DEF Validate, Labels
  <2>2. cap' \in [Procs -> Capsule \cup {Absent}]
    BY DEF TypeOK, Validate, StagedFits, RequestFits, Uploading, Artifact, Capsule
  <2> QED BY <2>1, <2>2 DEF TypeOK, Validate
<1>2. Locking'
  BY DEF TypeOK, Locking, Critical, Replacing, Validate, Goto, Labels
<1>3. RequestFits'
  BY DEF TypeOK, RequestFits, Uploading, Validate, Goto, Labels
<1>4. StagedFits'
  <2>1. req[h] \in Request /\ req[h].kind \in {"publish", "revput"} /\ req[h].path # NoPath
    BY DEF Validate, RequestFits, Uploading
  <2>2. FitsAt(temp[h], req[h].path)
    BY <2>1, RequestType DEF Validate, Acceptable, ValidArchive, ValidList, StagedFits, Uploading, FitsAt
  <2>3. req[h].kind = "publish" => cap'[h] \in Capsule
    BY DEF TypeOK, Validate, StagedFits, RequestFits, Uploading, Artifact, Capsule
  <2> QED BY <2>2, <2>3 DEF TypeOK, Validate, Goto, StagedFits, Uploading
<1>5. PutFits'
  BY DEF TypeOK, PutFits, Replacing, Uploading, Validate, Goto, Labels
<1>6. BackupFits'
  BY DEF TypeOK, BackupFits, MovedAside, PutFits, Replacing, Locking, Critical, WriteLocked, Validate, Goto, Labels
<1>7. DiskFits'
  BY DEF TypeOK, DiskFits, PutFits, BackupFits, Replacing, MovedAside, Validate, Goto, Labels
<1> QED BY <1>1, <1>2, <1>3, <1>4, <1>5, <1>6, <1>7

\* The upload is refused.
LEMMA RejectStep ==
    ASSUME NEW h \in Handlers, IInv, Reject(h)
    PROVE  IInv'
<1> USE DEF IInv, diskVars, memVars, regVars, histVars, envVars
<1>1. PICK code \in Statuses : \E payload : Answer(h, code, payload)
  BY DEF Reject, Statuses
<1>2. PICK payload : Answer(h, code, payload)
  BY <1>1
<1>3. TypeOK'
  <2>1. temp' \in [Procs -> Artifact \cup RevocationList \cup {Absent}]
    BY DEF TypeOK, Reject
  <2>2. mu' \in [writers : Seq(Procs), readers : SUBSET Procs, parked : SUBSET Procs]
    BY LockKeepsOwner DEF TypeOK, LockType, Reject
  <2> QED BY <1>2, <2>1, <2>2, AnswerType DEF TypeOK, Reject
<1>4. Locking'
  BY <1>2, LockingKept DEF Reject, Answer, Goto, TypeOK, Critical, Replacing
<1>5. RequestFits' /\ StagedFits' /\ PutFits' /\ BackupFits' /\ DiskFits'
  BY <1>2, AnswerFits DEF Reject, Critical, Replacing
<1> QED BY <1>3, <1>4, <1>5

\* The digest of the upload fails.
LEMMA DigestFailsStep ==
    ASSUME NEW h \in Handlers, IInv, DigestFails(h)
    PROVE  IInv'
<1> USE DEF IInv, diskVars, memVars, regVars, histVars, envVars
<1>1. PICK code \in Statuses : \E payload : Answer(h, code, payload)
  BY DEF DigestFails, Statuses
<1>2. PICK payload : Answer(h, code, payload)
  BY <1>1
<1>3. TypeOK'
  <2>1. temp' \in [Procs -> Artifact \cup RevocationList \cup {Absent}]
    BY DEF TypeOK, DigestFails
  <2>2. mu' \in [writers : Seq(Procs), readers : SUBSET Procs, parked : SUBSET Procs]
    BY LockKeepsOwner DEF TypeOK, LockType, DigestFails
  <2> QED BY <1>2, <2>1, <2>2, AnswerType DEF TypeOK, DigestFails, Fault
<1>4. Locking'
  BY <1>2, LockingKept DEF DigestFails, Answer, Goto, TypeOK, Critical, Replacing
<1>5. RequestFits' /\ StagedFits' /\ PutFits' /\ BackupFits' /\ DiskFits'
  BY <1>2, AnswerFits DEF DigestFails, Critical, Replacing
<1> QED BY <1>3, <1>4, <1>5

\* A process calls Lock.
LEMMA TakeWriteLockStep ==
    ASSUME NEW p \in Procs, IInv, TakeWriteLock(p)
    PROVE  IInv'
<1> USE DEF IInv, diskVars, memVars, regVars, histVars, envVars
<1>1. TypeOK'
  <2>1. pc' \in [Procs -> Labels]
    BY GotoType DEF TakeWriteLock, Labels
  <2>2. mu' \in [writers : Seq(Procs), readers : SUBSET Procs, parked : SUBSET Procs]
    BY LockKeepsOwner DEF TypeOK, LockType, TakeWriteLock
  <2> QED BY <2>1, <2>2 DEF TypeOK, TakeWriteLock
<1>2. Locking'
  BY LockingKept DEF TakeWriteLock, Goto, TypeOK, Critical, Replacing
<1>3. RequestFits'
  BY DEF TypeOK, RequestFits, Uploading, TakeWriteLock, Goto, Labels
<1>4. StagedFits'
  BY DEF TypeOK, StagedFits, RequestFits, Uploading, TakeWriteLock, Goto, Labels
<1>5. PutFits'
  BY DEF TypeOK, PutFits, Replacing, Uploading, TakeWriteLock, Goto, Labels
<1>6. BackupFits'
  BY DEF TypeOK, BackupFits, MovedAside, PutFits, Replacing, Locking, Critical, WriteLocked, TakeWriteLock, Goto, Labels
<1>7. DiskFits'
  BY DEF TypeOK, DiskFits, PutFits, BackupFits, Replacing, MovedAside, TakeWriteLock, Goto, Labels
<1> QED BY <1>1, <1>2, <1>3, <1>4, <1>5, <1>6, <1>7

\* The accepted upload goes to replaceFile.
LEMMA CommitStep ==
    ASSUME NEW h \in Handlers, IInv, Commit(h)
    PROVE  IInv'
<1> USE DEF IInv, diskVars, memVars, regVars, histVars, envVars
<1>1. TypeOK'
  <2>1. pc' \in [Procs -> Labels]
    BY GotoType DEF Commit, Labels
  <2>2. cap' \in [Procs -> Capsule \cup {Absent}]
    <3>1. req[h].kind = "publish" => cap[h] \in Capsule /\ req[h].path \in Names
      BY RequestType DEF Commit, StagedFits, RequestFits, Uploading
    <3>2. CASE req[h].kind = "publish" /\ Index[req[h].path] # Absent
      <4>1. Index[req[h].path] \in Capsule
        BY <3>1, <3>2 DEF TypeOK, IndexValue
      <4>2. [cap[h] EXCEPT !.created = Index[req[h].path].created] \in Capsule
        BY <3>1, <3>2, <4>1 DEF Capsule
      <4> QED BY <3>2, <4>2 DEF TypeOK, Commit, KeptCreatedAt
    <3> QED BY <3>2 DEF TypeOK, Commit, KeptCreatedAt
  <2>3. put' \in [Procs -> [src : Files \cup {Absent}, dst : Paths \cup {NoPath}]]
    BY FitsAtType DEF TypeOK, Commit, StagedFits
  <2> QED BY <2>1, <2>2, <2>3 DEF TypeOK, Commit
<1>2. Locking'
  BY DEF TypeOK, Locking, Critical, Replacing, Commit, Goto, Labels
<1>3. RequestFits'
  BY DEF TypeOK, RequestFits, Uploading, Commit, Goto, Labels
<1>4. StagedFits'
  <2>1. ASSUME NEW q \in Procs, q # h
        PROVE  cap'[q] = cap[q] /\ pc'[q] = pc[q] /\ req'[q] = req[q] /\ temp'[q] = temp[q]
    BY <2>1 DEF TypeOK, Commit, KeptCreatedAt, Goto
  <2>2. pc'[h] = "rename"
    BY DEF TypeOK, Commit, Goto
  <2> QED BY <2>1, <2>2 DEF StagedFits, Uploading
<1>5. PutFits'
  <2>1. FitsAt(temp[h], req[h].path)
    BY DEF Commit, StagedFits
  <2> QED BY <2>1 DEF TypeOK, PutFits, Replacing, Uploading, Commit, Goto
<1>6. BackupFits'
  BY DEF TypeOK, BackupFits, MovedAside, PutFits, Replacing, Locking, Critical, WriteLocked, Commit, Goto, Labels
<1>7. DiskFits'
  BY DEF TypeOK, DiskFits, PutFits, BackupFits, Replacing, MovedAside, Commit, Goto, Labels
<1> QED BY <1>1, <1>2, <1>3, <1>4, <1>5, <1>6, <1>7

\* os.Rename moves the new file to its destination.
LEMMA RenameStep ==
    ASSUME NEW p \in Procs, IInv, Rename(p)
    PROVE  IInv'
<1> USE DEF IInv, diskVars, memVars, regVars, histVars, envVars
<1>1. TypeOK'
  <2>1. pc' \in [Procs -> Labels]
    BY GotoType DEF Rename, AfterReplace, Labels
  <2>2. disk' \in [Paths -> Files \cup {Absent}]
    BY FitsAtType DEF TypeOK, Rename, PutFits, Replacing
  <2>3. temp' \in [Procs -> Artifact \cup RevocationList \cup {Absent}]
    BY DEF TypeOK, Rename
  <2>4. latest' \in [Paths -> Files \cup {Absent}]
    BY FitsAtType DEF TypeOK, Rename, PutFits, Replacing
  <2> QED BY <2>1, <2>2, <2>3, <2>4 DEF TypeOK, Rename
<1>2. Locking'
  BY DEF TypeOK, Locking, Critical, Replacing, Rename, Goto, AfterReplace
<1>3. RequestFits'
  <2>1. AfterReplace(p) = "record" => Uploading(p)
    BY DEF Rename, AfterReplace, PutFits, Replacing
  <2> QED BY <2>1 DEF TypeOK, RequestFits, Uploading, Rename, Goto, AfterReplace
<1>4. StagedFits'
  BY DEF TypeOK, StagedFits, RequestFits, Uploading, Rename, Goto, AfterReplace
<1>5. PutFits'
  BY DEF TypeOK, PutFits, Replacing, Uploading, Rename, Goto, AfterReplace
<1>6. BackupFits'
  BY DEF TypeOK, BackupFits, MovedAside, PutFits, Replacing, Locking, Critical, WriteLocked, Rename, Goto, AfterReplace
<1>7. DiskFits'
  BY DEF TypeOK, DiskFits, PutFits, BackupFits, Replacing, MovedAside, Rename, Goto, AfterReplace
<1> QED BY <1>1, <1>2, <1>3, <1>4, <1>5, <1>6, <1>7

\* The old file is moved aside.
LEMMA MoveAsideStep ==
    ASSUME NEW p \in Procs, IInv, MoveAside(p)
    PROVE  IInv'
<1> USE DEF IInv, diskVars, memVars, regVars, histVars, envVars
<1>1. TypeOK'
  <2>1. pc' \in [Procs -> Labels]
    BY GotoType DEF MoveAside, Labels
  <2>2. disk' \in [Paths -> Files \cup {Absent}]
    BY DEF TypeOK, MoveAside
  <2>3. backup' \in [Procs -> Files \cup {Absent}]
    BY FitsAtType DEF TypeOK, MoveAside, PutFits, Replacing
  <2> QED BY <2>1, <2>2, <2>3 DEF TypeOK, MoveAside
<1>2. Locking'
  BY DEF TypeOK, Locking, Critical, Replacing, MoveAside, Goto
<1>3. RequestFits'
  BY DEF TypeOK, RequestFits, Uploading, MoveAside, Goto
<1>4. StagedFits'
  BY DEF TypeOK, StagedFits, RequestFits, Uploading, MoveAside, Goto
<1>5. PutFits'
  BY DEF TypeOK, PutFits, Replacing, Uploading, MoveAside, Goto
<1>6. BackupFits'
  <2>1. put[p].dst \in Paths /\ disk[put[p].dst] # Absent
    BY FitsAtType DEF MoveAside, PutFits, Replacing, BackupFits
  <2>2. FitsAt(disk[put[p].dst], put[p].dst)
    BY <2>1 DEF DiskFits
  <2>3. ASSUME NEW q \in Procs, q # p
        PROVE  pc[q] \notin Critical
    BY <2>3, OwnerIsUnique DEF TypeOK, LockType, Locking, MoveAside, Critical, Replacing
  <2> QED BY <2>1, <2>2, <2>3 DEF TypeOK, BackupFits, MovedAside, MoveAside, Goto, Critical, Replacing
<1>7. DiskFits'
  BY DEF TypeOK, DiskFits, PutFits, BackupFits, Replacing, MovedAside, MoveAside, Goto
<1> QED BY <1>1, <1>2, <1>3, <1>4, <1>5, <1>6, <1>7

\* The new file takes the place of the one moved aside.
LEMMA SwapStep ==
    ASSUME NEW p \in Procs, IInv, Swap(p)
    PROVE  IInv'
<1> USE DEF IInv, diskVars, memVars, regVars, histVars, envVars
<1>1. TypeOK'
  <2>1. pc' \in [Procs -> Labels]
    BY GotoType DEF Swap, Labels
  <2>2. disk' \in [Paths -> Files \cup {Absent}]
    BY FitsAtType DEF TypeOK, Swap, PutFits, Replacing
  <2>3. temp' \in [Procs -> Artifact \cup RevocationList \cup {Absent}]
    BY DEF TypeOK, Swap
  <2>4. latest' \in [Paths -> Files \cup {Absent}]
    BY FitsAtType DEF TypeOK, Swap, PutFits, Replacing
  <2> QED BY <2>1, <2>2, <2>3, <2>4 DEF TypeOK, Swap
<1>2. Locking'
  BY DEF TypeOK, Locking, Critical, Replacing, Swap, Goto
<1>3. RequestFits'
  BY DEF TypeOK, RequestFits, Uploading, Swap, Goto
<1>4. StagedFits'
  BY DEF TypeOK, StagedFits, RequestFits, Uploading, Swap, Goto
<1>5. PutFits'
  BY DEF TypeOK, PutFits, Replacing, Uploading, Swap, Goto
<1>6. BackupFits'
  <2>1. put[p].dst \in Paths /\ put[p].src # Absent
    BY FitsAtType, AbsentAssumption DEF Swap, PutFits, Replacing
  <2>2. ASSUME NEW q \in Procs, q # p
        PROVE  pc[q] \notin Critical
    BY <2>2, OwnerIsUnique DEF TypeOK, LockType, Locking, Swap, Critical, Replacing
  <2> QED BY <2>1, <2>2 DEF TypeOK, BackupFits, MovedAside, Swap, Goto, Critical, Replacing
<1>7. DiskFits'
  BY DEF TypeOK, DiskFits, PutFits, BackupFits, Replacing, MovedAside, Swap, Goto
<1> QED BY <1>1, <1>2, <1>3, <1>4, <1>5, <1>6, <1>7

\* The file moved aside is removed.
LEMMA DiscardStep ==
    ASSUME NEW p \in Procs, IInv, Discard(p)
    PROVE  IInv'
<1> USE DEF IInv, diskVars, memVars, regVars, histVars, envVars
<1>1. TypeOK'
  <2>1. pc' \in [Procs -> Labels]
    BY GotoType DEF Discard, AfterReplace, Labels
  <2>2. backup' \in [Procs -> Files \cup {Absent}]
    BY DEF TypeOK, Discard
  <2> QED BY <2>1, <2>2 DEF TypeOK, Discard
<1>2. Locking'
  BY DEF TypeOK, Locking, Critical, Replacing, Discard, Goto, AfterReplace
<1>3. RequestFits'
  <2>1. AfterReplace(p) = "record" => Uploading(p)
    BY DEF Discard, AfterReplace, PutFits, Replacing
  <2> QED BY <2>1 DEF TypeOK, RequestFits, Uploading, Discard, Goto, AfterReplace
<1>4. StagedFits'
  BY DEF TypeOK, StagedFits, RequestFits, Uploading, Discard, Goto, AfterReplace
<1>5. PutFits'
  BY DEF TypeOK, PutFits, Replacing, Uploading, Discard, Goto, AfterReplace
<1>6. BackupFits'
  BY DEF TypeOK, BackupFits, MovedAside, PutFits, Replacing, Locking, Critical, WriteLocked, Discard, Goto, AfterReplace
<1>7. DiskFits'
  BY DEF TypeOK, DiskFits, PutFits, BackupFits, Replacing, MovedAside, Discard, Goto, AfterReplace
<1> QED BY <1>1, <1>2, <1>3, <1>4, <1>5, <1>6, <1>7

\* The file moved aside is put back.
LEMMA RestoreStep ==
    ASSUME NEW p \in Procs, IInv, Restore(p)
    PROVE  IInv'
<1> USE DEF IInv, diskVars, memVars, regVars, histVars, envVars
<1>1. TypeOK'
  <2>1. pc' \in [Procs -> Labels]
    BY GotoType DEF Restore, Labels
  <2>2. disk' \in [Paths -> Files \cup {Absent}]
    BY FitsAtType DEF TypeOK, Restore, BackupFits, MovedAside
  <2>3. backup' \in [Procs -> Files \cup {Absent}]
    BY DEF TypeOK, Restore
  <2>4. err' \in [Procs -> BOOLEAN]
    BY DEF TypeOK, Restore
  <2> QED BY <2>1, <2>2, <2>3, <2>4 DEF TypeOK, Restore
<1>2. Locking'
  BY DEF TypeOK, Locking, Critical, Replacing, Restore, Goto
<1>3. RequestFits'
  BY DEF TypeOK, RequestFits, Uploading, Restore, Goto
<1>4. StagedFits'
  BY DEF TypeOK, StagedFits, RequestFits, Uploading, Restore, Goto
<1>5. PutFits'
  BY DEF TypeOK, PutFits, Replacing, Uploading, Restore, Goto
<1>6. BackupFits'
  BY DEF TypeOK, BackupFits, MovedAside, PutFits, Replacing, Locking, Critical, WriteLocked, Restore, Goto
<1>7. DiskFits'
  BY DEF TypeOK, DiskFits, PutFits, BackupFits, Replacing, MovedAside, Restore, Goto
<1> QED BY <1>1, <1>2, <1>3, <1>4, <1>5, <1>6, <1>7

\* The entry of the new file goes into the index.
LEMMA RecordStep ==
    ASSUME NEW h \in Handlers, IInv, Record(h)
    PROVE  IInv'
<1> USE DEF IInv, diskVars, memVars, regVars, histVars, envVars
<1>0. [Index EXCEPT ![req[h].path] = cap[h]] \in IndexValue
  BY DEF TypeOK, IndexValue
<1>1. TypeOK'
  <2>1. pc' \in [Procs -> Labels]
    BY GotoType DEF Record, Save, Labels
  <2>2. put' \in [Procs -> [src : Files \cup {Absent}, dst : Paths \cup {NoPath}]]
    BY <1>0 DEF TypeOK, Record, Save, Files, IndexFile, Paths
  <2> QED BY <1>0, <2>1, <2>2 DEF TypeOK, Record, Save
<1>2. Locking'
  BY DEF TypeOK, Locking, Critical, Replacing, Record, Goto, Save
<1>3. RequestFits'
  BY DEF TypeOK, RequestFits, Uploading, Record, Goto, Save
<1>4. StagedFits'
  BY DEF TypeOK, StagedFits, RequestFits, Uploading, Record, Goto, Save
<1>5. PutFits'
  <2>1. FitsAt([index |-> [Index EXCEPT ![req[h].path] = cap[h]]], IndexPath)
    BY <1>0 DEF FitsAt, IndexFile
  <2> QED BY <2>1 DEF TypeOK, PutFits, Replacing, Uploading, Record, Goto, Save
<1>6. BackupFits'
  BY DEF TypeOK, BackupFits, MovedAside, PutFits, Replacing, Locking, Critical, WriteLocked, Record, Goto, Save
<1>7. DiskFits'
  BY DEF TypeOK, DiskFits, PutFits, BackupFits, Replacing, MovedAside, Record, Goto, Save
<1> QED BY <1>1, <1>2, <1>3, <1>4, <1>5, <1>6, <1>7

\* The index is rebuilt from index.json and the files.
LEMMA RebuildStep ==
    ASSUME NEW p \in Procs, IInv, Rebuild(p)
    PROVE  IInv'
<1> USE DEF IInv, diskVars, memVars, regVars, histVars, envVars
<1>0. Rebuilt(StoredIndex) \in IndexValue
  BY StoredIndexType, RebuiltType DEF IInv
<1>1. TypeOK'
  <2>1. pc' \in [Procs -> Labels]
    BY GotoType DEF Rebuild, Save, Labels
  <2>2. put' \in [Procs -> [src : Files \cup {Absent}, dst : Paths \cup {NoPath}]]
    BY <1>0 DEF TypeOK, Rebuild, Save, Files, IndexFile, Paths
  <2> QED BY <1>0, <2>1, <2>2 DEF TypeOK, Rebuild, Save
<1>2. Locking'
  BY DEF TypeOK, Locking, Critical, Replacing, Rebuild, Goto, Save
<1>3. RequestFits'
  BY DEF TypeOK, RequestFits, Uploading, Rebuild, Goto, Save
<1>4. StagedFits'
  BY DEF TypeOK, StagedFits, RequestFits, Uploading, Rebuild, Goto, Save
<1>5. PutFits'
  <2>1. FitsAt([index |-> Rebuilt(StoredIndex)], IndexPath)
    BY <1>0 DEF FitsAt, IndexFile
  <2> QED BY <2>1 DEF TypeOK, PutFits, Replacing, Uploading, Rebuild, Goto, Save
<1>6. BackupFits'
  BY DEF TypeOK, BackupFits, MovedAside, PutFits, Replacing, Locking, Critical, WriteLocked, Rebuild, Goto, Save
<1>7. DiskFits'
  BY DEF TypeOK, DiskFits, PutFits, BackupFits, Replacing, MovedAside, Rebuild, Goto, Save
<1> QED BY <1>1, <1>2, <1>3, <1>4, <1>5, <1>6, <1>7

\* index.json cannot be read.
LEMMA IndexUnreadableStep ==
    ASSUME NEW p \in Procs, IInv, IndexUnreadable(p)
    PROVE  IInv'
<1> USE DEF IInv, diskVars, memVars, regVars, histVars, envVars
<1>0. Rebuilt(EmptyIndex) \in IndexValue
  BY RebuiltType DEF IndexValue, EmptyIndex
<1>1. TypeOK'
  <2>1. pc' \in [Procs -> Labels]
    BY GotoType DEF IndexUnreadable, Save, Labels
  <2>2. put' \in [Procs -> [src : Files \cup {Absent}, dst : Paths \cup {NoPath}]]
    BY <1>0 DEF TypeOK, IndexUnreadable, Save, Files, IndexFile, Paths
  <2> QED BY <1>0, <2>1, <2>2 DEF TypeOK, IndexUnreadable, Save, Fault
<1>2. Locking'
  BY DEF TypeOK, Locking, Critical, Replacing, IndexUnreadable, Goto, Save, Fault
<1>3. RequestFits'
  BY DEF TypeOK, RequestFits, Uploading, IndexUnreadable, Goto, Save, Fault
<1>4. StagedFits'
  BY DEF TypeOK, StagedFits, RequestFits, Uploading, IndexUnreadable, Goto, Save, Fault
<1>5. PutFits'
  <2>1. FitsAt([index |-> Rebuilt(EmptyIndex)], IndexPath)
    BY <1>0 DEF FitsAt, IndexFile
  <2> QED BY <2>1 DEF TypeOK, PutFits, Replacing, Uploading, IndexUnreadable, Goto, Save
<1>6. BackupFits'
  BY DEF TypeOK, BackupFits, MovedAside, PutFits, Replacing, Locking, Critical, WriteLocked, IndexUnreadable, Goto, Save, Fault
<1>7. DiskFits'
  BY DEF TypeOK, DiskFits, PutFits, BackupFits, Replacing, MovedAside, IndexUnreadable, Goto, Save, Fault
<1> QED BY <1>1, <1>2, <1>3, <1>4, <1>5, <1>6, <1>7

\* The store is listed.
LEMMA ScanStep ==
    ASSUME NEW p \in Procs, IInv, Scan(p)
    PROVE  IInv'
<1> USE DEF IInv, diskVars, memVars, regVars, histVars, envVars
<1>1. TypeOK'
  <2>1. pc' \in [Procs -> Labels]
    BY GotoType DEF Scan, Labels
  <2>2. listed' \subseteq Procs
    BY DEF Scan
  <2> QED BY <2>1, <2>2 DEF TypeOK, Scan
<1>2. Locking'
  BY DEF TypeOK, Locking, Critical, Replacing, Scan, Goto
<1>3. RequestFits'
  BY DEF TypeOK, RequestFits, Uploading, Scan, Goto
<1>4. StagedFits'
  BY DEF TypeOK, StagedFits, RequestFits, Uploading, Scan, Goto
<1>5. PutFits'
  BY DEF TypeOK, PutFits, Replacing, Uploading, Scan, Goto
<1>6. BackupFits'
  BY DEF TypeOK, BackupFits, MovedAside, PutFits, Replacing, Locking, Critical, WriteLocked, Scan, Goto
<1>7. DiskFits'
  BY DEF TypeOK, DiskFits, PutFits, BackupFits, Replacing, MovedAside, Scan, Goto
<1> QED BY <1>1, <1>2, <1>3, <1>4, <1>5, <1>6, <1>7

\* A temporary vanishes during the scan.
LEMMA ScanLosesTempStep ==
    ASSUME NEW p \in Procs, IInv, ScanLosesTemp(p)
    PROVE  IInv'
<1> USE DEF IInv, diskVars, memVars, regVars, histVars, envVars
<1>1. TypeOK'
  <2>1. pc' \in [Procs -> Labels]
    BY GotoType DEF ScanLosesTemp, Fails, Labels
  <2>2. err' \in [Procs -> BOOLEAN]
    BY DEF TypeOK, ScanLosesTemp, Fails
  <2> QED BY <2>1, <2>2 DEF TypeOK, ScanLosesTemp, Fails
<1>2. Locking'
  BY DEF TypeOK, Locking, Critical, Replacing, ScanLosesTemp, Goto, Fails
<1>3. RequestFits'
  BY DEF TypeOK, RequestFits, Uploading, ScanLosesTemp, Goto, Fails
<1>4. StagedFits'
  BY DEF TypeOK, StagedFits, RequestFits, Uploading, ScanLosesTemp, Goto, Fails
<1>5. PutFits'
  BY DEF TypeOK, PutFits, Replacing, Uploading, ScanLosesTemp, Goto, Fails
<1>6. BackupFits'
  BY DEF TypeOK, BackupFits, MovedAside, PutFits, Replacing, Locking, Critical, WriteLocked, ScanLosesTemp, Goto, Fails
<1>7. DiskFits'
  BY DEF TypeOK, DiskFits, PutFits, BackupFits, Replacing, MovedAside, ScanLosesTemp, Goto, Fails
<1> QED BY <1>1, <1>2, <1>3, <1>4, <1>5, <1>6, <1>7

\* replaceFile cannot start.
LEMMA PrepareFailsStep ==
    ASSUME NEW p \in Procs, IInv, PrepareFails(p)
    PROVE  IInv'
<1> USE DEF IInv, diskVars, memVars, regVars, histVars, envVars
<1>1. TypeOK'
  <2>1. pc' \in [Procs -> Labels]
    BY GotoType DEF PrepareFails, Fails, Labels
  <2>2. err' \in [Procs -> BOOLEAN]
    BY DEF TypeOK, PrepareFails, Fails
  <2> QED BY <2>1, <2>2 DEF TypeOK, PrepareFails, Fails, Fault
<1>2. Locking'
  BY DEF TypeOK, Locking, Critical, Replacing, PrepareFails, Goto, Fails, Fault
<1>3. RequestFits'
  BY DEF TypeOK, RequestFits, Uploading, PrepareFails, Goto, Fails, Fault
<1>4. StagedFits'
  BY DEF TypeOK, StagedFits, RequestFits, Uploading, PrepareFails, Goto, Fails, Fault
<1>5. PutFits'
  BY DEF TypeOK, PutFits, Replacing, Uploading, PrepareFails, Goto, Fails, Fault
<1>6. BackupFits'
  BY DEF TypeOK, BackupFits, MovedAside, PutFits, Replacing, Locking, Critical, WriteLocked, PrepareFails, Goto, Fails, Fault
<1>7. DiskFits'
  BY DEF TypeOK, DiskFits, PutFits, BackupFits, Replacing, MovedAside, PrepareFails, Goto, Fails, Fault
<1> QED BY <1>1, <1>2, <1>3, <1>4, <1>5, <1>6, <1>7

\* The old file cannot be moved aside.
LEMMA MoveAsideFailsStep ==
    ASSUME NEW p \in Procs, IInv, MoveAsideFails(p)
    PROVE  IInv'
<1> USE DEF IInv, diskVars, memVars, regVars, histVars, envVars
<1>1. TypeOK'
  <2>1. pc' \in [Procs -> Labels]
    BY GotoType DEF MoveAsideFails, Fails, Labels
  <2>2. err' \in [Procs -> BOOLEAN]
    BY DEF TypeOK, MoveAsideFails, Fails
  <2> QED BY <2>1, <2>2 DEF TypeOK, MoveAsideFails, Fails, Fault
<1>2. Locking'
  BY DEF TypeOK, Locking, Critical, Replacing, MoveAsideFails, Goto, Fails, Fault
<1>3. RequestFits'
  BY DEF TypeOK, RequestFits, Uploading, MoveAsideFails, Goto, Fails, Fault
<1>4. StagedFits'
  BY DEF TypeOK, StagedFits, RequestFits, Uploading, MoveAsideFails, Goto, Fails, Fault
<1>5. PutFits'
  BY DEF TypeOK, PutFits, Replacing, Uploading, MoveAsideFails, Goto, Fails, Fault
<1>6. BackupFits'
  BY DEF TypeOK, BackupFits, MovedAside, PutFits, Replacing, Locking, Critical, WriteLocked, MoveAsideFails, Goto, Fails, Fault
<1>7. DiskFits'
  BY DEF TypeOK, DiskFits, PutFits, BackupFits, Replacing, MovedAside, MoveAsideFails, Goto, Fails, Fault
<1> QED BY <1>1, <1>2, <1>3, <1>4, <1>5, <1>6, <1>7

\* The scan fails.
LEMMA ScanFailsStep ==
    ASSUME NEW p \in Procs, IInv, ScanFails(p)
    PROVE  IInv'
<1> USE DEF IInv, diskVars, memVars, regVars, histVars, envVars
<1>1. TypeOK'
  <2>1. pc' \in [Procs -> Labels]
    BY GotoType DEF ScanFails, Fails, Labels
  <2>2. err' \in [Procs -> BOOLEAN]
    BY DEF TypeOK, ScanFails, Fails
  <2> QED BY <2>1, <2>2 DEF TypeOK, ScanFails, Fails, Fault
<1>2. Locking'
  BY DEF TypeOK, Locking, Critical, Replacing, ScanFails, Goto, Fails, Fault
<1>3. RequestFits'
  BY DEF TypeOK, RequestFits, Uploading, ScanFails, Goto, Fails, Fault
<1>4. StagedFits'
  BY DEF TypeOK, StagedFits, RequestFits, Uploading, ScanFails, Goto, Fails, Fault
<1>5. PutFits'
  BY DEF TypeOK, PutFits, Replacing, Uploading, ScanFails, Goto, Fails, Fault
<1>6. BackupFits'
  BY DEF TypeOK, BackupFits, MovedAside, PutFits, Replacing, Locking, Critical, WriteLocked, ScanFails, Goto, Fails, Fault
<1>7. DiskFits'
  BY DEF TypeOK, DiskFits, PutFits, BackupFits, Replacing, MovedAside, ScanFails, Goto, Fails, Fault
<1> QED BY <1>1, <1>2, <1>3, <1>4, <1>5, <1>6, <1>7

\* The old file cannot be put back.
LEMMA RestoreFailsStep ==
    ASSUME NEW p \in Procs, IInv, RestoreFails(p)
    PROVE  IInv'
<1> USE DEF IInv, diskVars, memVars, regVars, histVars, envVars
<1>1. TypeOK'
  <2>1. pc' \in [Procs -> Labels]
    BY GotoType DEF RestoreFails, Fails, Labels
  <2>2. err' \in [Procs -> BOOLEAN]
    BY DEF TypeOK, RestoreFails, Fails
  <2>3. stray' \subseteq (Paths \X Files)
    BY FitsAtType DEF TypeOK, RestoreFails, Strand, BackupFits, MovedAside
  <2>4. backup' \in [Procs -> Files \cup {Absent}]
    BY DEF TypeOK, RestoreFails, Strand
  <2> QED BY <2>1, <2>2, <2>3, <2>4 DEF TypeOK, RestoreFails, Fails, Fault, Strand
<1>2. Locking'
  BY DEF TypeOK, Locking, Critical, Replacing, RestoreFails, Goto, Fails, Fault, Strand
<1>3. RequestFits'
  BY DEF TypeOK, RequestFits, Uploading, RestoreFails, Goto, Fails, Fault, Strand
<1>4. StagedFits'
  BY DEF TypeOK, StagedFits, RequestFits, Uploading, RestoreFails, Goto, Fails, Fault, Strand
<1>5. PutFits'
  BY DEF TypeOK, PutFits, Replacing, Uploading, RestoreFails, Goto, Fails, Fault, Strand
<1>6. BackupFits'
  BY DEF TypeOK, BackupFits, MovedAside, PutFits, Replacing, Locking, Critical, WriteLocked, RestoreFails, Goto, Fails, Fault, Strand
<1>7. DiskFits'
  BY DEF TypeOK, DiskFits, PutFits, BackupFits, Replacing, MovedAside, RestoreFails, Goto, Fails, Fault, Strand
<1> QED BY <1>1, <1>2, <1>3, <1>4, <1>5, <1>6, <1>7

\* The file moved aside cannot be removed.
LEMMA DiscardFailsStep ==
    ASSUME NEW p \in Procs, IInv, DiscardFails(p)
    PROVE  IInv'
<1> USE DEF IInv, diskVars, memVars, regVars, histVars, envVars
<1>1. TypeOK'
  <2>1. pc' \in [Procs -> Labels]
    BY GotoType DEF DiscardFails, Fails, Labels
  <2>2. err' \in [Procs -> BOOLEAN]
    BY DEF TypeOK, DiscardFails, Fails
  <2>3. stray' \subseteq (Paths \X Files)
    BY FitsAtType DEF TypeOK, DiscardFails, Strand, BackupFits, MovedAside
  <2>4. backup' \in [Procs -> Files \cup {Absent}]
    BY DEF TypeOK, DiscardFails, Strand
  <2> QED BY <2>1, <2>2, <2>3, <2>4 DEF TypeOK, DiscardFails, Fails, Fault, Strand
<1>2. Locking'
  BY DEF TypeOK, Locking, Critical, Replacing, DiscardFails, Goto, Fails, Fault, Strand
<1>3. RequestFits'
  BY DEF TypeOK, RequestFits, Uploading, DiscardFails, Goto, Fails, Fault, Strand
<1>4. StagedFits'
  BY DEF TypeOK, StagedFits, RequestFits, Uploading, DiscardFails, Goto, Fails, Fault, Strand
<1>5. PutFits'
  BY DEF TypeOK, PutFits, Replacing, Uploading, DiscardFails, Goto, Fails, Fault, Strand
<1>6. BackupFits'
  BY DEF TypeOK, BackupFits, MovedAside, PutFits, Replacing, Locking, Critical, WriteLocked, DiscardFails, Goto, Fails, Fault, Strand
<1>7. DiskFits'
  BY DEF TypeOK, DiskFits, PutFits, BackupFits, Replacing, MovedAside, DiscardFails, Goto, Fails, Fault, Strand
<1> QED BY <1>1, <1>2, <1>3, <1>4, <1>5, <1>6, <1>7

\* The first rename fails.
LEMMA RenameFailsStep ==
    ASSUME NEW p \in Procs, IInv, RenameFails(p)
    PROVE  IInv'
<1> USE DEF IInv, diskVars, memVars, regVars, histVars, envVars
<1>1. TypeOK'
  <2>1. pc' \in [Procs -> Labels]
    BY GotoType DEF RenameFails, Fails, Labels
  <2>2. err' \in [Procs -> BOOLEAN]
    BY DEF TypeOK, RenameFails, Fails
  <2> QED BY <2>1, <2>2 DEF TypeOK, RenameFails, Fails, Fault
<1>2. Locking'
  BY DEF TypeOK, Locking, Critical, Replacing, RenameFails, Goto, Fails, Fault
<1>3. RequestFits'
  BY DEF TypeOK, RequestFits, Uploading, RenameFails, Goto, Fails, Fault
<1>4. StagedFits'
  BY DEF TypeOK, StagedFits, RequestFits, Uploading, RenameFails, Goto, Fails, Fault
<1>5. PutFits'
  BY DEF TypeOK, PutFits, Replacing, Uploading, RenameFails, Goto, Fails, Fault
<1>6. BackupFits'
  BY DEF TypeOK, BackupFits, MovedAside, PutFits, Replacing, Locking, Critical, WriteLocked, RenameFails, Goto, Fails, Fault
<1>7. DiskFits'
  BY DEF TypeOK, DiskFits, PutFits, BackupFits, Replacing, MovedAside, RenameFails, Goto, Fails, Fault
<1> QED BY <1>1, <1>2, <1>3, <1>4, <1>5, <1>6, <1>7

\* The second rename fails.
LEMMA SwapFailsStep ==
    ASSUME NEW p \in Procs, IInv, SwapFails(p)
    PROVE  IInv'
<1> USE DEF IInv, diskVars, memVars, regVars, histVars, envVars
<1>1. TypeOK'
  <2>1. pc' \in [Procs -> Labels]
    BY GotoType DEF SwapFails, Labels
  <2> QED BY <2>1 DEF TypeOK, SwapFails, Fault
<1>2. Locking'
  BY DEF TypeOK, Locking, Critical, Replacing, SwapFails, Goto, Fault
<1>3. RequestFits'
  BY DEF TypeOK, RequestFits, Uploading, SwapFails, Goto, Fault
<1>4. StagedFits'
  BY DEF TypeOK, StagedFits, RequestFits, Uploading, SwapFails, Goto, Fault
<1>5. PutFits'
  BY DEF TypeOK, PutFits, Replacing, Uploading, SwapFails, Goto, Fault
<1>6. BackupFits'
  BY DEF TypeOK, BackupFits, MovedAside, PutFits, Replacing, Locking, Critical, WriteLocked, SwapFails, Goto, Fault
<1>7. DiskFits'
  BY DEF TypeOK, DiskFits, PutFits, BackupFits, Replacing, MovedAside, SwapFails, Goto, Fault
<1> QED BY <1>1, <1>2, <1>3, <1>4, <1>5, <1>6, <1>7

\* The owner calls Unlock.
LEMMA ReleaseWriteLockStep ==
    ASSUME NEW p \in Procs, IInv, ReleaseWriteLock(p)
    PROVE  IInv'
<1> USE DEF IInv, diskVars, memVars, regVars, histVars, envVars
<1>1. TypeOK'
  <2>1. pc' \in [Procs -> Labels]
    BY GotoType DEF ReleaseWriteLock, Labels
  <2>2. mu' \in [writers : Seq(Procs), readers : SUBSET Procs, parked : SUBSET Procs]
    BY OwnerIsUnique DEF TypeOK, LockType, ReleaseWriteLock, Locking, Critical
  <2>3. put' \in [Procs -> [src : Files \cup {Absent}, dst : Paths \cup {NoPath}]]
    BY DEF TypeOK, ReleaseWriteLock, NoPut
  <2>4. err' \in [Procs -> BOOLEAN]
    BY DEF TypeOK, ReleaseWriteLock
  <2> QED BY <2>1, <2>2, <2>3, <2>4 DEF TypeOK, ReleaseWriteLock
<1>2. Locking'
  <2>1. ASSUME NEW q \in Procs, q # p
        PROVE  pc[q] \notin Critical
    BY <2>1, OwnerIsUnique DEF TypeOK, LockType, Locking, ReleaseWriteLock, Critical
  <2> QED BY <2>1 DEF TypeOK, Locking, ReleaseWriteLock, Goto, Critical, Replacing
<1>3. RequestFits'
  BY DEF TypeOK, RequestFits, Uploading, ReleaseWriteLock, Goto
<1>4. StagedFits'
  BY DEF TypeOK, StagedFits, RequestFits, Uploading, ReleaseWriteLock, Goto
<1>5. PutFits'
  BY DEF TypeOK, PutFits, Replacing, Uploading, ReleaseWriteLock, Goto
<1>6. BackupFits'
  BY DEF TypeOK, BackupFits, MovedAside, PutFits, Replacing, Locking, Critical, WriteLocked, ReleaseWriteLock, Goto
<1>7. DiskFits'
  BY DEF TypeOK, DiskFits, PutFits, BackupFits, Replacing, MovedAside, ReleaseWriteLock, Goto
<1> QED BY <1>1, <1>2, <1>3, <1>4, <1>5, <1>6, <1>7

\* The upload is answered.
LEMMA ReplyStep ==
    ASSUME NEW h \in Handlers, IInv, Reply(h)
    PROVE  IInv'
<1> USE DEF IInv, diskVars, memVars, regVars, histVars, envVars
<1>1. PICK code \in Statuses : \E payload : Answer(h, code, payload)
  BY DEF Reply, Statuses
<1>2. PICK payload : Answer(h, code, payload)
  BY <1>1
<1>3. TypeOK'
  <2>1. temp' \in [Procs -> Artifact \cup RevocationList \cup {Absent}]
    BY DEF TypeOK, Reply
  <2>2. mu' \in [writers : Seq(Procs), readers : SUBSET Procs, parked : SUBSET Procs]
    BY LockKeepsOwner DEF TypeOK, LockType, Reply
  <2>3. acked' \subseteq Names
    <3>1. pc[h] = "reply" /\ acked \subseteq Names
      BY DEF TypeOK, Reply
    <3>2. Uploading(h) /\ req[h].path # NoPath /\ req[h] \in Request
      BY <3>1 DEF RequestFits
    <3>3. req[h].kind = "publish" => req[h].path \in Names
      BY <3>1, <3>2, RequestType DEF Uploading
    <3> QED BY <3>1, <3>3 DEF Reply
  <2>4. /\ pc' \in [Procs -> Labels]
        /\ req' \in [Procs -> Request \cup {Absent}]
        /\ cap' \in [Procs -> Capsule \cup {Absent}]
        /\ put' \in [Procs -> [src : Files \cup {Absent}, dst : Paths \cup {NoPath}]]
        /\ err' \in [Procs -> BOOLEAN]
        /\ status' \in [Procs -> Statuses]
    BY <1>2, AnswerType
  <2>5. UNCHANGED <<disk, backup, stray, Index, listed, latest, now, faults, crashes>>
    BY DEF Reply
  <2>6. /\ disk' \in [Paths -> Files \cup {Absent}]
        /\ backup' \in [Procs -> Files \cup {Absent}]
        /\ stray' \subseteq (Paths \X Files)
        /\ Index' \in IndexValue
        /\ listed' \subseteq Procs
        /\ latest' \in [Paths -> Files \cup {Absent}]
        /\ now' \in Times /\ faults' \in 0 .. MaxFaults /\ crashes' \in 0 .. MaxCrashes
    BY <2>5 DEF TypeOK
  <2> QED BY <2>1, <2>2, <2>3, <2>4, <2>6 DEF TypeOK
<1>4. Locking'
  BY <1>2, LockingKept DEF Reply, Answer, Goto, TypeOK, Critical, Replacing
<1>5. RequestFits' /\ StagedFits' /\ PutFits' /\ BackupFits' /\ DiskFits'
  BY <1>2, AnswerFits DEF Reply, Critical, Replacing
<1> QED BY <1>3, <1>4, <1>5

\* A handler calls RLock.
LEMMA TakeReadLockStep ==
    ASSUME NEW h \in Handlers, IInv, TakeReadLock(h)
    PROVE  IInv'
<1> USE DEF IInv, diskVars, memVars, regVars, histVars, envVars
<1>1. TypeOK'
  <2>1. pc' \in [Procs -> Labels]
    BY GotoType DEF TakeReadLock, Labels
  <2>2. mu' \in [writers : Seq(Procs), readers : SUBSET Procs, parked : SUBSET Procs]
    BY LockKeepsOwner DEF TypeOK, LockType, TakeReadLock
  <2> QED BY <2>1, <2>2 DEF TypeOK, TakeReadLock
<1>2. Locking'
  BY LockingKept DEF TakeReadLock, Goto, TypeOK, Critical, Replacing
<1>3. RequestFits'
  BY DEF TypeOK, RequestFits, Uploading, TakeReadLock, Goto
<1>4. StagedFits'
  BY DEF TypeOK, StagedFits, RequestFits, Uploading, TakeReadLock, Goto
<1>5. PutFits'
  BY DEF TypeOK, PutFits, Replacing, Uploading, TakeReadLock, Goto
<1>6. BackupFits'
  BY DEF TypeOK, BackupFits, MovedAside, PutFits, Replacing, Locking, Critical, WriteLocked, TakeReadLock, Goto
<1>7. DiskFits'
  BY DEF TypeOK, DiskFits, PutFits, BackupFits, Replacing, MovedAside, TakeReadLock, Goto
<1> QED BY <1>1, <1>2, <1>3, <1>4, <1>5, <1>6, <1>7

\* A listing or a health check is answered.
LEMMA SnapshotStep ==
    ASSUME NEW h \in Handlers, IInv, Snapshot(h)
    PROVE  IInv'
<1> USE DEF IInv, diskVars, memVars, regVars, histVars, envVars
<1>1. PICK code \in Statuses : \E payload : Answer(h, code, payload)
  BY DEF Snapshot, Statuses
<1>2. PICK payload : Answer(h, code, payload)
  BY <1>1
<1>3. TypeOK'
  <2>1. temp' \in [Procs -> Artifact \cup RevocationList \cup {Absent}]
    BY DEF TypeOK, Snapshot
  <2>2. mu' \in [writers : Seq(Procs), readers : SUBSET Procs, parked : SUBSET Procs]
    BY LockKeepsOwner DEF TypeOK, LockType, Snapshot, Leave
  <2> QED BY <1>2, <2>1, <2>2, AnswerType DEF TypeOK, Snapshot, Leave
<1>4. Locking'
  BY <1>2, LockingKept DEF Snapshot, Answer, Goto, TypeOK, Critical, Replacing, Leave
<1>5. RequestFits' /\ StagedFits' /\ PutFits' /\ BackupFits' /\ DiskFits'
  BY <1>2, AnswerFits DEF Snapshot, Critical, Replacing
<1> QED BY <1>3, <1>4, <1>5

\* A download is over.
LEMMA StreamStep ==
    ASSUME NEW h \in Handlers, IInv, Stream(h)
    PROVE  IInv'
<1> USE DEF IInv, diskVars, memVars, regVars, histVars, envVars
<1>1. PICK code \in Statuses : \E payload : Answer(h, code, payload)
  BY DEF Stream, Statuses
<1>2. PICK payload : Answer(h, code, payload)
  BY <1>1
<1>3. TypeOK'
  <2>1. temp' \in [Procs -> Artifact \cup RevocationList \cup {Absent}]
    BY DEF TypeOK, Stream
  <2>2. mu' \in [writers : Seq(Procs), readers : SUBSET Procs, parked : SUBSET Procs]
    BY LockKeepsOwner DEF TypeOK, LockType, Stream, Leave
  <2> QED BY <1>2, <2>1, <2>2, AnswerType DEF TypeOK, Stream, Leave
<1>4. Locking'
  BY <1>2, LockingKept DEF Stream, Answer, Goto, TypeOK, Critical, Replacing, Leave
<1>5. RequestFits' /\ StagedFits' /\ PutFits' /\ BackupFits' /\ DiskFits'
  BY <1>2, AnswerFits DEF Stream, Critical, Replacing
<1> QED BY <1>3, <1>4, <1>5

\* A download opens its file, or is answered 404.
LEMMA OpenStep ==
    ASSUME NEW h \in Handlers, IInv, Open(h)
    PROVE  IInv'
<1> USE DEF IInv, diskVars, memVars, regVars, histVars, envVars
<1>1. CASE disk[req[h].path] = Absent
  <2>1. Answer(h, 404, Absent) /\ Leave(h) /\ pc[h] = "read"
    BY <1>1 DEF Open
  <2>2. mu' \in [writers : Seq(Procs), readers : SUBSET Procs, parked : SUBSET Procs]
    BY <2>1, LockKeepsOwner DEF TypeOK, LockType, Leave
  <2>3. TypeOK'
    BY <2>1, <2>2, AnswerType DEF TypeOK, Open, Leave, Statuses
  <2>4. Locking'
    BY <2>1, LockingKept DEF Answer, Goto, TypeOK, Critical, Replacing, Leave
  <2>5. RequestFits' /\ StagedFits' /\ PutFits' /\ BackupFits' /\ DiskFits'
    BY <2>1, AnswerFits DEF Open, Critical, Replacing
  <2> QED BY <2>3, <2>4, <2>5
<1>2. CASE disk[req[h].path] # Absent
  <2>1. /\ pc[h] = "read" /\ ~ Uploading(h) /\ Goto(h, "stream")
        /\ UNCHANGED <<diskVars, memVars, req, cap, put, err, status, histVars, envVars>>
    BY <1>2 DEF Open, HoldReadLock, Uploading
  <2>2. TypeOK'
    BY <2>1, GotoType DEF TypeOK, Labels
  <2>3. Locking'
    BY <2>1 DEF TypeOK, Locking, Goto, Critical, Replacing
  <2>4. RequestFits' /\ StagedFits'
    BY <2>1 DEF TypeOK, RequestFits, StagedFits, Uploading, Goto
  <2>5. PutFits' /\ BackupFits' /\ DiskFits'
    BY <2>1 DEF TypeOK, PutFits, BackupFits, DiskFits, Replacing, MovedAside,
                Uploading, Goto
  <2> QED BY <2>2, <2>3, <2>4, <2>5
<1> QED BY <1>1, <1>2

\* A request arrives: it is refused, or its handler starts.
LEMMA ArriveStep ==
    ASSUME NEW h \in Handlers, NEW r \in Request, IInv, Arrive(h, r)
    PROVE  IInv'
<1> USE DEF IInv, diskVars, memVars, regVars, histVars, envVars
<1>1. CASE Refusal(r) # 0
  <2>1. Answer(h, Refusal(r), Absent) /\ pc[h] = "idle"
    BY <1>1 DEF Arrive
  <2>2. Refusal(r) \in Statuses
    BY DEF Refusal, Statuses
  <2>3. TypeOK'
    BY <2>1, <2>2, AnswerType DEF TypeOK, Arrive
  <2>4. Locking'
    BY <2>1, LockingKept DEF Arrive, Answer, Goto, TypeOK, Critical, Replacing
  <2>5. RequestFits' /\ StagedFits' /\ PutFits' /\ BackupFits' /\ DiskFits'
    BY <2>1, AnswerFits DEF Arrive, Critical, Replacing
  <2> QED BY <2>3, <2>4, <2>5
<1>2. CASE Refusal(r) = 0
  <2> DEFINE first == FirstStep(r.kind)
  <2>1. /\ pc[h] = "idle" /\ Goto(h, first)
        /\ req' = [req EXCEPT ![h] = r]
        /\ status' = [status EXCEPT ![h] = 0]
        /\ UNCHANGED <<diskVars, memVars, cap, put, err, histVars, envVars>>
    BY <1>2 DEF Arrive
  <2>2. /\ first \in {"stage", "lock", "rlock"}
        /\ first = "stage" <=> r.kind \in {"publish", "revput"}
    BY DEF FirstStep
  <2>3. r.kind \in {"publish", "revput"} => r.path # NoPath /\ r.post /\ Authorized(r.bearer)
    BY <1>2, RequestType DEF Refusal
  <2> HIDE DEF first
  <2>4. TypeOK'
    <3>1. pc' \in [Procs -> Labels]
      BY <2>1, <2>2, GotoType DEF Labels
    <3> QED BY <2>1, <3>1 DEF TypeOK, Statuses
  <2>5. Locking'
    BY <2>1, <2>2 DEF TypeOK, Locking, Goto, Critical, Replacing
  <2>6. RequestFits'
    BY <2>1, <2>2, <2>3 DEF TypeOK, RequestFits, Uploading, Goto
  <2>7. StagedFits'
    BY <2>1, <2>2 DEF TypeOK, StagedFits, Uploading, Goto
  <2>8. PutFits' /\ BackupFits' /\ DiskFits'
    BY <2>1, <2>2 DEF TypeOK, PutFits, BackupFits, DiskFits, Replacing, MovedAside,
                      Uploading, Goto
  <2> QED BY <2>4, <2>5, <2>6, <2>7, <2>8
<1> QED BY <1>1, <1>2

\* What arrives is a request.
LEMMA DistinctAmong ==
    ASSUME NEW S
    PROVE  Distinct(S) \subseteq S
<1>1. SUFFICES ASSUME NEW q \in S
               PROVE  (CHOOSE r \in S : Refusal(r) = Refusal(q)) \in S
  BY DEF Distinct
<1>2. \E r \in S : Refusal(r) = Refusal(q)
  BY <1>1
<1> QED BY <1>2

LEMMA ArrivesRequest ==
    ASSUME NEW h \in Handlers, Requests(h)
    PROVE  \E r \in Request : Arrive(h, r)
<1>1. {PublishName(header) : header \in Headers} \subseteq Names \cup {NoPath}
  BY NamesAssumption DEF PublishName, Headers
<1>2. Publishes \subseteq Request
  <2>1. [kind : {"publish"}, path : {PublishName(header) : header \in Headers},
         post : BOOLEAN, bearer : Bearers, content : Bodies] \subseteq Request
    BY <1>1 DEF Request
  <2> QED BY <2>1, DistinctAmong DEF Publishes
<1>3. RevocationPuts \subseteq Request
  <2>1. [kind : {"revput"}, path : Issuers \cup {NoPath}, post : BOOLEAN,
         bearer : Bearers, content : RevocationList] \subseteq Request
    BY DEF Request
  <2> QED BY <2>1, DistinctAmong DEF RevocationPuts
<1>4. CASE ArrivePublish(h)
  BY <1>2, <1>4 DEF ArrivePublish
<1>5. CASE ArriveRevocations(h)
  BY <1>3, <1>5 DEF ArriveRevocations
<1>6. CASE ArriveDownload(h)
  BY <1>6 DEF ArriveDownload, Request
<1>7. CASE ArriveQuery(h)
  BY <1>7 DEF ArriveQuery, Request
<1> QED BY <1>4, <1>5, <1>6, <1>7 DEF Requests

LEMMA RequestsStep ==
    ASSUME NEW h \in Handlers, IInv, Requests(h)
    PROVE  IInv'
<1>1. PICK r \in Request : Arrive(h, r)
  BY ArrivesRequest
<1> QED BY <1>1, ArriveStep

\* Time passes.
LEMMA TickStep ==
    ASSUME IInv, Tick
    PROVE  IInv'
<1> USE DEF IInv, Tick, diskVars, memVars, regVars, histVars, envVars
<1>1. TypeOK'
  BY DEF TypeOK, Times
<1>2. Locking' /\ RequestFits' /\ StagedFits'
  BY DEF Locking, RequestFits, StagedFits, Uploading
<1>3. PutFits' /\ BackupFits' /\ DiskFits'
  BY DEF PutFits, BackupFits, DiskFits, Uploading
<1> QED BY <1>1, <1>2, <1>3

\* A process that has just started holds nothing.
LEMMA BootingFits ==
    /\ Booting \in [Procs -> Labels]
    /\ \A h \in Handlers : Booting[h] = "idle"
    /\ \A p \in Procs : Booting[p] \notin Critical
BY DEF Booting, Labels, Critical, Replacing

\* The process dies and is started again.
LEMMA CrashStep ==
    ASSUME IInv, Crash
    PROVE  IInv'
<1> USE DEF IInv, Crash, histVars
<1>1. TypeOK'
  <2>1. stray' \subseteq (Paths \X Files)
    <3>1. ASSUME NEW p \in Procs, backup[p] # Absent
          PROVE  <<put[p].dst, backup[p]>> \in Paths \X Files
      BY <3>1, FitsAtType DEF BackupFits
    <3> QED BY <3>1 DEF TypeOK
  <2>2. mu' \in [writers : Seq(Procs), readers : SUBSET Procs, parked : SUBSET Procs]
    BY DEF Free
  <2>3. put' \in [Procs -> [src : Files \cup {Absent}, dst : Paths \cup {NoPath}]]
    BY DEF NoPuts, NoPut
  <2> QED BY <2>1, <2>2, <2>3, BootingFits
          DEF TypeOK, Nothing, NoErrors, NoStatus, Statuses, EmptyIndex, IndexValue
<1>2. Locking' /\ RequestFits' /\ StagedFits'
  BY BootingFits DEF Locking, RequestFits, StagedFits
<1>3. PutFits' /\ BackupFits' /\ DiskFits'
  BY BootingFits DEF PutFits, BackupFits, DiskFits, Critical, Replacing, MovedAside, Nothing
<1> QED BY <1>1, <1>2, <1>3

-----------------------------------------------------------------------------
(* The invariant.                                                          *)

LEMMA InitIInv == Init => IInv
<1> SUFFICES ASSUME Init PROVE IInv
  OBVIOUS
<1> USE DEF Init
<1>1. PICK seed \in [Names -> [body : ValidBodies, mtime : {0}] \cup {Absent}] :
           disk = [x \in Paths |-> IF x \in Names THEN seed[x] ELSE Absent]
  OBVIOUS
<1>2. \A n \in Names : seed[n] # Absent => seed[n] \in Artifact /\ seed[n].body \in ValidBodies
  BY BodiesAssumption DEF Artifact, Times
<1>3. DiskFits
  BY <1>1, <1>2 DEF DiskFits, FitsAt
<1>4. TypeOK
  <2>1. disk \in [Paths -> Files \cup {Absent}]
    BY <1>1, <1>2 DEF Files
  <2>2. mu \in [writers : Seq(Procs), readers : SUBSET Procs, parked : SUBSET Procs]
    BY DEF Free
  <2>3. put \in [Procs -> [src : Files \cup {Absent}, dst : Paths \cup {NoPath}]]
    BY DEF NoPuts, NoPut
  <2> QED BY <2>1, <2>2, <2>3, BootingFits
          DEF TypeOK, Nothing, NoErrors, NoStatus, Statuses, EmptyIndex, IndexValue, Times
<1>5. Locking /\ RequestFits /\ StagedFits
  BY BootingFits DEF Locking, RequestFits, StagedFits
<1>6. PutFits /\ BackupFits
  BY BootingFits DEF PutFits, BackupFits, Critical, Replacing, MovedAside, Nothing
<1> QED BY <1>3, <1>4, <1>5, <1>6 DEF IInv

LEMMA NextIInv == IInv /\ [Next]_vars => IInv'
<1> SUFFICES ASSUME IInv, [Next]_vars PROVE IInv'
  OBVIOUS
<1>1. ASSUME NEW h \in Handlers,
             Requests(h) \/ ClientStep(h) \/ HandlerStep(h) \/ DigestFails(h)
      PROVE  IInv'
  <2>1. CASE Requests(h)
    BY <2>1, RequestsStep
  <2>2. CASE ClientStep(h)
    BY <2>2, StageStep, StageFailsStep, StreamStep DEF ClientStep
  <2>3. CASE HandlerStep(h)
    BY <2>3, ValidateStep, RejectStep, CommitStep, RecordStep, ReplyStep,
       TakeReadLockStep, SnapshotStep, OpenStep DEF HandlerStep
  <2>4. CASE DigestFails(h)
    BY <2>4, DigestFailsStep
  <2> QED BY <1>1, <2>1, <2>2, <2>3, <2>4
<1>2. ASSUME NEW p \in Procs, LockedStep(p) \/ FaultStep(p)
      PROVE  IInv'
  <2>1. CASE LockedStep(p)
    BY <2>1, TakeWriteLockStep, ScanStep, RebuildStep, ScanLosesTempStep, RenameStep,
       MoveAsideStep, SwapStep, RestoreStep, DiscardStep, ReleaseWriteLockStep
       DEF LockedStep
  <2>2. CASE FaultStep(p)
    BY <2>2, RenameFailsStep, PrepareFailsStep, MoveAsideFailsStep, SwapFailsStep,
       RestoreFailsStep, DiscardFailsStep, ScanFailsStep, IndexUnreadableStep
       DEF FaultStep
  <2> QED BY <1>2, <2>1, <2>2
<1>3. CASE UNCHANGED vars
  <2> USE <1>3 DEF IInv, vars, diskVars, memVars, regVars, histVars, envVars
  <2>1. TypeOK'
    BY DEF TypeOK
  <2>2. Locking' /\ RequestFits' /\ StagedFits'
    BY DEF Locking, RequestFits, StagedFits, Uploading
  <2>3. PutFits' /\ BackupFits' /\ DiskFits'
    BY DEF PutFits, BackupFits, DiskFits, Uploading
  <2> QED BY <2>1, <2>2, <2>3
<1> QED BY <1>1, <1>2, <1>3, TickStep, CrashStep DEF Next

\* The parts of IInv hold together in every reachable state of the registry.
THEOREM Invariance == Spec => []IInv
BY InitIInv, NextIInv, PTL DEF Spec

\* Every variable keeps its type, through failing system calls and crashes.
THEOREM TypeCorrect == Spec => []TypeOK
<1>1. IInv => TypeOK
  BY DEF IInv
<1> QED BY <1>1, Invariance, PTL

\* The registry never has anything in its store, hence never serves anything,
\* that it has not validated: artifacts that pass validateQcapArchive, lists
\* signed by the issuer they are filed under.
THEOREM Validated == Spec => []OnlyValidStored
<1>1. IInv => OnlyValidStored
  BY DEF IInv, DiskFits, FitsAt, OnlyValidStored, Paths
<1> QED BY <1>1, Invariance, PTL

-----------------------------------------------------------------------------
(* Who writes the store.                                                   *)

\* A step that changes a file under an artifact's name or an issuer is a step
\* of the upload to that path.
LEMMA DiskChange ==
    ASSUME IInv, Next, NEW x \in Names \cup Issuers, disk'[x] # disk[x]
    PROVE  \E h \in Handlers :
              /\ Uploading(h) /\ req[h].path = x /\ put[h].dst = x
              /\ pc[h] \in Replacing
              /\ Rename(h) \/ MoveAside(h) \/ Swap(h) \/ Restore(h)
<1> USE DEF IInv, TypeOK, diskVars
<1>1. ASSUME NEW p \in Procs, Rename(p) \/ MoveAside(p) \/ Swap(p) \/ Restore(p)
      PROVE  p \in Handlers /\ Uploading(p) /\ req[p].path = x /\ put[p].dst = x
             /\ pc[p] \in Replacing
  <2>1. pc[p] \in Replacing
    BY <1>1 DEF Rename, MoveAside, Swap, Restore, Replacing
  <2>2. put[p].dst = x
    <3>1. \E f : disk' = [disk EXCEPT ![put[p].dst] = f]
      BY <1>1 DEF Rename, MoveAside, Swap, Restore
    <3>2. x \in Paths
      BY DEF Paths
    <3> QED BY <3>1, <3>2
  <2> QED BY <2>1, <2>2 DEF PutFits, Uploading
<1>2. ASSUME NEW p \in Procs, LockedStep(p) \/ FaultStep(p)
      PROVE  Rename(p) \/ MoveAside(p) \/ Swap(p) \/ Restore(p)
  BY <1>2 DEF LockedStep, FaultStep, TakeWriteLock, Scan, Rebuild, ScanLosesTemp, Discard,
     ReleaseWriteLock, RenameFails, PrepareFails, MoveAsideFails, SwapFails, RestoreFails,
     DiscardFails, ScanFails, IndexUnreadable, Strand
<1>3. ASSUME NEW h \in Handlers, Requests(h) \/ ClientStep(h) \/ HandlerStep(h) \/ DigestFails(h)
      PROVE  FALSE
  <2>1. ~ Requests(h)
    <3>1. Requests(h) => \E r : Arrive(h, r)
      BY DEF Requests, ArrivePublish, ArriveRevocations, ArriveDownload, ArriveQuery
    <3> QED BY <3>1 DEF Arrive
  <2>2. ~ (ClientStep(h) \/ HandlerStep(h) \/ DigestFails(h))
    BY DEF ClientStep, HandlerStep, DigestFails, Stage, StageFails, Stream, Validate, Reject,
       Commit, Record, Reply, TakeReadLock, Snapshot, Open
  <2> QED BY <1>3, <2>1, <2>2
<1>4. ~ Tick /\ ~ Crash
  BY DEF Tick, Crash
<1> QED BY <1>1, <1>2, <1>3, <1>4 DEF Next

\* A file of the store changes only on behalf of a request that posted to its
\* path with the right token and holds the lock alone.
THEOREM JustifiedWrites == Spec => WritesJustified
<1> DEFINE Justified(x) ==
        \E h \in Handlers :
            /\ WriteLocked(mu, h)
            /\ Uploading(h)
            /\ req[h].path = x /\ req[h].post
            /\ Token \in {NoToken, req[h].bearer}
<1>1. ASSUME IInv, [Next]_vars, NEW x \in Names \cup Issuers, disk'[x] # disk[x]
      PROVE  Justified(x)
  <2>1. Next
    BY <1>1 DEF vars, diskVars
  <2>2. PICK h \in Handlers : /\ Uploading(h) /\ req[h].path = x
                              /\ pc[h] \in Replacing
    BY <1>1, <2>1, DiskChange
  <2>3. WriteLocked(mu, h)
    BY <1>1, <2>2 DEF IInv, Locking, Critical
  <2>4. req[h].post /\ Token \in {NoToken, req[h].bearer}
    BY <1>1, <2>2 DEF IInv, RequestFits, Authorized, Replacing
  <2> QED BY <2>2, <2>3, <2>4
<1>2. IInv /\ [Next]_vars => [\A x \in Names \cup Issuers : disk'[x] # disk[x] => Justified(x)]_vars
  BY <1>1
<1> QED BY <1>2, Invariance, PTL DEF Spec, WritesJustified

-----------------------------------------------------------------------------
(* Nothing acknowledged is lost.                                           *)

\* A step that neither puts a file in place nor takes a backup nor disposes of one.
Moves(p) ==
    \/ Rename(p) \/ MoveAside(p) \/ Swap(p) \/ Restore(p) \/ Discard(p)
    \/ RestoreFails(p) \/ DiscardFails(p)

\* Such a step leaves the files, the backups and the history of renames alone, and
\* the destination of every replacement that has a backup.
LEMMA QuietStep ==
    ASSUME IInv, Next, ~ Crash, \A p \in Procs : ~ Moves(p)
    PROVE  /\ disk' = disk /\ latest' = latest /\ backup' = backup /\ stray' = stray
           /\ \A p \in Procs :
                 /\ pc[p] \in MovedAside => put'[p] = put[p]
                 /\ pc'[p] \in {"swap", "restore"} => pc[p] \in {"swap", "restore"}
<1> USE DEF IInv, TypeOK, diskVars, memVars, regVars, histVars, envVars, Goto
<1> DEFINE Quiet ==
        /\ disk' = disk /\ latest' = latest /\ backup' = backup /\ stray' = stray
        /\ \A p \in Procs :
              /\ pc[p] \in MovedAside => put'[p] = put[p]
              /\ pc'[p] \in {"swap", "restore"} => pc[p] \in {"swap", "restore"}
<1>1. ASSUME NEW q \in Procs, LockedStep(q) \/ FaultStep(q)
      PROVE  Quiet
  <2>1. CASE TakeWriteLock(q) \/ Scan(q) \/ ScanLosesTemp(q) \/ ScanFails(q)
             \/ PrepareFails(q) \/ RenameFails(q) \/ MoveAsideFails(q) \/ SwapFails(q)
    BY <2>1 DEF TakeWriteLock, Scan, ScanLosesTemp, ScanFails, PrepareFails, RenameFails,
                MoveAsideFails, SwapFails, Fails
  <2>2. CASE Rebuild(q) \/ IndexUnreadable(q) \/ ReleaseWriteLock(q)
    BY <2>2 DEF Rebuild, IndexUnreadable, ReleaseWriteLock, Save, MovedAside
  <2> QED BY <1>1, <2>1, <2>2 DEF LockedStep, FaultStep, Moves
<1>2. ASSUME NEW q \in Handlers, NEW code, NEW payload, Answer(q, code, payload),
             pc[q] \notin MovedAside, UNCHANGED <<disk, latest, backup, stray>>
      PROVE  Quiet
  BY <1>2 DEF Answer
<1>3. ASSUME NEW q \in Handlers, Requests(q)
      PROVE  Quiet
  <2>1. PICK r : Arrive(q, r)
    BY <1>3 DEF Requests, ArrivePublish, ArriveRevocations, ArriveDownload, ArriveQuery
  <2>2. CASE Refusal(r) # 0
    BY <1>2, <2>1, <2>2 DEF Arrive, MovedAside
  <2>3. CASE Refusal(r) = 0
    BY <2>1, <2>3 DEF Arrive, FirstStep
  <2> QED BY <2>2, <2>3
<1>4. ASSUME NEW q \in Handlers, ClientStep(q) \/ HandlerStep(q) \/ DigestFails(q)
      PROVE  Quiet
  <2>1. CASE StageFails(q) \/ Stream(q) \/ Reject(q) \/ Reply(q) \/ Snapshot(q) \/ DigestFails(q)
    BY <1>2, <2>1 DEF StageFails, Stream, Reject, Reply, Snapshot, DigestFails, MovedAside
  <2>2. CASE Stage(q) \/ Validate(q) \/ Commit(q) \/ TakeReadLock(q)
    BY <2>2 DEF Stage, Validate, Commit, TakeReadLock, MovedAside
  <2>3. CASE Record(q)
    BY <2>3 DEF Record, Save, MovedAside
  <2>4. CASE Open(q)
    BY <1>2, <2>4 DEF Open, HoldReadLock, MovedAside
  <2> QED BY <1>4, <2>1, <2>2, <2>3, <2>4 DEF ClientStep, HandlerStep
<1>5. CASE Tick
  BY <1>5 DEF Tick
<1> QED BY <1>1, <1>3, <1>4, <1>5 DEF Next

\* Whoever replaces a file is alone in it.
LEMMA AloneInReplace ==
    ASSUME IInv, NEW p \in Procs, pc[p] \in Replacing, NEW q \in Procs, q # p
    PROVE  pc[q] \notin Replacing
BY OwnerIsUnique DEF IInv, TypeOK, LockType, Locking, Critical

\* What replaceFile handles is a file, and its destination a path.
LEMMA ReplaceType ==
    ASSUME IInv, NEW p \in Procs, pc[p] \in Replacing
    PROVE  /\ put[p].src # Absent /\ put[p].src \in Files
           /\ put[p].dst \in Paths
BY FitsAtType, AbsentAssumption DEF IInv, PutFits

\* A file renamed onto its path is what that path holds from then on.
LEMMA RenameKeeps ==
    ASSUME IInv, LatestKept, NEW p \in Procs, Rename(p) \/ Swap(p)
    PROVE  LatestKept'
<1> USE DEF IInv, TypeOK, LatestKept, Goto
<1>1. pc[p] \in Replacing
  BY DEF Rename, Swap, Replacing
<1>2. /\ disk' = [disk EXCEPT ![put[p].dst] = put[p].src]
      /\ latest' = [latest EXCEPT ![put[p].dst] = put[p].src]
      /\ UNCHANGED <<backup, put, stray>>
  BY DEF Rename, Swap, regVars
<1>3. pc'[p] \notin {"swap", "restore"} /\ \A q \in Procs \ {p} : pc'[q] = pc[q]
  BY DEF Rename, Swap, AfterReplace
<1>4. \A x \in Paths : latest'[x] # Absent => Kept(x, latest[x])'
  BY <1>1, <1>2, ReplaceType DEF Kept
<1>5. \A x \in Paths : disk'[x] # Absent => disk'[x] = latest'[x]
  BY <1>1, <1>2, ReplaceType
<1>6. ASSUME NEW q \in Procs PROVE pc'[q] \notin {"swap", "restore"}
  BY <1>1, <1>3, AloneInReplace DEF Replacing
<1> QED BY <1>4, <1>5, <1>6

\* The file moved aside is the one last put there.
LEMMA MoveAsideKeeps ==
    ASSUME IInv, LatestKept, NEW p \in Procs, MoveAside(p)
    PROVE  LatestKept'
<1> USE DEF IInv, TypeOK, LatestKept, Goto
<1>1. pc[p] = "aside" /\ pc[p] \in Replacing
  BY DEF MoveAside, Replacing
<1> DEFINE dst == put[p].dst
<1>2. dst \in Paths /\ disk[dst] # Absent /\ disk[dst] = latest[dst]
  BY <1>1, ReplaceType DEF BackupFits
<1>3. backup[p] = Absent
  BY <1>1 DEF BackupFits, MovedAside
<1>4. /\ disk' = [disk EXCEPT ![dst] = Absent]
      /\ backup' = [backup EXCEPT ![p] = disk[dst]]
      /\ UNCHANGED <<latest, put, stray>>
  BY DEF MoveAside, regVars, histVars
<1>5. ASSUME NEW x \in Paths, latest'[x] # Absent PROVE Kept(x, latest[x])'
  <2>1. CASE x = dst
    BY <1>2, <1>4, <2>1 DEF Kept
  <2>2. CASE x # dst
    <3>1. Kept(x, latest[x])
      BY <1>4, <1>5
    <3>2. CASE disk[x] = latest[x]
      BY <1>4, <2>2, <3>2 DEF Kept
    <3>3. ASSUME NEW q \in Procs, put[q].dst = x, backup[q] = latest[x]
          PROVE  Kept(x, latest[x])'
      BY <1>3, <1>4, <1>5, <3>3 DEF Kept
    <3> QED BY <1>4, <3>1, <3>2, <3>3 DEF Kept
  <2> QED BY <2>1, <2>2
<1>6. \A x \in Paths : disk'[x] # Absent => disk'[x] = latest'[x]
  BY <1>2, <1>4
<1>7. ASSUME NEW q \in Procs, pc'[q] \in {"swap", "restore"}
      PROVE  backup'[q] = latest'[put'[q].dst]
  <2>1. CASE q = p
    BY <1>2, <1>4, <2>1
  <2>2. CASE q # p
    BY <1>1, <1>7, <2>2, AloneInReplace DEF MoveAside, Replacing
  <2> QED BY <2>1, <2>2
<1> QED BY <1>5, <1>6, <1>7

\* A backup is removed once the new file is in place, or put back, or left in the
\* store under its own name.
LEMMA DisposeKeeps ==
    ASSUME IInv, LatestKept, NEW p \in Procs,
           Discard(p) \/ Restore(p) \/ RestoreFails(p) \/ DiscardFails(p)
    PROVE  LatestKept'
<1> USE DEF IInv, TypeOK, LatestKept, Goto
<1>1. pc[p] \in MovedAside /\ pc[p] \in Replacing
  BY DEF Discard, Restore, RestoreFails, DiscardFails, MovedAside, Replacing
<1> DEFINE dst == put[p].dst
<1>2. dst \in Paths /\ backup[p] # Absent
  BY <1>1, ReplaceType DEF BackupFits
<1>3. UNCHANGED <<latest, put>> /\ backup' = [backup EXCEPT ![p] = Absent]
  BY DEF Discard, Restore, RestoreFails, DiscardFails, Strand, regVars, histVars
<1>4. \/ Discard(p) /\ disk' = disk /\ stray' = stray /\ disk[dst] = latest[dst]
      \/ Restore(p) /\ disk' = [disk EXCEPT ![dst] = latest[dst]] /\ stray' = stray
      \/ disk' = disk /\ stray' = stray \cup {<<dst, backup[p]>>}
  <2>1. Discard(p) => disk[dst] = latest[dst]
    BY <1>2 DEF Discard, BackupFits
  <2>2. Restore(p) => backup[p] = latest[dst]
    BY DEF Restore
  <2> QED BY <2>1, <2>2 DEF Discard, Restore, RestoreFails, DiscardFails, Strand
<1>5. ASSUME NEW x \in Paths, latest'[x] # Absent PROVE Kept(x, latest[x])'
  <2>1. Kept(x, latest[x])
    BY <1>3, <1>5
  <2>2. CASE disk[x] = latest[x]
    BY <1>2, <1>3, <1>4, <2>2 DEF Kept
  <2>3. CASE <<x, latest[x]>> \in stray
    BY <1>3, <1>4, <2>3 DEF Kept
  <2>4. ASSUME NEW q \in Procs, put[q].dst = x, backup[q] = latest[x], q # p
        PROVE  Kept(x, latest[x])'
    BY <1>3, <2>4 DEF Kept
  <2>5. CASE dst = x /\ backup[p] = latest[x]
    BY <1>2, <1>3, <1>4, <2>5 DEF Kept
  <2> QED BY <2>1, <2>2, <2>3, <2>4, <2>5 DEF Kept
<1>6. \A x \in Paths : disk'[x] # Absent => disk'[x] = latest'[x]
  BY <1>2, <1>3, <1>4
<1>7. pc'[p] \notin {"swap", "restore"} /\ \A q \in Procs \ {p} : pc'[q] = pc[q]
  BY DEF Discard, Restore, RestoreFails, DiscardFails, AfterReplace, Fails
<1>8. ASSUME NEW q \in Procs PROVE pc'[q] \notin {"swap", "restore"}
  BY <1>1, <1>7, AloneInReplace DEF Replacing
<1> QED BY <1>5, <1>6, <1>8

\* A crash leaves every backup in the store.
LEMMA CrashKeeps ==
    ASSUME IInv, LatestKept, Crash
    PROVE  LatestKept'
<1> USE DEF LatestKept, histVars
<1>1. UNCHANGED <<disk, latest>> /\ pc' = Booting
  BY DEF Crash
<1>2. ASSUME NEW x \in Paths, latest'[x] # Absent PROVE Kept(x, latest[x])'
  <2>1. Kept(x, latest[x])
    BY <1>1, <1>2
  <2>2. ASSUME NEW p \in Procs, put[p].dst = x, backup[p] = latest[x]
        PROVE  <<x, latest[x]>> \in stray'
    BY <1>1, <1>2, <2>2 DEF Crash
  <2>3. stray \subseteq stray'
    BY DEF Crash
  <2> QED BY <1>1, <2>1, <2>2, <2>3 DEF Kept
<1>3. \A p \in Procs : pc'[p] \notin {"swap", "restore"}
  BY <1>1, BootingFits DEF Critical, Replacing
<1> QED BY <1>1, <1>2, <1>3

\* The bytes last renamed onto a path are never lost.
LEMMA LatestStep == IInv /\ LatestKept /\ [Next]_vars => LatestKept'
<1> SUFFICES ASSUME IInv, LatestKept, [Next]_vars
             PROVE  LatestKept'
  OBVIOUS
<1>1. CASE UNCHANGED vars
  BY <1>1 DEF LatestKept, Kept, vars, diskVars, regVars, histVars
<1>2. CASE Next /\ ~ Crash /\ \A p \in Procs : ~ Moves(p)
  <2>1. /\ disk' = disk /\ latest' = latest /\ backup' = backup /\ stray' = stray
        /\ \A p \in Procs :
              /\ pc[p] \in MovedAside => put'[p] = put[p]
              /\ pc'[p] \in {"swap", "restore"} => pc[p] \in {"swap", "restore"}
    BY <1>2, QuietStep
  <2>2. \A p \in Procs : backup[p] # Absent => pc[p] \in MovedAside
    BY DEF IInv, BackupFits
  <2>3. \A x \in Paths : latest[x] # Absent => Kept(x, latest[x])'
    BY <2>1, <2>2 DEF LatestKept, Kept
  <2> QED BY <2>1, <2>3 DEF LatestKept, MovedAside
<1>3. ASSUME NEW p \in Procs, Moves(p)
      PROVE  LatestKept'
  BY <1>3, RenameKeeps, MoveAsideKeeps, DisposeKeeps DEF Moves
<1> QED BY <1>1, <1>2, <1>3, CrashKeeps

\* A path once renamed onto stays so.
LEMMA LatestStays ==
    ASSUME IInv, [Next]_vars, NEW x \in Paths, latest[x] # Absent
    PROVE  latest'[x] # Absent
<1>1. CASE UNCHANGED vars
  BY <1>1 DEF vars, histVars
<1>2. CASE Crash
  BY <1>2 DEF Crash, histVars
<1>3. CASE Next /\ ~ Crash /\ \A p \in Procs : ~ Moves(p)
  BY <1>3, QuietStep
<1>4. ASSUME NEW p \in Procs, Moves(p)
      PROVE  latest'[x] # Absent
  <2>1. CASE Rename(p) \/ Swap(p)
    BY <2>1, ReplaceType DEF Rename, Swap, Replacing, IInv, TypeOK
  <2>2. CASE ~ (Rename(p) \/ Swap(p))
    BY <1>4, <2>2 DEF Moves, MoveAside, Restore, Discard, RestoreFails, DiscardFails, histVars
  <2> QED BY <2>1, <2>2
<1> QED BY <1>1, <1>2, <1>3, <1>4

\* A step in which an upload moves on is one of its own.
LEMMA OwnStep ==
    ASSUME IInv, Next, NEW h \in Handlers,
           ~ (/\ pc'[h] = pc[h] /\ req'[h] = req[h]
              /\ put'[h] = put[h] /\ err'[h] = err[h])
    PROVE  \/ Crash \/ Requests(h) \/ ClientStep(h) \/ HandlerStep(h) \/ DigestFails(h)
           \/ LockedStep(h) \/ FaultStep(h)
<1> USE DEF IInv, TypeOK, diskVars, regVars, Goto
<1>1. ASSUME NEW q \in Procs, LockedStep(q) \/ FaultStep(q), q # h
      PROVE  FALSE
  BY <1>1
     DEF LockedStep, FaultStep, TakeWriteLock, Scan, Rebuild, Save, Fails,
         ScanLosesTemp, Rename, MoveAside, Swap, Restore, Discard, ReleaseWriteLock,
         RenameFails, PrepareFails, MoveAsideFails, SwapFails, RestoreFails,
         DiscardFails, ScanFails, IndexUnreadable
<1>2. ASSUME NEW q \in Handlers, Requests(q), q # h
      PROVE  FALSE
  <2>1. \E r : Arrive(q, r)
    BY <1>2 DEF Requests, ArrivePublish, ArriveRevocations, ArriveDownload, ArriveQuery
  <2> QED BY <1>2, <2>1 DEF Arrive, Answer
<1>3. ASSUME NEW q \in Handlers, ClientStep(q) \/ HandlerStep(q) \/ DigestFails(q), q # h
      PROVE  FALSE
  BY <1>3
     DEF ClientStep, HandlerStep, DigestFails, Stage, StageFails, Stream, Validate, Reject,
         Commit, Record, Save, Reply, TakeReadLock, Snapshot, Open, Answer
<1>4. ~ Tick
  BY DEF Tick
<1> QED BY <1>1, <1>2, <1>3, <1>4 DEF Next

\* An upload becomes Stored in the step that leaves its artifact in place.
LEMMA StoredStep ==
    ASSUME IInv, LatestKept, Next, NEW h \in Handlers, Stored(h)'
    PROVE  /\ req'[h] = req[h]
           /\ Stored(h) \/ latest'[req[h].path] # Absent
<1> USE DEF IInv, TypeOK, diskVars, regVars, histVars, Uploading
<1>1. CASE pc'[h] = pc[h] /\ req'[h] = req[h] /\ put'[h] = put[h] /\ err'[h] = err[h]
  BY <1>1 DEF Stored
<1>2. CASE Rename(h)
  <2>1. put[h].src # Absent /\ put[h].dst \in Paths
    BY <1>2, FitsAtType, AbsentAssumption DEF Rename, PutFits, Replacing
  <2> QED BY <1>2, <2>1 DEF Rename, Goto, AfterReplace, PutFits, Replacing, Stored
<1>3. CASE Discard(h)
  <2>1. put[h].dst \in Paths /\ latest[put[h].dst] # Absent
    BY <1>3, ReplaceType DEF Discard, BackupFits, Replacing, LatestKept
  <2> QED BY <1>3, <2>1 DEF Discard, Goto, AfterReplace, PutFits, Replacing, Stored
<1>4. CASE MoveAside(h) \/ Swap(h) \/ Restore(h) \/ RenameFails(h) \/ SwapFails(h)
  BY <1>4 DEF MoveAside, Swap, Restore, RenameFails, SwapFails, Fails, Goto, Replacing, Stored
<1>5. CASE Record(h) \/ ReleaseWriteLock(h)
  BY <1>5 DEF Record, Save, ReleaseWriteLock, Goto, Replacing, Stored
<1>6. CASE PrepareFails(h) \/ MoveAsideFails(h) \/ RestoreFails(h) \/ DiscardFails(h)
           \/ ScanFails(h) \/ ScanLosesTemp(h)
  BY <1>6 DEF PrepareFails, MoveAsideFails, RestoreFails, DiscardFails, ScanFails,
              ScanLosesTemp, Fails, Stored
<1>7. CASE Commit(h)
  <2>1. req[h].kind = "publish" => req[h].path \in Names
    BY <1>7, RequestType DEF Commit, RequestFits
  <2> QED BY <1>7, <2>1 DEF Commit, Goto, Replacing, Stored
<1>8. CASE TakeWriteLock(h) \/ Stage(h) \/ Validate(h) \/ TakeReadLock(h)
           \/ Scan(h) \/ Rebuild(h) \/ IndexUnreadable(h)
  <2>1. Rebuild(h) \/ IndexUnreadable(h) => req[h].kind # "publish"
    BY DEF Rebuild, IndexUnreadable, RequestFits
  <2> QED BY <1>8, <2>1 DEF TakeWriteLock, Stage, Validate, TakeReadLock, Scan, Rebuild,
             IndexUnreadable, Save, Goto, Replacing, Stored
<1>9. ASSUME NEW code, NEW payload, Answer(h, code, payload)
      PROVE  FALSE
  BY <1>9 DEF Answer, Goto, Stored, Replacing
<1>10. ~ Requests(h)
  <2>1. SUFFICES ASSUME NEW r, Arrive(h, r) PROVE FALSE
    BY DEF Requests, ArrivePublish, ArriveRevocations, ArriveDownload, ArriveQuery
  <2>2. CASE Refusal(r) # 0
    BY <1>9, <2>1, <2>2 DEF Arrive
  <2>3. CASE Refusal(r) = 0
    BY <2>1, <2>3 DEF Arrive, FirstStep, Goto, Stored, Replacing
  <2> QED BY <2>2, <2>3
<1>11. ~ (StageFails(h) \/ Stream(h) \/ Reject(h) \/ Reply(h) \/ Snapshot(h) \/ DigestFails(h))
  BY <1>9 DEF StageFails, Stream, Reject, Reply, Snapshot, DigestFails
<1>12. ~ Open(h)
  BY <1>9 DEF Open, Goto, Stored, Replacing
<1>13. ~ Crash
  BY DEF Crash, Booting, Stored, Replacing
<1> QED
  BY <1>1, <1>2, <1>3, <1>4, <1>5, <1>6, <1>7, <1>8, <1>10, <1>11, <1>12, <1>13, OwnStep
     DEF ClientStep, HandlerStep, LockedStep, FaultStep

\* A name is acknowledged when its upload is answered, Stored.
LEMMA AckedStep ==
    ASSUME IInv, Next, NEW n \in acked', n \notin acked
    PROVE  \E h \in Handlers : Stored(h) /\ req[h].path = n
<1> USE DEF histVars
<1>1. ASSUME NEW h \in Handlers, Requests(h)
      PROVE  acked' = acked
  <2>1. \E r : Arrive(h, r)
    BY <1>1 DEF Requests, ArrivePublish, ArriveRevocations, ArriveDownload, ArriveQuery
  <2> QED BY <2>1 DEF Arrive
<1>2. ASSUME NEW h \in Handlers, ClientStep(h) \/ HandlerStep(h) \/ DigestFails(h)
      PROVE  acked' = acked \/ (Reply(h) /\ acked' # acked)
  BY <1>2 DEF ClientStep, HandlerStep, DigestFails, Stage, StageFails, Stream, Validate,
              Reject, Commit, Record, TakeReadLock, Snapshot, Open
<1>3. ASSUME NEW p \in Procs, LockedStep(p) \/ FaultStep(p)
      PROVE  acked' = acked
  BY <1>3
     DEF LockedStep, FaultStep, TakeWriteLock, Scan, Rebuild, ScanLosesTemp, Rename,
         MoveAside, Swap, Restore, Discard, ReleaseWriteLock, RenameFails, PrepareFails,
         MoveAsideFails, SwapFails, RestoreFails, DiscardFails, ScanFails, IndexUnreadable
<1>4. Tick \/ Crash => acked' = acked
  BY DEF Tick, Crash
<1>5. PICK h \in Handlers : Reply(h)
  BY <1>1, <1>2, <1>3, <1>4 DEF Next
<1> QED BY <1>5 DEF IInv, RequestFits, Reply, Stored

\* What was last renamed onto a path is never lost, whatever replacement fails or
\* dies half-way: the path holds it, or a backup of it is in the store.  Every
\* acknowledged artifact has been renamed onto its path.
THEOREM NothingAcknowledgedIsLost == Spec => []AckedBytesSurvive
<1>1. Init => LatestKept /\ StoredKept
  BY BootingFits DEF Init, LatestKept, StoredKept, Kept, Stored, Critical, Replacing
<1>2. IInv /\ LatestKept /\ StoredKept /\ [Next]_vars => LatestKept' /\ StoredKept'
  <2> SUFFICES ASSUME IInv, LatestKept, StoredKept, [Next]_vars
               PROVE  StoredKept'
    BY LatestStep
  <2>1. CASE UNCHANGED vars
    BY <2>1 DEF StoredKept, Stored, Uploading, vars, regVars, histVars
  <2>2. CASE Next
    <3>1. ASSUME NEW h \in Handlers, Stored(h)
          PROVE  req[h].path \in Names /\ latest[req[h].path] # Absent
      BY <3>1, RequestType DEF Stored, StoredKept, IInv, RequestFits, Replacing
    <3>2. ASSUME NEW h \in Handlers, Stored(h)'
          PROVE  latest'[req'[h].path] # Absent
      BY <2>2, <3>1, <3>2, StoredStep, LatestStays DEF Paths
    <3>3. ASSUME NEW n \in acked'
          PROVE  latest'[n] # Absent
      BY <2>2, <3>1, <3>3, AckedStep, LatestStays DEF StoredKept, IInv, TypeOK, Paths
    <3> QED BY <3>2, <3>3 DEF StoredKept
  <2> QED BY <2>1, <2>2
<1>3. LatestKept /\ StoredKept => AckedBytesSurvive
  BY DEF LatestKept, StoredKept, AckedBytesSurvive
<1> QED BY <1>1, <1>2, <1>3, Invariance, PTL DEF Spec

-----------------------------------------------------------------------------
(* Files that are under way: an upload leaves no temporary behind, and a   *)
(* download is never replaced under its reader.                            *)

\* A temporary belongs to an upload that has staged it and has not returned.
TempHeld ==
    \A p \in Procs :
        temp[p] # Absent =>
            /\ Uploading(p)
            /\ pc[p] \notin {"idle", "serving", "stage", "rlock", "read", "stream"}

\* A handler that streams a file holds the read lock, and what it sends is the
\* file at the path it was asked for.
StreamHeld ==
    /\ DOMAIN out = Procs
    /\ \A h \in Handlers :
        pc[h] # "idle" /\ req[h].kind \in {"get", "revget"} => req[h].path # NoPath
    /\ \A h \in Handlers :
        pc[h] = "stream" =>
            /\ ReadLocked(mu, h)
            /\ req[h].kind \in {"get", "revget"}
            /\ out[h] = Contents(req[h].path)

-----------------------------------------------------------------------------
(* Temporaries.                                                            *)

LEMMA TempHandlerStep ==
    ASSUME IInv, TempHeld, NEW h \in Handlers,
           Requests(h) \/ ClientStep(h) \/ HandlerStep(h) \/ DigestFails(h)
    PROVE  TempHeld'
<1> USE DEF IInv, TypeOK, diskVars, regVars, envVars, memVars, Goto
<1> SUFFICES ASSUME NEW p \in Procs, temp'[p] # Absent
             PROVE  /\ Uploading(p)'
                    /\ pc'[p] \notin {"idle", "serving", "stage", "rlock", "read", "stream"}
  BY DEF TempHeld
<1>0. h \in Procs /\ h # Main
  BY ProcessesAssumption DEF Procs
<1>1. CASE p # h
  <2>1. /\ temp'[p] = temp[p] /\ pc'[p] = pc[p] /\ req'[p] = req[p]
    <3>1. CASE Requests(h)
      <4>1. PICK r : Arrive(h, r)
        BY <3>1 DEF Requests, ArrivePublish, ArriveRevocations, ArriveDownload, ArriveQuery
      <4> QED BY <1>0, <1>1, <4>1 DEF Arrive, Answer
    <3>2. CASE ClientStep(h) \/ DigestFails(h)
      BY <1>0, <1>1, <3>2 DEF ClientStep, Stage, StageFails, Stream, DigestFails, Answer
    <3>3. CASE HandlerStep(h)
      <4>1. CASE Validate(h) \/ Reject(h) \/ Commit(h)
        BY <1>0, <1>1, <4>1 DEF Validate, Reject, Commit, Answer
      <4>2. CASE TakeReadLock(h)
        BY <1>0, <1>1, <4>2 DEF TakeReadLock
      <4>5. CASE Record(h)
        BY <1>0, <1>1, <4>5 DEF Record, Save
      <4>4. CASE Reply(h)
        BY <1>0, <1>1, <4>4 DEF Reply, Answer
      <4>3. CASE Snapshot(h) \/ Open(h)
        BY <1>0, <1>1, <4>3 DEF Snapshot, Open, Answer
      <4> QED BY <3>3, <4>1, <4>2, <4>3, <4>4, <4>5 DEF HandlerStep
    <3> QED BY <3>1, <3>2, <3>3
  <2> QED BY <2>1 DEF TempHeld, Uploading
<1>2. CASE p = h
  <2>1. ~ Requests(h)
    <3>1. SUFFICES ASSUME Requests(h) PROVE FALSE
      OBVIOUS
    <3>2. PICK r : Arrive(h, r)
      BY <3>1 DEF Requests, ArrivePublish, ArriveRevocations, ArriveDownload, ArriveQuery
    <3>3. pc[h] = "idle" /\ temp' = temp
      BY <3>2 DEF Arrive
    <3> QED BY <1>0, <1>2, <3>3 DEF TempHeld
  <2>2. CASE Stage(h)
    <3>1. Uploading(h)
      BY <2>2 DEF Stage, RequestFits
    <3> QED BY <1>0, <1>2, <2>2, <3>1 DEF Stage, Uploading
  <2>3. ~ StageFails(h) /\ ~ Stream(h) /\ ~ DigestFails(h) /\ ~ Reject(h) /\ ~ Reply(h)
    BY <1>0, <1>2 DEF StageFails, Stream, DigestFails, Reject, Reply, TempHeld
  <2>4. ~ TakeReadLock(h) /\ ~ Snapshot(h) /\ ~ Open(h)
    BY <1>0, <1>2 DEF TakeReadLock, Snapshot, Open, TempHeld
  <2>5. CASE Validate(h) \/ Commit(h) \/ Record(h)
    BY <1>0, <1>2, <2>5 DEF Validate, Commit, Record, Save, TempHeld, Uploading
  <2> QED BY <2>1, <2>2, <2>3, <2>4, <2>5 DEF ClientStep, HandlerStep
<1> QED BY <1>1, <1>2

LEMMA TempLockedStep ==
    ASSUME IInv, TempHeld, NEW q \in Procs, LockedStep(q) \/ FaultStep(q)
    PROVE  TempHeld'
<1> USE DEF IInv, TypeOK, diskVars, regVars, envVars, memVars, Goto
<1> SUFFICES ASSUME NEW p \in Procs, temp'[p] # Absent
             PROVE  /\ Uploading(p)'
                    /\ pc'[p] \notin {"idle", "serving", "stage", "rlock", "read", "stream"}
  BY DEF TempHeld
<1>1. /\ temp[p] = temp'[p] /\ req'[p] = req[p]
      /\ pc'[p] = pc[p] \/ p = q
  <2>1. CASE TakeWriteLock(q) \/ Scan(q) \/ Rebuild(q) \/ ScanLosesTemp(q)
    BY <2>1 DEF TakeWriteLock, Scan, Rebuild, ScanLosesTemp, Save, Fails
  <2>2. CASE Rename(q) \/ Swap(q)
    BY <2>2 DEF Rename, Swap
  <2>3. CASE MoveAside(q) \/ Restore(q) \/ Discard(q) \/ ReleaseWriteLock(q)
    BY <2>3 DEF MoveAside, Restore, Discard, ReleaseWriteLock
  <2>4. CASE RenameFails(q) \/ PrepareFails(q) \/ MoveAsideFails(q) \/ SwapFails(q)
    BY <2>4 DEF RenameFails, PrepareFails, MoveAsideFails, SwapFails, Fails
  <2>5. CASE RestoreFails(q) \/ DiscardFails(q) \/ ScanFails(q) \/ IndexUnreadable(q)
    BY <2>5 DEF RestoreFails, DiscardFails, ScanFails, IndexUnreadable, Strand, Fails, Save
  <2> QED BY <2>1, <2>2, <2>3, <2>4, <2>5 DEF LockedStep, FaultStep
<1>2. Uploading(p) /\ pc[p] \notin {"idle", "serving", "stage", "rlock", "read", "stream"}
  BY <1>1 DEF TempHeld
<1>3. Uploading(p)'
  BY <1>1, <1>2 DEF Uploading
<1>4. CASE p = q
  <2>1. pc'[q] \in Labels \ {"idle", "serving", "stage", "rlock", "read", "stream"}
    <3>1. CASE TakeWriteLock(q) \/ Scan(q) \/ Rebuild(q) \/ ScanLosesTemp(q)
      BY <3>1 DEF TakeWriteLock, Scan, Rebuild, ScanLosesTemp, Save, Fails, Labels
    <3>2. CASE Rename(q) \/ Swap(q) \/ MoveAside(q) \/ Restore(q) \/ Discard(q)
      BY <3>2 DEF Rename, Swap, MoveAside, Restore, Discard, AfterReplace, Labels
    <3>3. CASE ReleaseWriteLock(q)
      BY <1>2, <1>4, <3>3 DEF ReleaseWriteLock, Uploading, Labels
    <3>4. CASE RenameFails(q) \/ PrepareFails(q) \/ MoveAsideFails(q) \/ SwapFails(q)
      BY <3>4 DEF RenameFails, PrepareFails, MoveAsideFails, SwapFails, Fails, Labels
    <3>5. CASE RestoreFails(q) \/ DiscardFails(q) \/ ScanFails(q) \/ IndexUnreadable(q)
      BY <3>5 DEF RestoreFails, DiscardFails, ScanFails, IndexUnreadable, Fails, Save, Labels
    <3> QED BY <3>1, <3>2, <3>3, <3>4, <3>5 DEF LockedStep, FaultStep
  <2> QED BY <1>3, <1>4, <2>1
<1> QED BY <1>1, <1>2, <1>3, <1>4

LEMMA TempStep == IInv /\ TempHeld /\ [Next]_vars => TempHeld'
<1> SUFFICES ASSUME IInv, TempHeld, [Next]_vars PROVE TempHeld'
  OBVIOUS
<1>1. ASSUME NEW h \in Handlers,
             Requests(h) \/ ClientStep(h) \/ HandlerStep(h) \/ DigestFails(h)
      PROVE  TempHeld'
  BY <1>1, TempHandlerStep
<1>2. ASSUME NEW p \in Procs, LockedStep(p) \/ FaultStep(p) PROVE TempHeld'
  BY <1>2, TempLockedStep
<1>3. CASE Tick
  BY <1>3 DEF Tick, TempHeld, Uploading, diskVars, regVars
<1>4. CASE Crash
  BY <1>4 DEF Crash, TempHeld, Nothing
<1>5. CASE UNCHANGED vars
  BY <1>5 DEF vars, TempHeld, Uploading, diskVars, regVars
<1> QED BY <1>1, <1>2, <1>3, <1>4, <1>5 DEF Next

\* An upload leaves no temporary behind, on any of its error paths: what it has
\* staged is renamed into the store or removed before its handler returns.
THEOREM NothingStagedIsLeft == Spec => []NoUploadLeft
<1>1. Init => TempHeld
  BY DEF Init, TempHeld, Nothing
<1>2. TempHeld => NoUploadLeft
  BY DEF TempHeld, NoUploadLeft
<1> QED BY <1>1, <1>2, TempStep, Invariance, PTL DEF Spec

-----------------------------------------------------------------------------
(* Downloads.                                                              *)

\* A step of one process leaves another handler where it is, with its request
\* and its read lock.
LEMMA OthersStay ==
    ASSUME IInv, DOMAIN out = Procs, NEW p \in Procs, NEW h \in Handlers, h # p,
           \/ LockedStep(p) \/ FaultStep(p)
           \/ /\ p \in Handlers
              /\ Requests(p) \/ ClientStep(p) \/ HandlerStep(p) \/ DigestFails(p)
    PROVE  /\ pc'[h] = pc[h] /\ req'[h] = req[h] /\ out'[h] = out[h]
           /\ ReadLocked(mu, h) => ReadLocked(mu', h)
<1> USE DEF IInv, TypeOK, diskVars, regVars, envVars, memVars, Goto
<1>0. h \in Procs
  BY DEF Procs
<1>1. CASE LockedStep(p)
  <2>1. CASE TakeWriteLock(p)
    BY <1>0, <2>1 DEF TakeWriteLock, Lock, ReadLocked
  <2>2. CASE ReleaseWriteLock(p)
    BY <1>0, <2>2 DEF ReleaseWriteLock, Unlock, ReadLocked
  <2>3. CASE Scan(p) \/ Rebuild(p) \/ ScanLosesTemp(p)
    BY <1>0, <2>3 DEF Scan, Rebuild, ScanLosesTemp, Save, Fails
  <2>4. CASE Rename(p) \/ MoveAside(p) \/ Swap(p) \/ Restore(p) \/ Discard(p)
    BY <1>0, <2>4 DEF Rename, MoveAside, Swap, Restore, Discard
  <2> QED BY <1>1, <2>1, <2>2, <2>3, <2>4 DEF LockedStep
<1>2. CASE FaultStep(p)
  <2>1. CASE RenameFails(p) \/ PrepareFails(p) \/ MoveAsideFails(p) \/ SwapFails(p)
    BY <1>0, <2>1 DEF RenameFails, PrepareFails, MoveAsideFails, SwapFails, Fails
  <2>2. CASE RestoreFails(p) \/ DiscardFails(p) \/ ScanFails(p) \/ IndexUnreadable(p)
    BY <1>0, <2>2 DEF RestoreFails, DiscardFails, ScanFails, IndexUnreadable, Fails, Save
  <2> QED BY <1>2, <2>1, <2>2 DEF FaultStep
<1>3. CASE p \in Handlers /\ Requests(p)
  <2>1. PICK r : Arrive(p, r)
    BY <1>3 DEF Requests, ArrivePublish, ArriveRevocations, ArriveDownload, ArriveQuery
  <2> QED BY <1>0, <2>1 DEF Arrive, Answer
<1>4. CASE p \in Handlers /\ (ClientStep(p) \/ DigestFails(p))
  BY <1>0, <1>4 DEF ClientStep, Stage, StageFails, Stream, DigestFails, Answer, Leave,
     RUnlock, ReadLocked
<1>5. CASE p \in Handlers /\ HandlerStep(p)
  <2>1. CASE Validate(p) \/ Reject(p) \/ Commit(p) \/ Record(p) \/ Reply(p)
    BY <1>0, <2>1 DEF Validate, Reject, Commit, Record, Save, Reply, Answer
  <2>2. CASE TakeReadLock(p)
    BY <1>0, <2>2 DEF TakeReadLock, RLock, ReadLocked
  <2>3. CASE Snapshot(p) \/ Open(p)
    BY <1>0, <2>3 DEF Snapshot, Open, Answer, Leave, HoldReadLock, RUnlock, ReadLocked
  <2> QED BY <1>5, <2>1, <2>2, <2>3 DEF HandlerStep
<1> QED BY <1>1, <1>2, <1>3, <1>4, <1>5

\* While a handler streams a file nobody holds the lock alone, so the file stays.
LEMMA StreamedFileStays ==
    ASSUME IInv, StreamHeld, Next, NEW h \in Handlers, pc[h] = "stream"
    PROVE  /\ req[h].path \in Names \cup Issuers
           /\ disk'[req[h].path] = disk[req[h].path]
<1>1. req[h].path \in Names \cup Issuers
  <2>1. req[h] \in Request /\ req[h].kind \in {"get", "revget"} /\ req[h].path # NoPath
    BY DEF IInv, RequestFits, StreamHeld
  <2> QED BY <2>1 DEF Request
<1>2. ASSUME disk'[req[h].path] # disk[req[h].path] PROVE FALSE
  <2>1. PICK g \in Handlers : pc[g] \in Replacing
    BY <1>1, <1>2, DiskChange
  <2>2. WriteLocked(mu, g)
    BY <2>1 DEF IInv, Locking, Critical, Procs
  <2>3. h \in mu.readers
    BY DEF StreamHeld, ReadLocked
  <2> QED BY <2>2, <2>3 DEF WriteLocked
<1> QED BY <1>1, <1>2

\* The handler's own steps.
LEMMA OwnStream ==
    ASSUME IInv, StreamHeld, NEW h \in Handlers,
           \/ LockedStep(h) \/ FaultStep(h)
           \/ Requests(h) \/ ClientStep(h) \/ HandlerStep(h) \/ DigestFails(h)
    PROVE  /\ pc'[h] # "idle" /\ req'[h].kind \in {"get", "revget"} => req'[h].path # NoPath
           /\ pc'[h] = "stream" => /\ ReadLocked(mu', h)
                                  /\ req'[h].kind \in {"get", "revget"}
                                  /\ out'[h] = Contents(req[h].path)
                                  /\ req'[h] = req[h] /\ disk' = disk
<1> USE DEF IInv, TypeOK, diskVars, regVars, envVars, memVars, Goto
<1>0. h \in Procs /\ h # Main
  BY ProcessesAssumption DEF Procs
<1>1. CASE Requests(h)
  <2>1. PICK r : Arrive(h, r)
    BY <1>1 DEF Requests, ArrivePublish, ArriveRevocations, ArriveDownload, ArriveQuery
  <2>2. CASE Refusal(r) # 0
    BY <1>0, <2>1, <2>2 DEF Arrive, Answer
  <2>3. CASE Refusal(r) = 0
    <3>1. req'[h] = r /\ pc'[h] = FirstStep(r.kind)
      BY <1>0, <2>1, <2>3 DEF Arrive
    <3>2. r.kind \in {"get", "revget"} => r.path # NoPath
      BY <2>3 DEF Refusal
    <3>3. FirstStep(r.kind) # "stream"
      BY DEF FirstStep
    <3> QED BY <3>1, <3>2, <3>3
  <2> QED BY <2>2, <2>3
<1>2. CASE ClientStep(h) \/ DigestFails(h)
  BY <1>0, <1>2 DEF ClientStep, Stage, StageFails, Stream, DigestFails, Answer, StreamHeld
<1>3. CASE Open(h)
  BY <1>0, <1>3 DEF Open, Answer, HoldReadLock, StreamHeld
<1>4. CASE Validate(h) \/ Reject(h) \/ Commit(h) \/ Record(h) \/ Reply(h)
  BY <1>0, <1>4 DEF Validate, Reject, Commit, Record, Save, Reply, Answer, StreamHeld
<1>5. CASE TakeReadLock(h) \/ Snapshot(h)
  BY <1>0, <1>5 DEF TakeReadLock, Snapshot, Answer, StreamHeld
<1>6. CASE LockedStep(h)
  <2>1. CASE TakeWriteLock(h) \/ Scan(h) \/ Rebuild(h) \/ ScanLosesTemp(h)
    BY <1>0, <2>1 DEF TakeWriteLock, Scan, Rebuild, ScanLosesTemp, Save, Fails, StreamHeld
  <2>2. CASE Rename(h) \/ MoveAside(h) \/ Swap(h) \/ Restore(h) \/ Discard(h)
    BY <1>0, <2>2 DEF Rename, MoveAside, Swap, Restore, Discard, AfterReplace, StreamHeld
  <2>3. CASE ReleaseWriteLock(h)
    BY <1>0, <2>3 DEF ReleaseWriteLock, StreamHeld
  <2> QED BY <1>6, <2>1, <2>2, <2>3 DEF LockedStep
<1>7. CASE FaultStep(h)
  <2>1. CASE RenameFails(h) \/ PrepareFails(h) \/ MoveAsideFails(h) \/ SwapFails(h)
    BY <1>0, <2>1 DEF RenameFails, PrepareFails, MoveAsideFails, SwapFails, Fails, StreamHeld
  <2>2. CASE RestoreFails(h) \/ DiscardFails(h) \/ ScanFails(h) \/ IndexUnreadable(h)
    BY <1>0, <2>2 DEF RestoreFails, DiscardFails, ScanFails, IndexUnreadable, Fails, Save, StreamHeld
  <2> QED BY <1>7, <2>1, <2>2 DEF FaultStep
<1> QED BY <1>1, <1>2, <1>3, <1>4, <1>5, <1>6, <1>7 DEF HandlerStep

LEMMA OutStep ==
    ASSUME IInv, DOMAIN out = Procs, [Next]_vars
    PROVE  DOMAIN out' = Procs
<1> USE DEF regVars
<1>1. ASSUME NEW h \in Handlers, Requests(h) PROVE DOMAIN out' = Procs
  <2>1. PICK r : Arrive(h, r)
    BY <1>1 DEF Requests, ArrivePublish, ArriveRevocations, ArriveDownload, ArriveQuery
  <2> QED BY <2>1 DEF Arrive, Answer
<1>2. ASSUME NEW h \in Handlers, ClientStep(h) \/ HandlerStep(h) \/ DigestFails(h)
      PROVE  DOMAIN out' = Procs
  BY <1>2 DEF ClientStep, Stage, StageFails, Stream, DigestFails, HandlerStep, Validate,
     Reject, Commit, Record, Save, Reply, TakeReadLock, Snapshot, Open, Answer
<1>3. ASSUME NEW p \in Procs, LockedStep(p) \/ FaultStep(p) PROVE out' = out
  BY <1>3 DEF LockedStep, TakeWriteLock, Scan, Rebuild, ScanLosesTemp, Save, Fails, Rename,
     MoveAside, Swap, Restore, Discard, ReleaseWriteLock, FaultStep, RenameFails,
     PrepareFails, MoveAsideFails, SwapFails, RestoreFails, DiscardFails, ScanFails,
     IndexUnreadable
<1>4. CASE Tick \/ UNCHANGED vars
  BY <1>4 DEF Tick, vars
<1>5. CASE Crash
  BY <1>5 DEF Crash, Nothing
<1> QED BY <1>1, <1>2, <1>3, <1>4, <1>5 DEF Next

LEMMA StreamHeldStep == IInv /\ StreamHeld /\ [Next]_vars => StreamHeld'
<1> SUFFICES ASSUME IInv, StreamHeld, [Next]_vars PROVE StreamHeld'
  OBVIOUS
<1>0. DOMAIN out' = Procs
  BY OutStep DEF StreamHeld
<1>1. CASE UNCHANGED vars
  BY <1>1 DEF vars, StreamHeld, Contents, ReadLocked, diskVars, regVars, memVars
<1>2. CASE Crash
  <2>1. \A h \in Handlers : pc'[h] = "idle"
    BY <1>2, ProcessesAssumption DEF Crash, Booting, Procs
  <2> QED BY <1>0, <2>1 DEF StreamHeld
<1>3. CASE Tick
  BY <1>3 DEF Tick, StreamHeld, Contents, ReadLocked, diskVars, regVars, memVars
<1>4. ASSUME NEW p \in Procs,
             \/ LockedStep(p) \/ FaultStep(p)
             \/ /\ p \in Handlers
                /\ Requests(p) \/ ClientStep(p) \/ HandlerStep(p) \/ DigestFails(p)
      PROVE  StreamHeld'
  <2> SUFFICES ASSUME NEW h \in Handlers
               PROVE  /\ pc'[h] # "idle" /\ req'[h].kind \in {"get", "revget"}
                            => req'[h].path # NoPath
                      /\ pc'[h] = "stream" => /\ ReadLocked(mu', h)
                                             /\ req'[h].kind \in {"get", "revget"}
                                             /\ out'[h] = Contents(req[h].path)'
    BY <1>0 DEF StreamHeld
  <2>1. CASE h # p
    <3>1. /\ pc'[h] = pc[h] /\ req'[h] = req[h] /\ out'[h] = out[h]
          /\ ReadLocked(mu, h) => ReadLocked(mu', h)
      BY <1>4, <2>1, OthersStay DEF StreamHeld
    <3>2. Next
      BY <1>4 DEF Next
    <3>3. pc[h] = "stream" => disk'[req[h].path] = disk[req[h].path]
      BY <3>2, StreamedFileStays
    <3> QED BY <3>1, <3>3 DEF StreamHeld, Contents
  <2>2. CASE h = p
    BY <1>4, <2>2, OwnStream DEF Contents
  <2> QED BY <2>1, <2>2
<1> QED BY <1>1, <1>2, <1>3, <1>4 DEF Next, Procs

\* A download is never replaced under its reader: what a handler streams is the
\* file at that path until the last byte has been read.
THEOREM DownloadsAreStable == Spec => []StreamStable
<1>1. Init => StreamHeld
  BY ProcessesAssumption DEF Init, StreamHeld, Booting, Nothing, Procs
<1>2. StreamHeld => StreamStable
  BY DEF StreamHeld, StreamStable
<1> QED BY <1>1, <1>2, StreamHeldStep, Invariance, PTL DEF Spec
-----------------------------------------------------------------------------
(* Waiting for the lock.                                                   *)

\* What a step of p does to the lock, and where it takes p.
LockUse(p) ==
    \/ /\ mu' = mu
       /\ (pc'[p] \in Writing) <=> (pc[p] \in Writing)
       /\ (pc'[p] \in Reading) <=> (pc[p] \in Reading)
       /\ pc'[p] = "stream" => ReadLocked(mu, p)
    \/ /\ mu' = Lock(mu, p)
       /\ pc[p] \notin Writing \cup Reading /\ pc'[p] \in Writing
    \/ /\ mu' = Unlock(mu) /\ WriteLocked(mu, p)
       /\ pc[p] \in Writing /\ pc'[p] \notin Writing \cup Reading
    \/ /\ mu' = RLock(mu, p)
       /\ pc[p] \notin Writing \cup Reading /\ pc'[p] = "read"
    \/ /\ mu' = RUnlock(mu, p) /\ ReadLocked(mu, p)
       /\ pc[p] \in Reading /\ pc'[p] \notin Writing \cup Reading

LEMMA StepUsesLock ==
    ASSUME IInv, Queued, NEW p \in Procs,
           \/ LockedStep(p) \/ FaultStep(p)
           \/ /\ p \in Handlers
              /\ Requests(p) \/ ClientStep(p) \/ HandlerStep(p) \/ DigestFails(p)
    PROVE  LockUse(p) /\ \A q \in Procs : q # p => pc'[q] = pc[q]
<1> USE DEF IInv, TypeOK, diskVars, regVars, envVars, memVars, Goto, LockUse,
            Writing, Reading, Critical, Replacing
<1>1. CASE LockedStep(p)
  <2>1. CASE TakeWriteLock(p)
    BY <2>1 DEF TakeWriteLock
  <2>2. CASE ReleaseWriteLock(p)
    BY <2>2 DEF ReleaseWriteLock, Locking
  <2>3. CASE Scan(p) \/ Rebuild(p) \/ ScanLosesTemp(p)
    BY <2>3 DEF Scan, Rebuild, ScanLosesTemp, Save, Fails
  <2>4. CASE Rename(p) \/ MoveAside(p) \/ Swap(p) \/ Restore(p) \/ Discard(p)
    BY <2>4 DEF Rename, MoveAside, Swap, Restore, Discard, AfterReplace
  <2> QED BY <1>1, <2>1, <2>2, <2>3, <2>4 DEF LockedStep
<1>2. CASE FaultStep(p)
  <2>1. CASE RenameFails(p) \/ PrepareFails(p) \/ MoveAsideFails(p) \/ SwapFails(p)
    BY <2>1 DEF RenameFails, PrepareFails, MoveAsideFails, SwapFails, Fails
  <2>2. CASE RestoreFails(p) \/ DiscardFails(p) \/ ScanFails(p) \/ IndexUnreadable(p)
    BY <2>2 DEF RestoreFails, DiscardFails, ScanFails, IndexUnreadable, Fails, Save
  <2> QED BY <1>2, <2>1, <2>2 DEF FaultStep
<1>3. CASE p \in Handlers /\ Requests(p)
  <2>1. PICK r : Arrive(p, r)
    BY <1>3 DEF Requests, ArrivePublish, ArriveRevocations, ArriveDownload, ArriveQuery
  <2>2. FirstStep(r.kind) \in {"stage", "lock", "rlock"}
    BY DEF FirstStep
  <2> QED BY <2>1, <2>2 DEF Arrive, Answer
<1>4. CASE p \in Handlers /\ (ClientStep(p) \/ DigestFails(p))
  <2>1. CASE Stream(p)
    BY <2>1 DEF Stream, Answer, Leave, Queued, ReadLocked
  <2> QED BY <1>4, <2>1 DEF ClientStep, Stage, StageFails, DigestFails, Answer
<1>5. CASE p \in Handlers /\ HandlerStep(p)
  <2>1. CASE Validate(p) \/ Reject(p) \/ Commit(p) \/ Record(p) \/ Reply(p)
    BY <2>1 DEF Validate, Reject, Commit, Record, Save, Reply, Answer
  <2>2. CASE TakeReadLock(p)
    BY <2>2 DEF TakeReadLock
  <2>3. CASE Snapshot(p) \/ Open(p)
    BY <2>3 DEF Snapshot, Open, Answer, Leave, HoldReadLock
  <2> QED BY <1>5, <2>1, <2>2, <2>3 DEF HandlerStep
<1> QED BY <1>1, <1>2, <1>3, <1>4, <1>5

\* A process joins the queue of writers, at its end.
LEMMA JoinQueue ==
    ASSUME Queued, mu \in LockType, NEW p \in Procs, pc[p] \notin Writing,
           NEW W, W = Append(mu.writers, p)
    PROVE  /\ W # <<>>
           /\ \A j, k \in DOMAIN W : W[j] = W[k] => j = k
           /\ \A q \in Procs :
                 (\E k \in DOMAIN W : W[k] = q) <=> (q = p \/ pc[q] \in Writing)
<1>1. PICK n \in Nat : n = Len(mu.writers) /\ DOMAIN mu.writers = 1 .. n
  BY DEF LockType
<1>2. /\ DOMAIN W = 1 .. n + 1 /\ W[n + 1] = p /\ \A k \in 1 .. n : W[k] = mu.writers[k]
      /\ n + 1 \in 1 .. n + 1 /\ \A k \in 1 .. n + 1 : k = n + 1 \/ k \in 1 .. n
  BY <1>1 DEF LockType
<1>3. \A k \in 1 .. n : mu.writers[k] # p
  BY <1>1 DEF Queued
<1>4. W # <<>>
  BY DEF LockType
<1>5. ASSUME NEW j \in DOMAIN W, NEW k \in DOMAIN W, W[j] = W[k] PROVE j = k
  BY <1>1, <1>2, <1>3, <1>5 DEF Queued
<1>6. ASSUME NEW q \in Procs
      PROVE  (\E k \in DOMAIN W : W[k] = q) <=> (q = p \/ pc[q] \in Writing)
  <2>1. (\E k \in 1 .. n : mu.writers[k] = q) <=> (pc[q] \in Writing)
    BY <1>1 DEF Queued
  <2>2. (\E k \in 1 .. n + 1 : W[k] = q) <=> (q = p \/ \E k \in 1 .. n : mu.writers[k] = q)
    BY <1>2
  <2> QED BY <1>2, <2>1, <2>2
<1> QED BY <1>4, <1>5, <1>6

\* Its owner leaves it, at its head.
LEMMA LeaveQueue ==
    ASSUME Queued, mu \in LockType, NEW p \in Procs, WriteLocked(mu, p),
           NEW W, W = Tail(mu.writers)
    PROVE  /\ \A j, k \in DOMAIN W : W[j] = W[k] => j = k
           /\ \A q \in Procs :
                 (\E k \in DOMAIN W : W[k] = q) <=> (q # p /\ pc[q] \in Writing)
<1>1. PICK n \in Nat : n = Len(mu.writers) /\ DOMAIN mu.writers = 1 .. n
  BY DEF LockType
<1>2. n > 0 /\ mu.writers[1] = p
  BY <1>1 DEF WriteLocked, LockType
<1>3. DOMAIN W = 1 .. n - 1 /\ \A k \in 1 .. n - 1 : W[k] = mu.writers[k + 1]
  BY <1>1, <1>2 DEF LockType
<1>4. \A k \in 1 .. n - 1 : k + 1 \in 1 .. n /\ k + 1 # 1
  OBVIOUS
<1>5. \A j, k \in 1 .. n : mu.writers[j] = mu.writers[k] => j = k
  BY <1>1 DEF Queued
<1>6. ASSUME NEW j \in DOMAIN W, NEW k \in DOMAIN W, W[j] = W[k] PROVE j = k
  <2>1. j \in 1 .. n - 1 /\ k \in 1 .. n - 1 /\ mu.writers[j + 1] = mu.writers[k + 1]
    BY <1>3, <1>6
  <2>2. j + 1 = k + 1
    BY <1>4, <1>5, <2>1
  <2> QED BY <2>1, <2>2
<1>7. ASSUME NEW q \in Procs
      PROVE  (\E k \in DOMAIN W : W[k] = q) <=> (q # p /\ pc[q] \in Writing)
  <2>1. (\E k \in 1 .. n : mu.writers[k] = q) <=> (pc[q] \in Writing)
    BY <1>1 DEF Queued
  <2>2. ASSUME NEW k \in 1 .. n - 1, W[k] = q PROVE q # p /\ pc[q] \in Writing
    <3>1. k + 1 \in 1 .. n /\ k + 1 # 1 /\ mu.writers[k + 1] = q /\ 1 \in 1 .. n
      BY <1>2, <1>3, <1>4, <2>2
    <3>2. q # p
      BY <1>2, <1>5, <3>1
    <3> QED BY <2>1, <3>1, <3>2
  <2>3. ASSUME q # p, pc[q] \in Writing PROVE \E k \in 1 .. n - 1 : W[k] = q
    <3>1. PICK j \in 1 .. n : mu.writers[j] = q
      BY <2>1, <2>3
    <3>2. j # 1
      BY <1>2, <2>3, <3>1
    <3>3. PICK k \in 1 .. n - 1 : j = k + 1
      <4>1. j - 1 \in 1 .. n - 1 /\ j = (j - 1) + 1
        BY <3>2
      <4> QED BY <4>1
    <3> QED BY <1>3, <3>1, <3>3
  <2> QED BY <1>3, <2>2, <2>3
<1> QED BY <1>6, <1>7

LEMMA QueuedStep == IInv /\ Queued /\ [Next]_vars => Queued'
<1> SUFFICES ASSUME IInv, Queued, [Next]_vars PROVE Queued'
  OBVIOUS
<1>0. mu \in LockType
  BY DEF IInv, TypeOK, LockType
<1>1. CASE Tick \/ UNCHANGED vars
  BY <1>1 DEF Tick, vars, memVars, Queued
<1>2. CASE Crash
  BY <1>2 DEF Crash, Free, Booting, Queued, Writing, Reading, Critical, Replacing
<1>3. ASSUME NEW p \in Procs,
             \/ LockedStep(p) \/ FaultStep(p)
             \/ /\ p \in Handlers
                /\ Requests(p) \/ ClientStep(p) \/ HandlerStep(p) \/ DigestFails(p)
      PROVE  Queued'
  <2>1. LockUse(p) /\ \A q \in Procs : q # p => pc'[q] = pc[q]
    BY <1>3, StepUsesLock
  <2>2. \A l : l \in Writing => l \notin Reading
    BY DEF Writing, Reading, Critical, Replacing
  <2>3. CASE /\ mu' = mu
             /\ (pc'[p] \in Writing) <=> (pc[p] \in Writing)
             /\ (pc'[p] \in Reading) <=> (pc[p] \in Reading)
             /\ pc'[p] = "stream" => ReadLocked(mu, p)
    BY <2>1, <2>3 DEF Queued, ReadLocked
  <2>4. CASE /\ mu' = Lock(mu, p)
             /\ pc[p] \notin Writing \cup Reading /\ pc'[p] \in Writing
    <3>1. /\ mu'.writers = Append(mu.writers, p)
          /\ mu'.readers = mu.readers /\ mu'.parked = mu.parked
      BY <1>0, <2>4 DEF Lock, LockType
    <3>2. /\ mu'.writers # <<>>
          /\ \A j, k \in DOMAIN mu'.writers : mu'.writers[j] = mu'.writers[k] => j = k
          /\ \A q \in Procs :
                (\E k \in DOMAIN mu'.writers : mu'.writers[k] = q) <=> (q = p \/ pc[q] \in Writing)
      BY <1>0, <2>4, <3>1, JoinQueue
    <3>3. pc'[p] # "stream" /\ pc'[p] \notin Reading
      BY <2>2, <2>4 DEF Reading
    <3> QED BY <2>1, <2>4, <3>1, <3>2, <3>3 DEF Queued
  <2>5. CASE /\ mu' = Unlock(mu) /\ WriteLocked(mu, p)
             /\ pc[p] \in Writing /\ pc'[p] \notin Writing \cup Reading
    <3>1. /\ mu'.writers = Tail(mu.writers)
          /\ mu'.readers = mu.readers \cup mu.parked /\ mu'.parked = {}
      BY <1>0, <2>5 DEF Unlock, LockType
    <3>2. /\ \A j, k \in DOMAIN mu'.writers : mu'.writers[j] = mu'.writers[k] => j = k
          /\ \A q \in Procs :
                (\E k \in DOMAIN mu'.writers : mu'.writers[k] = q) <=> (q # p /\ pc[q] \in Writing)
      BY <1>0, <2>5, <3>1, LeaveQueue
    <3>3. pc'[p] # "stream" /\ pc[p] \notin Reading
      BY <2>2, <2>5 DEF Reading
    <3> QED BY <2>1, <2>5, <3>1, <3>2, <3>3 DEF Queued
  <2>6. CASE /\ mu' = RLock(mu, p)
             /\ pc[p] \notin Writing \cup Reading /\ pc'[p] = "read"
    <3>1. pc'[p] \in Reading /\ pc'[p] \notin Writing /\ pc'[p] # "stream"
      BY <2>2, <2>6 DEF Reading
    <3>2. /\ mu'.writers = mu.writers
          /\ \/ mu.writers = <<>> /\ mu'.readers = mu.readers \cup {p} /\ mu'.parked = mu.parked
             \/ mu.writers # <<>> /\ mu'.readers = mu.readers /\ mu'.parked = mu.parked \cup {p}
      BY <1>0, <2>6 DEF RLock, LockType
    <3> QED BY <2>1, <2>6, <3>1, <3>2 DEF Queued
  <2>7. CASE /\ mu' = RUnlock(mu, p) /\ ReadLocked(mu, p)
             /\ pc[p] \in Reading /\ pc'[p] \notin Writing \cup Reading
    <3>1. /\ mu'.writers = mu.writers
          /\ mu'.readers = mu.readers \ {p} /\ mu'.parked = mu.parked
      BY <1>0, <2>7 DEF RUnlock, LockType
    <3>2. pc'[p] # "stream" /\ pc[p] \notin Writing /\ p \in mu.readers
      BY <2>2, <2>7 DEF Reading, ReadLocked
    <3> QED BY <2>1, <2>7, <3>1, <3>2 DEF Queued
  <2> QED BY <2>1, <2>3, <2>4, <2>5, <2>6, <2>7 DEF LockUse
<1> QED BY <1>1, <1>2, <1>3 DEF Next, Procs

LEMMA InitQueued == Init => Queued
BY DEF Init, Free, Booting, Queued, Writing, Reading, Critical, Replacing

\* Whoever waits for the lock waits for a process that will give it back, for
\* any number of handlers: no mix of uploads, reloads, listings and downloads,
\* of failing system calls and restarts, loses the lock or parks a reader for
\* good.
THEOREM LockIsNeverLost == Spec => []NoLockLost
<1>1. IInv /\ Queued => NoLockLost
  <2> SUFFICES ASSUME IInv, Queued, NEW p \in Procs, Waits(p)
               PROVE  \E q \in Procs : Holds(q)
    BY DEF NoLockLost
  <2>0. mu \in LockType
    BY DEF IInv, TypeOK, LockType
  <2>1. CASE mu.readers # {}
    <3>1. PICK q \in Procs : q \in mu.readers
      BY <2>0, <2>1 DEF LockType
    <3> QED BY <3>1 DEF Queued, Holds, ReadLocked
  <2>2. CASE mu.readers = {}
    <3>1. mu.writers # <<>>
      <4>1. CASE pc[p] = "locked"
        <5>1. \E k \in DOMAIN mu.writers : mu.writers[k] = p
          BY <4>1 DEF Queued, Writing
        <5> QED BY <5>1
      <4>2. CASE pc[p] = "read"
        BY <2>2, <4>2 DEF Queued, Reading
      <4> QED BY <4>1, <4>2 DEF Waits
    <3>2. PICK q \in Procs : q = Head(mu.writers) /\ 1 \in DOMAIN mu.writers /\ mu.writers[1] = q
      BY <2>0, <3>1 DEF LockType
    <3>3. pc[q] \in Writing /\ WriteLocked(mu, q)
      BY <2>2, <3>1, <3>2 DEF Queued, WriteLocked
    <3> QED BY <3>3 DEF Holds
  <2> QED BY <2>1, <2>2
<1> QED BY <1>1, InitQueued, QueuedStep, Invariance, PTL DEF Spec

\* Its owner's steps lead to Unlock, one after the other.
LEMMA OwnLocked ==
    ASSUME IInv, NEW p \in Procs, pc[p] \in Writing,
           \/ LockedStep(p) \/ FaultStep(p)
           \/ /\ p \in Handlers
              /\ Requests(p) \/ ClientStep(p) \/ HandlerStep(p) \/ DigestFails(p)
    PROVE  \/ pc[p] = "unlock" /\ mu' = Unlock(mu)
           \/ pc'[p] \in Writing /\ StepsToUnlock(p)' < StepsToUnlock(p)
<1> USE DEF IInv, TypeOK, diskVars, regVars, envVars, memVars, Goto, StepsToUnlock,
            Writing, Critical, Replacing
<1>1. CASE LockedStep(p)
  <2>1. CASE TakeWriteLock(p) \/ ReleaseWriteLock(p)
    BY <2>1 DEF TakeWriteLock, ReleaseWriteLock
  <2>2. CASE Scan(p) \/ Rebuild(p) \/ ScanLosesTemp(p)
    BY <2>2 DEF Scan, Rebuild, ScanLosesTemp, Save, Fails
  <2>3. CASE Rename(p)
    BY <2>3 DEF Rename, AfterReplace
  <2>4. CASE MoveAside(p) \/ Swap(p)
    BY <2>4 DEF MoveAside, Swap
  <2>5. CASE Restore(p)
    BY <2>5 DEF Restore
  <2>6. CASE Discard(p)
    BY <2>6 DEF Discard, AfterReplace
  <2> QED BY <1>1, <2>1, <2>2, <2>3, <2>4, <2>5, <2>6 DEF LockedStep
<1>2. CASE FaultStep(p)
  <2>1. CASE RenameFails(p) \/ PrepareFails(p) \/ MoveAsideFails(p) \/ SwapFails(p)
    BY <2>1 DEF RenameFails, PrepareFails, MoveAsideFails, SwapFails, Fails
  <2>2. CASE RestoreFails(p) \/ DiscardFails(p) \/ ScanFails(p) \/ IndexUnreadable(p)
    BY <2>2 DEF RestoreFails, DiscardFails, ScanFails, IndexUnreadable, Fails, Save
  <2> QED BY <1>2, <2>1, <2>2 DEF FaultStep
<1>3. CASE p \in Handlers /\ Requests(p)
  BY <1>3 DEF Requests, ArrivePublish, ArriveRevocations, ArriveDownload, ArriveQuery, Arrive
<1>4. CASE p \in Handlers /\ (ClientStep(p) \/ DigestFails(p))
  BY <1>4 DEF ClientStep, Stage, StageFails, Stream, DigestFails
<1>5. CASE p \in Handlers /\ HandlerStep(p)
  <2>1. CASE Commit(p)
    BY <2>1 DEF Commit
  <2>2. CASE Record(p)
    BY <2>2 DEF Record, Save
  <2>3. CASE Validate(p) \/ Reject(p) \/ Reply(p) \/ TakeReadLock(p) \/ Snapshot(p) \/ Open(p)
    BY <2>3 DEF Validate, Reject, Reply, TakeReadLock, Snapshot, Open
  <2> QED BY <1>5, <2>1, <2>2, <2>3 DEF HandlerStep
<1> QED BY <1>1, <1>2, <1>3, <1>4, <1>5

\* Who has called Lock unlocks after a bounded number of its own steps, on every
\* path through commitArtifact, loadIndexLocked and replaceFile.
THEOREM LockIsGivenBack == Spec => LockGivenBack
<1> DEFINE Leads(p) ==
        \/ pc[p] = "unlock" /\ mu' = Unlock(mu)
        \/ pc'[p] \in Writing /\ StepsToUnlock(p)' < StepsToUnlock(p)
<1>1. ASSUME IInv, Queued, [Next]_vars, crashes' = crashes,
             NEW p \in Procs, pc[p] \in Writing, pc'[p] # pc[p]
      PROVE  Leads(p)
  <2>1. Next /\ ~ Tick /\ ~ Crash
    BY <1>1 DEF vars, Tick, Crash, IInv, TypeOK
  <2>2. PICK q \in Procs :
            \/ LockedStep(q) \/ FaultStep(q)
            \/ /\ q \in Handlers
               /\ Requests(q) \/ ClientStep(q) \/ HandlerStep(q) \/ DigestFails(q)
    BY <2>1 DEF Next
  <2>3. q = p
    BY <1>1, <2>2, StepUsesLock
  <2> QED BY <1>1, <2>2, <2>3, OwnLocked
<1>2. IInv /\ Queued /\ [Next]_vars =>
          [crashes' = crashes =>
              \A p \in Procs : pc[p] \in Writing /\ pc'[p] # pc[p] => Leads(p)]_vars
  BY <1>1
<1>3. Spec => []Queued
  BY InitQueued, QueuedStep, Invariance, PTL DEF Spec
<1> QED BY <1>2, <1>3, Invariance, PTL DEF Spec, LockGivenBack
=============================================================================
