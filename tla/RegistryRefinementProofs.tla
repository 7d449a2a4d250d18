---------------------- MODULE RegistryRefinementProofs ----------------------
(***************************************************************************)
(* The registry implements ArtifactStore as long as no system call fails,  *)
(* for any number of handlers, names and crashes: every step of it is a    *)
(* step of the abstract store, at the points RegistryRefinement names, or  *)
(* leaves what the clients see as it is.                                   *)
(***************************************************************************)
EXTENDS RegistryRefinement, RegistryIndexProofs

USE ProcessesAssumption, PathsAssumption, BoundsAssumption
USE DEF Procs

\* The abstract state.
files == [x \in Names \cup Issuers |-> Contents(x)]
calls == [h \in Handlers |-> CallOf(h)]
answers == [h \in Handlers |-> AnswerOf(h)]

LEMMA InitRefines == Init => Store!Init
<1> SUFFICES ASSUME Init PROVE Store!Init
  OBVIOUS
<1>1. \A i \in Issuers : Contents(i) = Absent
  BY DEF Init, Contents, Paths
<1>2. \A h \in Handlers : CallOf(h) = Absent /\ AnswerOf(h) = Absent
  BY DEF Init, CallOf, AnswerOf, Nothing, NoStatus
<1> QED BY <1>1, <1>2 DEF Store!Init

\* A handler answers when it becomes idle and forgets that answer when it
\* takes up a request.
LEMMA UnansweredInvariance == Spec => []Unanswered
<1>1. Init => Unanswered
  BY DEF Init, NoStatus, Unanswered
<1>2. IInv /\ Unanswered /\ [Next]_vars => Unanswered'
  <2> SUFFICES ASSUME IInv, Unanswered, [Next]_vars, NEW h \in Handlers, pc'[h] # "idle"
               PROVE  status'[h] = 0
    BY DEF Unanswered
  <2> USE DEF IInv, TypeOK, Goto, Unanswered
  <2>1. CASE UNCHANGED vars \/ Tick
    BY <2>1 DEF vars, Tick
  <2>2. CASE Crash
    BY <2>2 DEF Crash, NoStatus
  <2>3. ASSUME NEW g \in Handlers, Requests(g)
        PROVE  status'[h] = 0
    <3>1. PICK r : Arrive(g, r)
      BY <2>3 DEF Requests, ArrivePublish, ArriveRevocations, ArriveDownload, ArriveQuery
    <3> QED BY <3>1 DEF Arrive, Answer
  <2>4. ASSUME NEW g \in Handlers, ClientStep(g) \/ HandlerStep(g) \/ DigestFails(g)
        PROVE  status'[h] = 0
    <3>1. CASE Stage(g) \/ Validate(g) \/ Commit(g) \/ Record(g) \/ TakeReadLock(g)
      BY <3>1 DEF Stage, Validate, Commit, Record, Save, TakeReadLock
    <3>2. CASE StageFails(g) \/ Stream(g) \/ Reject(g) \/ Reply(g) \/ Snapshot(g)
               \/ DigestFails(g)
      BY <3>2 DEF StageFails, Stream, Reject, Reply, Snapshot, DigestFails, Answer
    <3>3. CASE Open(g)
      BY <3>3 DEF Open, Answer
    <3> QED BY <2>4, <3>1, <3>2, <3>3 DEF ClientStep, HandlerStep
  <2>5. ASSUME NEW p \in Procs, LockedStep(p) \/ FaultStep(p)
        PROVE  status'[h] = 0
    <3>1. status' = status
      BY <2>5 DEF LockedStep, FaultStep, TakeWriteLock, Scan, Rebuild, ScanLosesTemp, Rename,
         MoveAside, Swap, Restore, Discard, ReleaseWriteLock, RenameFails, PrepareFails,
         MoveAsideFails, SwapFails, RestoreFails, DiscardFails, ScanFails, IndexUnreadable
    <3>2. pc[h] # "idle"
      <4>1. CASE p = h
        BY <2>5, <4>1 DEF LockedStep, FaultStep, TakeWriteLock, Scan, Rebuild, ScanLosesTemp,
           Rename, MoveAside, Swap, Restore, Discard, ReleaseWriteLock, RenameFails,
           PrepareFails, MoveAsideFails, SwapFails, RestoreFails, DiscardFails, ScanFails,
           IndexUnreadable
      <4>2. CASE p # h
        <5>1. \E label : pc' = [pc EXCEPT ![p] = label]
          BY <2>5 DEF LockedStep, FaultStep, TakeWriteLock, Scan, Rebuild, ScanLosesTemp,
             Rename, MoveAside, Swap, Restore, Discard, ReleaseWriteLock, RenameFails,
             PrepareFails, MoveAsideFails, SwapFails, RestoreFails, DiscardFails, ScanFails,
             IndexUnreadable, Save, Fails
        <5> QED BY <4>2, <5>1
      <4> QED BY <4>1, <4>2
    <3> QED BY <3>1, <3>2
  <2> QED BY <2>1, <2>2, <2>3, <2>4, <2>5 DEF Next
<1> QED BY <1>1, <1>2, Invariance, PTL DEF Spec

-----------------------------------------------------------------------------
(* What a step changes of the abstract state.                              *)

\* A step of one process changes the last status of no other.
LEMMA OthersStatus ==
    ASSUME IInv, NEW p \in Procs, NEW q \in Procs, q # p,
           \/ MutexStep(p)
           \/ p \in Handlers /\ (Requests(p) \/ ClientStep(p) \/ HandlerStep(p))
    PROVE  status'[q] = status[q]
<1> USE DEF IInv, TypeOK
<1>1. CASE MutexStep(p)
  BY <1>1 DEF MutexStep, TakeWriteLock, Scan, Rebuild, ScanLosesTemp, Rename, ReleaseWriteLock
<1>2. CASE p \in Handlers /\ Requests(p)
  <2>1. PICK r : Arrive(p, r)
    BY <1>2 DEF Requests, ArrivePublish, ArriveRevocations, ArriveDownload, ArriveQuery
  <2> QED BY <2>1 DEF Arrive, Answer
<1>3. CASE p \in Handlers /\ (ClientStep(p) \/ HandlerStep(p))
  BY <1>3 DEF ClientStep, Stage, StageFails, Stream, HandlerStep, Validate, Reject, Commit,
     Record, Reply, TakeReadLock, Snapshot, Open, Answer
<1> QED BY <1>1, <1>2, <1>3

\* Clients see no more of a step than the call and the answer of its handler.
LEMMA ClientsSee ==
    ASSUME Before, NEW p \in Procs,
           \/ MutexStep(p)
           \/ p \in Handlers /\ (Requests(p) \/ ClientStep(p) \/ HandlerStep(p))
    PROVE  /\ calls' = [h \in Handlers |-> IF h = p THEN CallOf(h)' ELSE calls[h]]
           /\ answers' = [h \in Handlers |-> IF h = p THEN AnswerOf(h)' ELSE answers[h]]
<1>1. ASSUME NEW h \in Handlers, h # p
      PROVE  CallOf(h)' = CallOf(h) /\ AnswerOf(h)' = AnswerOf(h)
  <2>1. /\ pc'[h] = pc[h] /\ req'[h] = req[h] /\ out'[h] = out[h] /\ temp'[h] = temp[h]
        /\ status'[h] = status[h]
    BY <1>1, OthersUntouched, OthersStatus DEF Before, StreamHeld
  <2>2. CallOf(h)' = CallOf(h)
    BY <2>1 DEF CallOf, Uploading, Applied
  <2>3. AnswerOf(h)' = AnswerOf(h)
    BY <2>1 DEF AnswerOf
  <2> QED BY <2>2, <2>3
<1> QED BY <1>1 DEF calls, answers

\* A file that stays looks the same.
LEMMA FilesStay ==
    ASSUME disk' = disk
    PROVE  files' = files
<1>1. \A x \in Names \cup Issuers : Contents(x)' = Contents(x)
  BY DEF Contents
<1> QED BY <1>1 DEF files

\* A step that changes nothing a client sees is a step the abstract store does
\* not take.
LEMMA Stutter ==
    ASSUME Before, NEW p \in Procs,
           \/ MutexStep(p)
           \/ p \in Handlers /\ (Requests(p) \/ ClientStep(p) \/ HandlerStep(p)),
           files' = files,
           p \in Handlers => CallOf(p)' = CallOf(p) /\ AnswerOf(p)' = AnswerOf(p)
    PROVE  UNCHANGED Store!vars
<1>1. calls' = calls /\ answers' = answers
  BY ClientsSee DEF calls, answers
<1> QED BY <1>1 DEF Store!vars, files, calls, answers

\* A handler that answers returns from its call.
LEMMA AnswerReturns ==
    ASSUME Before, NEW h \in Handlers, NEW code \in Statuses \ {0}, NEW payload,
           Requests(h) \/ ClientStep(h) \/ HandlerStep(h),
           Answer(h, code, payload), disk' = disk
    PROVE  Store!Return(h, code, payload)
<1>1. CallOf(h)' = Absent
  BY DEF Answer, CallOf, Before, IInv, TypeOK
<1>2. AnswerOf(h)' = [code |-> code, payload |-> payload]
  BY DEF Answer, AnswerOf, Before, StreamHeld, IInv, TypeOK
<1>3. files' = files
  BY FilesStay
<1>4. /\ calls' = [g \in Handlers |-> IF g = h THEN CallOf(g)' ELSE calls[g]]
      /\ answers' = [g \in Handlers |-> IF g = h THEN AnswerOf(g)' ELSE answers[g]]
  BY ClientsSee
<1>5. /\ calls' = [calls EXCEPT ![h] = Absent]
      /\ answers' = [answers EXCEPT ![h] = [code |-> code, payload |-> payload]]
  BY <1>1, <1>2, <1>4 DEF calls, answers
<1> QED BY <1>3, <1>5 DEF Store!Return, files, calls, answers

-----------------------------------------------------------------------------
(* Calls.                                                                  *)

\* The call of a handler at work, by the kind of its request.
LEMMA CallCases ==
    ASSUME Before, NEW h \in Handlers, pc[h] # "idle"
    PROVE  /\ req[h] \in Request /\ req[h] # Absent
           /\ Uploading(h) =>
                 /\ CallOf(h) = [kind |-> req[h].kind, path |-> req[h].path,
                                 content |-> req[h].content, done |-> Applied(h)]
                 /\ req[h].path \in Names \cup Issuers
                 /\ req[h].kind \in {"publish", "revput"}
           /\ req[h].kind \in {"get", "revget"} =>
                 /\ CallOf(h) = [kind |-> req[h].kind, path |-> req[h].path,
                                 content |-> out[h], done |-> pc[h] = "stream"]
                 /\ req[h].path \in Names \cup Issuers /\ ~ Uploading(h)
           /\ req[h].kind \in {"list", "health"} =>
                 /\ CallOf(h) = [kind |-> req[h].kind, path |-> Absent,
                                 content |-> Absent, done |-> FALSE]
                 /\ ~ Uploading(h)
           /\ CallOf(h) # Absent
<1>1. req[h] \in Request /\ req[h] # Absent
  BY AbsentAssumption DEF Before, IInv, RequestFits
<1>2. req[h].kind \in {"publish", "revput", "get", "revget", "list", "health"}
  BY <1>1 DEF Request
<1>3. CASE Uploading(h)
  <2>1. /\ req[h].path \in Names \cup Issuers /\ req[h].kind \in {"publish", "revput"}
        /\ req[h].content \in Bodies \cup RevocationList
    BY <1>3, UploadPath DEF Uploading, Before
  <2>2. CallOf(h) = [kind |-> req[h].kind, path |-> req[h].path,
                     content |-> req[h].content, done |-> Applied(h)]
    BY <1>1, <1>3 DEF CallOf
  <2>3. CallOf(h) \in CallRecord
    BY <2>1, <2>2 DEF CallRecord, Applied
  <2> QED BY <1>1, <1>3, <2>1, <2>2, <2>3, CallsAssumption
<1>4. CASE req[h].kind \in {"get", "revget"}
  <2>1. ~ Uploading(h)
    BY <1>4 DEF Uploading
  <2>2. CallOf(h) = [kind |-> req[h].kind, path |-> req[h].path,
                     content |-> out[h], done |-> pc[h] = "stream"]
    BY <1>1, <1>4, <2>1 DEF CallOf
  <2>3. req[h].path \in Names \cup Issuers
    <3>1. req[h].path # NoPath
      BY <1>4 DEF Before, StreamHeld
    <3> QED BY <1>1, <1>4, <3>1 DEF Request
  <2>4. out[h] \in Bodies \cup RevocationList \cup {Absent}
    <3>1. CASE pc[h] = "stream"
      <4>1. out[h] = Contents(req[h].path)
        BY <3>1 DEF Before, StreamHeld
      <4>2. disk[req[h].path] # Absent => FitsAt(disk[req[h].path], req[h].path)
        BY <2>3 DEF Before, IInv, DiskFits, Paths
      <4> QED BY <2>3, <4>1, <4>2 DEF Contents, FitsAt, Artifact
    <3>2. CASE pc[h] # "stream"
      BY <3>2 DEF Before, FaultFree, CallHeld
    <3> QED BY <3>1, <3>2
  <2>5. CallOf(h) \in CallRecord
    BY <1>4, <2>2, <2>3, <2>4 DEF CallRecord
  <2> QED BY <1>1, <1>4, <2>1, <2>2, <2>3, <2>5, CallsAssumption
<1>5. CASE req[h].kind \in {"list", "health"}
  <2>1. ~ Uploading(h)
    BY <1>5 DEF Uploading
  <2>2. CallOf(h) = [kind |-> req[h].kind, path |-> Absent, content |-> Absent, done |-> FALSE]
    BY <1>1, <1>5, <2>1 DEF CallOf
  <2>3. CallOf(h) \in CallRecord
    BY <1>5, <2>2 DEF CallRecord
  <2> QED BY <1>1, <1>5, <2>1, <2>2, <2>3, CallsAssumption
<1> QED BY <1>2, <1>3, <1>4, <1>5 DEF Uploading

-----------------------------------------------------------------------------
(* One lemma per step a client can see.                                    *)

\* A request that is refused as it arrives, and one that is taken up.
LEMMA RequestsRefine ==
    ASSUME Before, NEW h \in Handlers, Requests(h)
    PROVE  Store!Next
<1>1. PICK r \in Request : Arrive(h, r)
  BY ArrivesRequest
<1>2. pc[h] = "idle" /\ calls[h] = Absent /\ disk' = disk
  BY <1>1 DEF Arrive, calls, CallOf, Before, FaultFree, CallHeld, diskVars
<1>3. CASE Refusal(r) # 0
  <2>1. Refusal(r) \in {400, 401, 404, 405} /\ Answer(h, Refusal(r), Absent)
    BY <1>1, <1>3 DEF Refusal, Arrive
  <2>2. Store!Return(h, Refusal(r), Absent)
    BY <1>2, <2>1, AnswerReturns DEF Statuses
  <2>3. Store!Reject(h)
    BY <1>2, <2>1, <2>2 DEF Store!Reject, calls
  <2> QED BY <2>3 DEF Store!Next
<1>4. CASE Refusal(r) = 0
  <2>1. /\ req'[h] = r /\ pc'[h] = FirstStep(r.kind) /\ out'[h] = Absent /\ status'[h] = 0
    BY <1>1, <1>4 DEF Arrive, Goto, Before, StreamHeld, IInv, TypeOK
  <2>2. r # Absent
    BY AbsentAssumption
  <2>3. CallOf(h)' \in Store!Calls
    <3>1. CASE r.kind \in {"publish", "revput"}
      <4>1. /\ r.path \in Names \cup Issuers
            /\ r.content \in Bodies \cup RevocationList
        BY <1>4, <3>1, RequestType DEF Refusal
      <4>2. pc'[h] = "stage"
        BY <2>1, <3>1 DEF FirstStep
      <4>3. CallOf(h)' = [kind |-> r.kind, path |-> r.path, content |-> r.content,
                          done |-> FALSE]
        BY <2>1, <2>2, <3>1, <4>2 DEF CallOf, Uploading, Applied
      <4> QED BY <3>1, <4>1, <4>3 DEF Store!Calls
    <3>2. CASE r.kind \in {"get", "revget"}
      <4>1. r.path \in Names \cup Issuers
        BY <1>4, <3>2 DEF Refusal, Request
      <4>2. pc'[h] # "stream"
        BY <2>1, <3>2 DEF FirstStep
      <4>3. CallOf(h)' = [kind |-> r.kind, path |-> r.path, content |-> Absent,
                          done |-> FALSE]
        BY <2>1, <2>2, <3>2, <4>2 DEF CallOf, Uploading
      <4> QED BY <3>2, <4>1, <4>3 DEF Store!Calls
    <3>3. CASE r.kind \in {"list", "health"}
      <4>1. CallOf(h)' = [kind |-> r.kind, path |-> Absent, content |-> Absent,
                          done |-> FALSE]
        BY <2>1, <2>2, <3>3 DEF CallOf, Uploading
      <4> QED BY <3>3, <4>1 DEF Store!Calls
    <3>4. r.kind \in {"publish", "revput", "get", "revget", "list", "health"}
      BY DEF Request
    <3> QED BY <3>1, <3>2, <3>3, <3>4
  <2>4. AnswerOf(h)' = Absent
    BY <2>1 DEF AnswerOf
  <2>5. /\ calls' = [g \in Handlers |-> IF g = h THEN CallOf(g)' ELSE calls[g]]
        /\ answers' = [g \in Handlers |-> IF g = h THEN AnswerOf(g)' ELSE answers[g]]
    BY ClientsSee
  <2>6. /\ calls' = [calls EXCEPT ![h] = CallOf(h)']
        /\ answers' = [answers EXCEPT ![h] = Absent]
    BY <2>4, <2>5 DEF calls, answers
  <2>7. files' = files
    BY <1>2, FilesStay
  <2>8. Store!Invoke(h)
    BY <1>2, <2>3, <2>6, <2>7 DEF Store!Invoke, files, calls, answers
  <2> QED BY <2>8 DEF Store!Next
<1> QED BY <1>3, <1>4

\* An upload that is refused before it takes effect.
LEMMA RefusalRefines ==
    ASSUME Before, NEW h \in Handlers, StageFails(h) \/ Reject(h)
    PROVE  Store!Next
<1>1. /\ pc[h] \in {"stage", "validate"} /\ disk' = disk
      /\ \E code \in {400, 413, 500} : Answer(h, code, Absent)
  BY DEF StageFails, Reject, diskVars
<1>2. PICK code \in {400, 413, 500} : Answer(h, code, Absent)
  BY <1>1
<1>3. Store!Return(h, code, Absent)
  BY <1>1, <1>2, AnswerReturns DEF Statuses, ClientStep, HandlerStep
<1>4. Uploading(h)
  BY <1>1 DEF Before, IInv, RequestFits
<1>a. /\ CallOf(h) # Absent /\ req[h].kind \in {"publish", "revput"}
      /\ CallOf(h) = [kind |-> req[h].kind, path |-> req[h].path,
                      content |-> req[h].content, done |-> Applied(h)]
  BY <1>1, <1>4, CallCases
<1>b. calls[h] = CallOf(h) /\ ~ Applied(h)
  BY <1>1 DEF calls, Applied
<1>5. /\ calls[h] # Absent /\ ~ calls[h].done
      /\ calls[h].kind \in {"publish", "revput"}
  BY <1>a, <1>b
<1>6. Store!Refuse(h)
  BY <1>3, <1>5 DEF Store!Refuse, calls
<1> QED BY <1>6 DEF Store!Next

\* An upload that has taken effect is answered.
LEMMA ReplyRefines ==
    ASSUME Before, NEW h \in Handlers, Reply(h)
    PROVE  Store!Next
<1>1. pc[h] = "reply" /\ disk' = disk
  BY DEF Reply
<1>2. Uploading(h) /\ ~ err[h] /\ temp[h] = Absent
  BY <1>1 DEF Before, IInv, RequestFits, FaultFree, NothingFails, CallHeld
<1>3. Answer(h, 201, Absent)
  BY <1>2 DEF Reply
<1>4. Store!Return(h, 201, Absent)
  BY <1>1, <1>3, AnswerReturns DEF Statuses, HandlerStep
<1>a. /\ CallOf(h) # Absent /\ req[h].kind \in {"publish", "revput"}
      /\ CallOf(h) = [kind |-> req[h].kind, path |-> req[h].path,
                      content |-> req[h].content, done |-> Applied(h)]
  BY <1>1, <1>2, CallCases
<1>b. calls[h] = CallOf(h) /\ Applied(h)
  BY <1>1, <1>2 DEF calls, Applied
<1>c. CallOf(h).done <=> Applied(h)
  BY <1>a
<1>d. calls[h].done
  BY <1>b, <1>c
<1>e. calls[h] # Absent
  BY <1>a, <1>b
<1>5. calls[h].kind \in {"publish", "revput"}
  BY <1>a, <1>b
<1>6. Store!Complete(h)
  BY <1>4, <1>5, <1>d, <1>e DEF Store!Complete, calls
<1> QED BY <1>6 DEF Store!Next

\* A download has been sent: what the client got is what was found.
LEMMA StreamRefines ==
    ASSUME Before, NEW h \in Handlers, Stream(h)
    PROVE  Store!Next
<1>1. pc[h] = "stream" /\ disk' = disk /\ Answer(h, 200, out[h])
  BY DEF Stream, diskVars
<1>2. req[h].kind \in {"get", "revget"}
  BY <1>1 DEF Before, StreamHeld
<1>3. Store!Return(h, 200, out[h])
  BY <1>1, AnswerReturns DEF Statuses, ClientStep
<1>a. /\ CallOf(h) # Absent
      /\ CallOf(h) = [kind |-> req[h].kind, path |-> req[h].path,
                      content |-> out[h], done |-> TRUE]
  BY <1>1, <1>2, CallCases
<1>b. calls[h] = CallOf(h)
  BY DEF calls
<1>4. /\ calls[h] # Absent /\ calls[h].done /\ calls[h].content = out[h]
      /\ calls[h].kind \in {"get", "revget"}
  BY <1>1, <1>2, <1>a, <1>b
<1>5. Store!Complete(h)
  BY <1>3, <1>4 DEF Store!Complete, calls
<1> QED BY <1>5 DEF Store!Next

\* The abstract store counts as the registry does.
LEMMA SameCardinality ==
    ASSUME NEW S
    PROVE  Store!Cardinality(S) = Cardinality(S)
BY DEF Cardinality, Store!Cardinality

\* A listing, or a health check, sees the store as it is: with the read lock
\* held the index is faithful.
LEMMA SnapshotRefines ==
    ASSUME Before, NEW h \in Handlers, Snapshot(h)
    PROVE  Store!Next
<1>1. /\ pc[h] = "read" /\ ReadLocked(mu, h) /\ disk' = disk
      /\ \/ req[h].kind = "list" /\ Answer(h, 200, [artifacts |-> Listing(Index)])
         \/ /\ req[h].kind = "health"
            /\ Answer(h, 200, [count |-> Cardinality({n \in Names : Index[n] # Absent})])
  BY DEF Snapshot, diskVars
<1>2. Loaded /\ \A g \in Handlers : pc[g] # "record"
  <2>1. Loaded
    BY <1>1, HandlerFindsIndex DEF Before, FaultFree
  <2>2. \A g \in Handlers : ~ WriteLocked(mu, g)
    BY <1>1 DEF ReadLocked, WriteLocked
  <2> QED BY <2>1, <2>2 DEF Before, IInv, Locking, Critical
<1>3. \A n \in Names : Listing(Index)[n] = Contents(n) /\ (Index[n] # Absent <=> disk[n] # Absent)
  BY <1>2, IndexListsStore
<1>4. Listing(Index) = [n \in Names |-> files[n]]
  BY <1>3 DEF Listing, files
<1>5. {n \in Names : Index[n] # Absent} = {n \in Names : files[n] # Absent}
  <2>1. ASSUME NEW n \in Names
        PROVE  Contents(n) # Absent <=> disk[n] # Absent
    <3>1. disk[n] # Absent => disk[n].body \in Bodies
      BY DEF Before, IInv, DiskFits, FitsAt, Paths, Artifact
    <3> QED BY <3>1, BodiesAssumption DEF Contents
  <2> QED BY <1>3, <2>1 DEF files
<1>6. calls[h] # Absent /\ calls[h].kind = req[h].kind
  BY <1>1, CallCases DEF calls
<1>7. CASE req[h].kind = "list"
  <2>1. Store!Return(h, 200, [artifacts |-> Listing(Index)])
    BY <1>1, <1>7, AnswerReturns DEF Statuses, HandlerStep
  <2>2. Store!Query(h)
    BY <1>4, <1>6, <1>7, <2>1 DEF Store!Query, Store!Listed, files, calls
  <2> QED BY <2>2 DEF Store!Next
<1>8. CASE req[h].kind = "health"
  <2>1. Store!Return(h, 200, [count |-> Cardinality({n \in Names : Index[n] # Absent})])
    BY <1>1, <1>8, AnswerReturns DEF Statuses, HandlerStep
  <2>2. Store!Return(h, 200, [count |-> Cardinality({n \in Names : files[n] # Absent})])
    BY <1>5, <2>1
  <2>3. Store!Query(h)
    BY <1>6, <1>8, <2>2, SameCardinality DEF Store!Query, files, calls
  <2> QED BY <2>3 DEF Store!Next
<1> QED BY <1>1, <1>7, <1>8

\* A download finds its file, which stays the same until it has been sent, or
\* finds none.
LEMMA OpenRefines ==
    ASSUME Before, Unanswered, NEW h \in Handlers, Open(h)
    PROVE  Store!Next
<1>1. /\ pc[h] = "read" /\ disk' = disk /\ req[h].kind \in {"get", "revget"}
      /\ h \in Procs
  BY DEF Open, diskVars
<1>2. /\ CallOf(h) # Absent /\ req[h].path \in Names \cup Issuers /\ ~ Uploading(h)
      /\ CallOf(h) = [kind |-> req[h].kind, path |-> req[h].path,
                      content |-> out[h], done |-> FALSE]
      /\ req[h] # Absent
  BY <1>1, CallCases
<1>3. calls[h] = CallOf(h)
  BY DEF calls
<1>4. /\ calls[h] # Absent /\ ~ calls[h].done /\ calls[h].kind \in {"get", "revget"}
      /\ calls[h].path = req[h].path
  BY <1>1, <1>2, <1>3
<1>5. files[req[h].path] = Contents(req[h].path)
  BY <1>2 DEF files
<1>6. Contents(req[h].path) = Absent <=> disk[req[h].path] = Absent
  <2>1. req[h].path \in Names /\ disk[req[h].path] # Absent
           => disk[req[h].path].body \in Bodies
    BY DEF Before, IInv, DiskFits, FitsAt, Paths, Artifact
  <2> QED BY <2>1, BodiesAssumption DEF Contents
<1>7. CASE disk[req[h].path] = Absent
  <2>1. Answer(h, 404, Absent)
    BY <1>7 DEF Open
  <2>2. Store!Return(h, 404, Absent)
    BY <1>1, <2>1, AnswerReturns DEF Statuses, HandlerStep
  <2>3. Store!Miss(h)
    BY <1>4, <1>5, <1>6, <1>7, <2>2 DEF Store!Miss, calls, files
  <2> QED BY <2>3 DEF Store!Next
<1>8. CASE disk[req[h].path] # Absent
  <2>1. /\ out' = [out EXCEPT ![h] = Contents(req[h].path)]
        /\ pc' = [pc EXCEPT ![h] = "stream"] /\ req' = req /\ status' = status
    BY <1>8 DEF Open, Goto
  <2>2. /\ out'[h] = Contents(req[h].path) /\ pc'[h] = "stream"
    BY <1>1, <2>1 DEF Before, StreamHeld, IInv, TypeOK
  <2>3. CallOf(h)' = [kind |-> req[h].kind, path |-> req[h].path,
                      content |-> Contents(req[h].path), done |-> TRUE]
    BY <1>1, <1>2, <2>1, <2>2 DEF CallOf, Uploading
  <2>4. AnswerOf(h)' = AnswerOf(h)
    <3>1. status[h] = 0
      BY <1>1 DEF Unanswered
    <3> QED BY <2>1, <3>1 DEF AnswerOf
  <2>5. /\ calls' = [g \in Handlers |-> IF g = h THEN CallOf(g)' ELSE calls[g]]
        /\ answers' = [g \in Handlers |-> IF g = h THEN AnswerOf(g)' ELSE answers[g]]
    BY ClientsSee DEF HandlerStep
  <2>6. answers' = answers
    BY <2>4, <2>5 DEF answers
  <2>a. calls' = [calls EXCEPT ![h] = CallOf(h)']
    BY <2>5 DEF calls
  <2>b. CallOf(h)' = [kind |-> calls[h].kind, path |-> calls[h].path,
                      content |-> files[calls[h].path], done |-> TRUE]
    <3>1. calls[h].kind = req[h].kind
      BY <1>2, <1>3
    <3> QED BY <1>4, <1>5, <2>3, <3>1
  <2>7. calls' = [calls EXCEPT ![h] = [kind |-> calls[h].kind, path |-> calls[h].path,
                                       content |-> files[calls[h].path], done |-> TRUE]]
    BY <2>a, <2>b
  <2>8. files' = files
    BY <1>1, FilesStay
  <2>9. Store!Read(h)
    BY <1>4, <1>5, <1>6, <1>8, <2>6, <2>7, <2>8 DEF Store!Read, Store!Effect, calls, files, answers
  <2> QED BY <2>9 DEF Store!Next
<1> QED BY <1>7, <1>8

\* An upload takes effect as it is renamed onto its destination; index.json is
\* not part of what clients see.
LEMMA RenameRefines ==
    ASSUME Before, NEW p \in Procs, Rename(p)
    PROVE  Store!Next \/ UNCHANGED Store!vars
<1>1. /\ pc[p] = "rename" /\ disk' = [disk EXCEPT ![put[p].dst] = put[p].src]
      /\ temp' = IF put[p].dst = IndexPath THEN temp ELSE [temp EXCEPT ![p] = Absent]
      /\ pc'[p] \in {"record", "unlock"} /\ MutexStep(p)
      /\ UNCHANGED <<req, out, status>>
  BY DEF Rename, Goto, AfterReplace, Before, IInv, TypeOK, MutexStep, regVars
<1>2. CASE put[p].dst = IndexPath
  <2>1. files' = files
    <3>1. \A x \in Names \cup Issuers : disk'[x] = disk[x]
      BY <1>1, <1>2 DEF Before, IInv, TypeOK, Paths
    <3>2. \A x \in Names \cup Issuers : Contents(x)' = Contents(x)
      BY <3>1 DEF Contents
    <3> QED BY <3>2 DEF files
  <2>2. p \in Handlers => CallOf(p)' = CallOf(p) /\ AnswerOf(p)' = AnswerOf(p)
    <3>1. ASSUME p \in Handlers, Uploading(p)
          PROVE  Applied(p)' /\ Applied(p)
      BY <1>1, <1>2, <3>1 DEF Before, FaultFree, CallHeld, Saving, Applied
    <3>2. p \in Handlers => CallOf(p)' = CallOf(p)
      BY <1>1, <3>1 DEF CallOf, Uploading
    <3>3. AnswerOf(p)' = AnswerOf(p)
      BY <1>1 DEF AnswerOf
    <3> QED BY <3>2, <3>3
  <2> QED BY <1>1, <2>1, <2>2, Stutter
<1>3. CASE put[p].dst # IndexPath
  <2>1. /\ p \in Handlers /\ Uploading(p) /\ put[p].dst = req[p].path
        /\ req[p].path \in Names \cup Issuers
        /\ (req[p].path \in Names <=> req[p].kind = "publish")
        /\ FitsAt(put[p].src, req[p].path) /\ put[p].src # Absent
    <3>1. IInv
      BY DEF Before
    <3>2. CASE p \in Handlers /\ Publishing(p) /\ put[p].dst = req[p].path /\ put[p].dst \in Names
      BY <1>1, <3>1, <3>2, PutCases DEF Publishing
    <3>3. CASE /\ p \in Handlers /\ Uploading(p) /\ req[p].kind = "revput"
               /\ put[p].dst = req[p].path /\ put[p].dst \in Issuers
      BY <1>1, <3>1, <3>3, PutCases
    <3> QED BY <1>1, <1>3, <3>1, <3>2, <3>3, PutCases
  <2>2. Carries(p, put[p].src) /\ temp[p] # Absent
    BY <1>1, <1>3, <2>1 DEF Before, FaultFree, CallHeld, Saving
  <2>3. /\ CallOf(p) # Absent /\ req[p].kind \in {"publish", "revput"} /\ req[p] # Absent
        /\ CallOf(p) = [kind |-> req[p].kind, path |-> req[p].path,
                        content |-> req[p].content, done |-> Applied(p)]
    BY <1>1, <2>1, CallCases
  <2>4. ~ Applied(p) /\ Applied(p)'
    BY <1>1, <1>3, <2>2 DEF Applied, Before, IInv, TypeOK
  <2>5. CallOf(p)' = [kind |-> req[p].kind, path |-> req[p].path,
                      content |-> req[p].content, done |-> TRUE]
    <3>1. Uploading(p)' /\ req'[p] # Absent
      BY <1>1, <2>1, <2>3 DEF Uploading
    <3> QED BY <1>1, <2>4, <3>1 DEF CallOf
  <2>6. calls[p] = CallOf(p)
    BY <2>1 DEF calls
  <2>7. /\ calls[p] # Absent /\ calls[p].kind \in {"publish", "revput"}
        /\ calls[p].path = req[p].path /\ calls[p].content = req[p].content
    BY <2>3, <2>6
  <2>8. ~ calls[p].done
    <3>1. CallOf(p).done <=> Applied(p)
      BY <2>3
    <3> QED BY <2>4, <2>6, <3>1
  <2>9. /\ calls' = [g \in Handlers |-> IF g = p THEN CallOf(g)' ELSE calls[g]]
        /\ answers' = [g \in Handlers |-> IF g = p THEN AnswerOf(g)' ELSE answers[g]]
    BY <1>1, ClientsSee
  <2>10. answers' = answers
    <3>1. AnswerOf(p)' = AnswerOf(p)
      BY <1>1 DEF AnswerOf
    <3> QED BY <2>9, <3>1 DEF answers
  <2>11. calls' = [calls EXCEPT ![p] = [kind |-> calls[p].kind, path |-> calls[p].path,
                                        content |-> calls[p].content, done |-> TRUE]]
    <3>1. calls' = [calls EXCEPT ![p] = CallOf(p)']
      BY <2>9 DEF calls
    <3>2. CallOf(p)' = [kind |-> calls[p].kind, path |-> calls[p].path,
                        content |-> calls[p].content, done |-> TRUE]
      BY <2>3, <2>5, <2>6
    <3> QED BY <3>1, <3>2
  <2>12. IF req[p].path \in Names THEN ValidArchive(req[p].content)
         ELSE ValidList(req[p].content, req[p].path)
    BY <2>1, <2>2 DEF Carries, FitsAt, ValidArchive, ValidList
  <2>13. files' = [files EXCEPT ![req[p].path] = req[p].content]
    <3>1. /\ disk'[req[p].path] = put[p].src
          /\ \A x \in Names \cup Issuers : x # req[p].path => disk'[x] = disk[x]
      BY <1>1, <2>1 DEF Before, IInv, TypeOK, Paths
    <3>2. \A x \in Names \cup Issuers : x = req[p].path => Contents(x)' = req[p].content
      BY <1>1, <2>1, <2>2, <3>1 DEF Contents, Carries
    <3>3. \A x \in Names \cup Issuers : x # req[p].path => Contents(x)' = Contents(x)
      BY <3>1 DEF Contents
    <3>4. files' = [x \in Names \cup Issuers |->
                      IF x = req[p].path THEN req[p].content ELSE Contents(x)]
      <4>1. \A x \in Names \cup Issuers :
               Contents(x)' = IF x = req[p].path THEN req[p].content ELSE Contents(x)
        BY <3>2, <3>3
      <4> QED BY <4>1 DEF files
    <3>5. files = [x \in Names \cup Issuers |-> Contents(x)]
      BY DEF files
    <3> QED BY <2>1, <3>4, <3>5
  <2>14. Store!Put(p)
    BY <2>7, <2>8, <2>10, <2>11, <2>12, <2>13 DEF Store!Put, Store!Effect, files, calls, answers
  <2> QED BY <2>1, <2>14 DEF Store!Next
<1> QED BY <1>2, <1>3

\* Every other step a process takes is out of the sight of clients.
LEMMA QuietStepsRefine ==
    ASSUME Before, NEW p \in Procs,
           \/ TakeWriteLock(p) \/ Scan(p) \/ Rebuild(p) \/ ScanLosesTemp(p)
           \/ ReleaseWriteLock(p)
           \/ p \in Handlers /\ (Stage(p) \/ Validate(p) \/ Commit(p) \/ Record(p)
                                 \/ TakeReadLock(p))
    PROVE  UNCHANGED Store!vars
<1>1. /\ disk' = disk /\ UNCHANGED <<req, out, status>>
      /\ MutexStep(p) \/ (p \in Handlers /\ (ClientStep(p) \/ HandlerStep(p)))
  BY DEF TakeWriteLock, Scan, Rebuild, ScanLosesTemp, ReleaseWriteLock, Stage, Validate, Commit,
     Record, TakeReadLock, MutexStep, ClientStep, HandlerStep, diskVars, regVars
<1>2. files' = files
  BY <1>1, FilesStay
<1>3. ASSUME p \in Handlers, Uploading(p)
      PROVE  Applied(p)' <=> Applied(p)
  <2> USE DEF Goto, Before, IInv, TypeOK
  <2>1. CASE TakeWriteLock(p) \/ Stage(p) \/ Validate(p)
    BY <2>1 DEF TakeWriteLock, Stage, Validate, Applied
  <2>2. CASE Commit(p)
    <3>1. temp[p] # Absent
      <4>1. temp[p] \in Files
        BY <1>3, <2>2 DEF Commit, StagedFits, Files
      <4> QED BY <4>1, AbsentAssumption
    <3> QED BY <2>2, <3>1 DEF Commit, Applied, diskVars
  <2>3. CASE Record(p) \/ ReleaseWriteLock(p)
    BY <1>3, <2>3 DEF Record, Save, ReleaseWriteLock, Applied, diskVars
  <2>4. CASE Scan(p) \/ Rebuild(p) \/ ScanLosesTemp(p) \/ TakeReadLock(p)
    BY <1>3, <2>4 DEF Scan, Rebuild, Save, ScanLosesTemp, Fails, TakeReadLock, RequestFits,
       Applied, diskVars
  <2> QED BY <2>1, <2>2, <2>3, <2>4
<1>4. p \in Handlers => pc[p] # "stream" /\ pc'[p] # "stream"
  BY DEF TakeWriteLock, Scan, Rebuild, Save, ScanLosesTemp, Fails, ReleaseWriteLock, Stage,
     Validate, Commit, Record, TakeReadLock, Goto, Before, IInv, TypeOK
<1>5. p \in Handlers => CallOf(p)' = CallOf(p)
  <2> SUFFICES ASSUME p \in Handlers PROVE CallOf(p)' = CallOf(p)
    OBVIOUS
  <2>1. req'[p] = req[p] /\ out'[p] = out[p] /\ (Uploading(p)' <=> Uploading(p))
    BY <1>1 DEF Uploading
  <2>2. CASE Uploading(p)
    <3>1. Applied(p)' = Applied(p)
      BY <1>3, <2>2 DEF Applied
    <3> QED BY <2>1, <2>2, <3>1 DEF CallOf
  <2>3. CASE ~ Uploading(p)
    BY <1>4, <2>1, <2>3 DEF CallOf
  <2> QED BY <2>2, <2>3
<1>6. AnswerOf(p)' = AnswerOf(p)
  BY <1>1 DEF AnswerOf
<1> QED BY <1>1, <1>2, <1>5, <1>6, Stutter

\* The process dies: calls and answers are lost, files are not.
LEMMA CrashRefines == Crash => Store!Next
<1> SUFFICES ASSUME Crash PROVE Store!Next
  OBVIOUS
<1>1. \A h \in Handlers : CallOf(h)' = Absent /\ AnswerOf(h)' = Absent
  BY DEF Crash, CallOf, AnswerOf, Nothing, NoStatus
<1>2. files' = files
  BY FilesStay DEF Crash
<1>3. calls' = [h \in Handlers |-> Absent] /\ answers' = [h \in Handlers |-> Absent]
  BY <1>1 DEF calls, answers
<1>4. Store!Crash
  BY <1>2, <1>3 DEF Store!Crash, files, calls, answers
<1> QED BY <1>4 DEF Store!Next

\* Time is not part of what clients see.
LEMMA UnseenRefine == Tick \/ UNCHANGED vars => UNCHANGED Store!vars
<1> SUFFICES ASSUME UNCHANGED <<disk, temp, pc, req, out, status>> PROVE UNCHANGED Store!vars
  BY DEF Tick, vars, diskVars, regVars
<1>1. files' = files
  BY FilesStay
<1>2. \A h \in Handlers : CallOf(h)' = CallOf(h) /\ AnswerOf(h)' = AnswerOf(h)
  BY DEF CallOf, AnswerOf, Uploading, Applied
<1>3. calls' = calls /\ answers' = answers
  BY <1>2 DEF calls, answers
<1> QED BY <1>1, <1>3 DEF Store!vars, files, calls, answers

-----------------------------------------------------------------------------
(* The registry implements the store.                                      *)

LEMMA NextRefines ==
    /\ IInv /\ StreamHeld /\ FaultFreeInv /\ Unanswered
    /\ faults = 0 /\ faults' = 0 /\ [Next]_vars
    => [Store!Next]_(Store!vars)
<1> SUFFICES ASSUME IInv, StreamHeld, FaultFreeInv, Unanswered, faults = 0, faults' = 0,
                    [Next]_vars
             PROVE  Store!Next \/ UNCHANGED Store!vars
  OBVIOUS
<1>1. Before
  BY DEF Before, FaultFreeInv
<1>2. CASE UNCHANGED vars \/ Tick
  BY <1>2, UnseenRefine
<1>3. CASE Crash
  BY <1>3, CrashRefines
<1>4. ASSUME NEW h \in Handlers, Requests(h)
      PROVE  Store!Next
  BY <1>1, <1>4, RequestsRefine
<1>5. ASSUME NEW h \in Handlers, ClientStep(h)
      PROVE  Store!Next \/ UNCHANGED Store!vars
  BY <1>1, <1>5, QuietStepsRefine, RefusalRefines, StreamRefines DEF ClientStep
<1>6. ASSUME NEW h \in Handlers, HandlerStep(h)
      PROVE  Store!Next \/ UNCHANGED Store!vars
  BY <1>1, <1>6, QuietStepsRefine, RefusalRefines, ReplyRefines, SnapshotRefines, OpenRefines
     DEF HandlerStep
<1>7. ASSUME NEW p \in Procs, MutexStep(p)
      PROVE  Store!Next \/ UNCHANGED Store!vars
  BY <1>1, <1>7, QuietStepsRefine, RenameRefines DEF MutexStep
<1>8. Next => \/ Tick \/ Crash
              \/ \E h \in Handlers : Requests(h) \/ ClientStep(h) \/ HandlerStep(h)
              \/ \E p \in Procs : MutexStep(p)
  BY <1>1, FaultlessStep DEF Before, FaultFree
<1> QED BY <1>2, <1>3, <1>4, <1>5, <1>6, <1>7, <1>8

\* While no system call of the registry (main.go) fails, its clients cannot
\* tell it from a store whose calls take effect one at a time, whatever its
\* handlers do at the same time and however often it crashes: behaviours of the
\* registry are behaviours of ArtifactStore.
THEOREM Implements == Spec /\ [](faults = 0) => Linearizable
<1>1. Init => Store!Init
  BY InitRefines
<1>2. /\ IInv /\ StreamHeld /\ FaultFreeInv /\ Unanswered
      /\ faults = 0 /\ (faults = 0)' /\ [Next]_vars
      => [Store!Next]_(Store!vars)
  BY NextRefines
<1> QED BY <1>1, <1>2, Invariance, StreamHeldInvariance, FaultFreeInvariance,
        UnansweredInvariance, PTL DEF Spec, Store!Spec, Linearizable
=============================================================================
