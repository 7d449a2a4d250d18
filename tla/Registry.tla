------------------------------ MODULE Registry ------------------------------
(***************************************************************************)
(* The Go capsule registry, services/qcap-registry/main.go: one process    *)
(* that serves HTTP requests concurrently over one store directory.        *)
(*                                                                         *)
(* The shared state is the store directory (disk, temp, backup, stray),    *)
(* the index kept in memory (Index) and the reader/writer lock that orders *)
(* them (mu).  A request handler is a process; main, which loads the index *)
(* before it starts to listen, is a process too.  Every action is a step   *)
(* of one process between two points at which another process, a failing   *)
(* system call or a crash can get in.                                      *)
(*                                                                         *)
(* Abstractions: an uploaded archive is a model value that validates or    *)
(* does not, and stands for its own SHA-256 digest; a revocation list is   *)
(* a record that names its issuer and says whether its signature verifies; *)
(* paths are the names they are made of; sizes, content types, headers and *)
(* the text of answers are left out.  A crash is the death of the process: *)
(* what was written to the store directory stays there.                    *)
(***************************************************************************)
EXTENDS Integers, Sequences, FiniteSets, RWMutex

CONSTANTS
    Handlers,     \* request handlers that may run at the same time
    Main,         \* the process that runs main until it listens
    Names,        \* artifact names, each with its .qcap extension
    DefaultName,  \* "artifact.qcap", the name of an upload without a header
    Bodies,       \* what a client may upload as an artifact
    ValidBodies,  \* the ones that validateQcapArchive accepts
    Revocations,  \* what a revocation list may revoke
    Issuers,      \* path segments (hex keys) revocation lists are filed under
    Keys,         \* keys a revocation list may name
    IndexPath,    \* the path of index.json
    NoPath,       \* what the name sanitisers return for an unsafe name
    Bearers,      \* Authorization headers a client may send
    Token,        \* QCAP_REGISTRY_TOKEN ...
    NoToken,      \* ... or this value when it is not configured
    Absent,       \* no file, no index entry, no value
    MaxClock,     \* bound on the clock
    MaxFaults,    \* bound on failing system calls
    MaxCrashes    \* bound on crashes of the process

ASSUME ProcessesAssumption == Main \notin Handlers
ASSUME NamesAssumption == DefaultName \in Names
ASSUME KeysAssumption == Issuers \subseteq Keys
ASSUME BodiesAssumption == ValidBodies \subseteq Bodies /\ Absent \notin Bodies
ASSUME PathsAssumption ==
    /\ Names \cap Issuers = {}
    /\ IndexPath \notin Names \cup Issuers
    /\ NoPath \notin Names \cup Issuers \cup {IndexPath}
ASSUME BoundsAssumption ==
    MaxClock \in Nat /\ MaxFaults \in Nat /\ MaxCrashes \in Nat

Procs == Handlers \cup {Main}
Paths == Names \cup Issuers \cup {IndexPath}
Times == 0 .. MaxClock

\* A stored artifact: its bytes and its modification time.
Artifact == [body : Bodies, mtime : Times]
\* A revocation list: the key it names, and whether its signature verifies.
RevocationList == [public_key : Keys, signed : BOOLEAN, revoked : Revocations]
\* An index entry: the digest of the artifact and created_at.
Capsule == [digest : Bodies, created : Times]
\* The index, in memory and in index.json.
IndexValue == [Names -> Capsule \cup {Absent}]
IndexFile == [index : IndexValue]
EmptyIndex == [n \in Names |-> Absent]
Files == Artifact \cup RevocationList \cup IndexFile

\* What a request asks for: path is the artifact name or the issuer the
\* handler derives from the URL or the header, content the body of an upload.
Request == [kind : {"publish"}, path : Names \cup {NoPath}, post : BOOLEAN,
            bearer : Bearers, content : Bodies]
    \cup [kind : {"revput"}, path : Issuers \cup {NoPath}, post : BOOLEAN,
          bearer : Bearers, content : RevocationList]
    \cup [kind : {"get"}, path : Names \cup {NoPath}]
    \cup [kind : {"revget"}, path : Issuers \cup {NoPath}]
    \cup [kind : {"list", "health"}, path : {NoPath}]

ASSUME AbsentAssumption == Absent \notin Files \cup Capsule \cup Request

VARIABLES
    disk,     \* [Paths -> Files or Absent], the store directory
    temp,     \* temp[p]: the upload p staged in the store directory
    backup,   \* backup[p]: the file replaceFile has moved aside for p
    stray,    \* <<path, file>>: backups nobody will remove or restore
    Index,    \* the index kept in memory
    mu,       \* the reader/writer lock
    listed,   \* the upload temporaries the directory scan has listed
    pc,       \* pc[p]: what p does next
    req,      \* req[p]: the request p answers
    cap,      \* cap[p]: the index entry p is about to commit
    put,      \* put[p]: source and destination of p's replaceFile
    err,      \* err[p]: the commit or the load of p has failed
    out,      \* out[p]: the payload p answers with
    status,   \* status[p]: the HTTP status of p's answer
    acked,    \* history: artifact names a client was told are published
    latest,   \* history: latest[x], the file last renamed onto path x
    now,      \* the clock
    faults,   \* system calls that have failed
    crashes   \* crashes so far

diskVars == <<disk, temp, backup, stray>>
memVars  == <<Index, mu, listed>>
regVars  == <<req, cap, put, err, out>>
histVars == <<acked, latest>>
envVars  == <<now, faults, crashes>>
vars == <<diskVars, memVars, pc, regVars, status, histVars, envVars>>

NoPut == [src |-> Absent, dst |-> NoPath]

\* main loads the index before it listens.
Serving == pc[Main] = "serving"
Booting == [p \in Procs |-> IF p = Main THEN "lock" ELSE "idle"]

Nothing == [p \in Procs |-> Absent]
NoPuts == [p \in Procs |-> NoPut]
NoErrors == [p \in Procs |-> FALSE]
NoStatus == [p \in Procs |-> 0]

\* The store is empty, or seeded with artifacts and no index.json.
Init ==
    /\ pc = Booting /\ temp = Nothing /\ backup = Nothing
    /\ Index = EmptyIndex /\ mu = Free /\ listed = {}
    /\ req = Nothing /\ cap = Nothing /\ put = NoPuts
    /\ err = NoErrors /\ out = Nothing /\ status = NoStatus
    /\ \E seed \in [Names -> [body : ValidBodies, mtime : {0}] \cup {Absent}] :
           disk = [x \in Paths |-> IF x \in Names THEN seed[x] ELSE Absent]
    /\ stray = {}
    /\ acked = {} /\ latest = disk
    /\ now = 0 /\ faults = 0 /\ crashes = 0

-----------------------------------------------------------------------------
(* Names, authorization, validation.                                       *)

\* X-Qcap-Name: missing or blank, refused by safeArtifactName, or a safe
\* name with or without the .qcap extension, which the handler adds.
Headers == [form : {"blank", "unsafe", "bare", "qcap"}, name : Names]
PublishName(header) ==
    CASE header.form = "blank"  -> DefaultName
      [] header.form = "unsafe" -> NoPath
      [] OTHER                  -> header.name

AuthorizedAlways(bearer) == TRUE    \* mutant: the check is gone
Authorized(bearer) == Token = NoToken \/ bearer = Token

\* validateQcapArchive, validateRevocationList.
ValidArchive(body) == body \in ValidBodies
ValidList(list, issuer) == list.signed /\ list.public_key = issuer

\* The status a handler answers with before it touches the store, 0 if it
\* goes on.
Refusal(r) ==
    CASE r.kind = "publish" ->
           (IF ~ r.post THEN 405
            ELSE IF ~ Authorized(r.bearer) THEN 401
            ELSE IF r.path = NoPath THEN 400 ELSE 0)
      [] r.kind = "revput" ->
           (IF r.path = NoPath THEN 404
            ELSE IF ~ r.post THEN 405
            ELSE IF ~ Authorized(r.bearer) THEN 401 ELSE 0)
      [] r.kind \in {"get", "revget"} -> (IF r.path = NoPath THEN 404 ELSE 0)
      [] OTHER -> 0

FirstStep(kind) ==
    CASE kind \in {"publish", "revput"} -> "stage"
      [] kind = "list" -> "lock"
      [] OTHER -> "rlock"

-----------------------------------------------------------------------------
Goto(p, label) == pc' = [pc EXCEPT ![p] = label]

\* p answers; its handler returns and drops what it held.
Answer(p, code, payload) ==
    /\ Goto(p, "idle")
    /\ status' = [status EXCEPT ![p] = code]
    /\ out' = [out EXCEPT ![p] = payload]
    /\ req' = [req EXCEPT ![p] = Absent]
    /\ cap' = [cap EXCEPT ![p] = Absent]
    /\ put' = [put EXCEPT ![p] = NoPut]
    /\ err' = [err EXCEPT ![p] = FALSE]

\* A request arrives at an idle handler.
Arrive(h, r) ==
    /\ Serving
    /\ pc[h] = "idle"
    /\ IF Refusal(r) # 0
       THEN Answer(h, Refusal(r), Absent)
       ELSE /\ Goto(h, FirstStep(r.kind))
            /\ req' = [req EXCEPT ![h] = r]
            /\ status' = [status EXCEPT ![h] = 0]
            /\ out' = [out EXCEPT ![h] = Absent]
            /\ UNCHANGED <<cap, put, err>>
    /\ UNCHANGED <<diskVars, memVars, histVars, envVars>>

\* Of the requests that are refused with one status only one has to arrive: a
\* refusal keeps nothing else of its request.
Distinct(requests) ==
    {r \in requests : Refusal(r) = 0}
    \cup {CHOOSE r \in requests : Refusal(r) = code :
             code \in {Refusal(r) : r \in requests}}

Publishes ==
    Distinct([kind : {"publish"}, path : {PublishName(header) : header \in Headers},
              post : BOOLEAN, bearer : Bearers, content : Bodies])
RevocationPuts ==
    Distinct([kind : {"revput"}, path : Issuers \cup {NoPath},
              post : BOOLEAN, bearer : Bearers, content : RevocationList])

ArrivePublish(h) == \E r \in Publishes : Arrive(h, r)
ArriveRevocations(h) == \E r \in RevocationPuts : Arrive(h, r)
ArriveDownload(h) ==
    \/ \E n \in Names \cup {NoPath} : Arrive(h, [kind |-> "get", path |-> n])
    \/ \E i \in Issuers \cup {NoPath} : Arrive(h, [kind |-> "revget", path |-> i])
ArriveQuery(h) ==
    \E kind \in {"list", "health"} : Arrive(h, [kind |-> kind, path |-> NoPath])

-----------------------------------------------------------------------------
(* publish and publishRevocations before they take the lock.               *)

\* stageUpload: the whole body is in a temporary file of the store.
Stage(h) ==
    /\ pc[h] = "stage"
    /\ temp' = [temp EXCEPT ![h] =
                  IF req[h].kind = "publish"
                  THEN [body |-> req[h].content, mtime |-> now]
                  ELSE req[h].content]
    /\ Goto(h, "validate")
    /\ UNCHANGED <<disk, backup, stray, memVars, regVars, status, histVars, envVars>>

\* stageUpload fails: the body is too large, or its client went away.
StageFails(h) ==
    /\ pc[h] = "stage"
    /\ \E code \in {413, 500} : Answer(h, code, Absent)
    /\ UNCHANGED <<diskVars, memVars, histVars, envVars>>

\* Mutant: the list is verified against its own key instead of the issuer in
\* the URL.
AcceptableForOther(h) ==
    IF req[h].kind = "publish" THEN ValidArchive(temp[h].body)
                               ELSE ValidList(temp[h], temp[h].public_key)
Acceptable(h) ==
    IF req[h].kind = "publish" THEN ValidArchive(temp[h].body)
                               ELSE ValidList(temp[h], req[h].path)

\* Validation, then the digest and, for an artifact, the candidate created_at:
\* the clock is read before the lock is taken.
Validate(h) ==
    /\ pc[h] = "validate"
    /\ Acceptable(h)
    /\ cap' = [cap EXCEPT ![h] =
                 IF req[h].kind = "publish"
                 THEN [digest |-> temp[h].body, created |-> now] ELSE Absent]
    /\ Goto(h, "lock")
    /\ UNCHANGED <<diskVars, memVars, req, put, err, out, status, histVars, envVars>>

\* The upload is refused and its temporary removed.
Reject(h) ==
    /\ pc[h] = "validate"
    /\ ~ Acceptable(h)
    /\ Answer(h, 400, Absent)
    /\ temp' = [temp EXCEPT ![h] = Absent]
    /\ UNCHANGED <<disk, backup, stray, memVars, histVars, envVars>>

-----------------------------------------------------------------------------
(* Under the write lock: commitArtifact, loadIndexLocked, saveIndexLocked  *)
(* and the replaceFile they end in.                                        *)

TakeWriteLock(p) ==
    /\ pc[p] = "lock"
    /\ mu' = Lock(mu, p)
    /\ Goto(p, "locked")
    /\ UNCHANGED <<diskVars, Index, listed, regVars, status, histVars, envVars>>

Uploading(p) == p # Main /\ req[p].kind \in {"publish", "revput"}

\* A name that is in the index keeps its created_at.
NewCreatedAt(h) == cap    \* mutant: it does not
KeptCreatedAt(h) ==
    IF req[h].kind = "publish" /\ Index[req[h].path] # Absent
    THEN [cap EXCEPT ![h].created = Index[req[h].path].created]
    ELSE cap

\* commitArtifact up to replaceFile.  A revocation list goes straight to it.
Commit(h) ==
    /\ pc[h] = "locked" /\ WriteLocked(mu, h) /\ Uploading(h)
    /\ cap' = KeptCreatedAt(h)
    /\ put' = [put EXCEPT ![h] = [src |-> temp[h], dst |-> req[h].path]]
    /\ Goto(h, "rename")
    /\ UNCHANGED <<diskVars, memVars, req, err, out, status, histVars, envVars>>

\* What follows a replaceFile that succeeded.
AfterReplaceUnlock(p) == "unlock"    \* mutant: the index is not updated
AfterReplaceRecord(p) ==    \* mutant: the index file is recorded as well
    IF put[p].dst \in Issuers THEN "unlock" ELSE "record"
AfterReplace(p) == IF put[p].dst \in Names THEN "record" ELSE "unlock"

\* replaceFile: os.Rename moves the temporary onto its destination.
Rename(p) ==
    /\ pc[p] = "rename"
    /\ disk' = [disk EXCEPT ![put[p].dst] = put[p].src]
    /\ temp' = IF put[p].dst = IndexPath THEN temp ELSE [temp EXCEPT ![p] = Absent]
    /\ latest' = [latest EXCEPT ![put[p].dst] = put[p].src]
    /\ Goto(p, AfterReplace(p))
    /\ UNCHANGED <<backup, stray, memVars, regVars, status, acked, envVars>>

\* The rename onto an existing destination has failed: replaceFile moves the
\* destination aside, renames again, and removes what it moved aside.
\* Mutant: the destination is removed instead of moved aside.
RemoveFirst(p) ==
    /\ pc[p] = "aside"
    /\ disk' = [disk EXCEPT ![put[p].dst] = Absent]
    /\ Goto(p, "swap")
    /\ UNCHANGED <<temp, backup, stray, memVars, regVars, status, histVars, envVars>>
MoveAside(p) ==
    /\ pc[p] = "aside"
    /\ backup' = [backup EXCEPT ![p] = disk[put[p].dst]]
    /\ disk' = [disk EXCEPT ![put[p].dst] = Absent]
    /\ Goto(p, "swap")
    /\ UNCHANGED <<temp, stray, memVars, regVars, status, histVars, envVars>>

Swap(p) ==
    /\ pc[p] = "swap"
    /\ disk' = [disk EXCEPT ![put[p].dst] = put[p].src]
    /\ temp' = IF put[p].dst = IndexPath THEN temp ELSE [temp EXCEPT ![p] = Absent]
    /\ latest' = [latest EXCEPT ![put[p].dst] = put[p].src]
    /\ Goto(p, "discard")
    /\ UNCHANGED <<backup, stray, memVars, regVars, status, acked, envVars>>

Discard(p) ==
    /\ pc[p] = "discard"
    /\ backup' = [backup EXCEPT ![p] = Absent]
    /\ Goto(p, AfterReplace(p))
    /\ UNCHANGED <<disk, temp, stray, memVars, regVars, status, histVars, envVars>>

\* The second rename has failed too: the old file is put back.
Restore(p) ==
    /\ pc[p] = "restore"
    /\ disk' = [disk EXCEPT ![put[p].dst] = backup[p]]
    /\ backup' = [backup EXCEPT ![p] = Absent]
    /\ err' = [err EXCEPT ![p] = TRUE]
    /\ Goto(p, "unlock")
    /\ UNCHANGED <<temp, stray, memVars, req, cap, put, out, status, histVars, envVars>>

\* p puts a new index in memory and hands it to atomicWriteFile.
Save(p, index) ==
    /\ Index' = index
    /\ put' = [put EXCEPT ![p] = [src |-> [index |-> index], dst |-> IndexPath]]
    /\ Goto(p, "rename")

\* commitArtifact after replaceFile: the entry goes into the index.
Record(h) ==
    /\ pc[h] = "record"
    /\ Save(h, [Index EXCEPT ![req[h].path] = cap[h]])
    /\ UNCHANGED <<diskVars, mu, listed, req, cap, err, out, status, histVars, envVars>>

\* loadIndexLocked: filepath.Walk lists the store, temporaries included.
Scan(p) ==
    /\ pc[p] = "locked" /\ WriteLocked(mu, p) /\ ~ Uploading(p)
    /\ listed' = {h \in Procs : temp[h] # Absent}
    /\ Goto(p, "scan")
    /\ UNCHANGED <<diskVars, Index, mu, regVars, status, histVars, envVars>>

\* The index loadIndexLocked builds from the entries of index.json: every
\* artifact found gets its digest anew, and keeps its created_at if it has
\* one; an entry whose file is missing stays.
StoredIndex ==
    IF disk[IndexPath] = Absent THEN EmptyIndex ELSE disk[IndexPath].index
RebuiltTrusting(old) ==    \* mutant: a known entry is not digested again
    [n \in Names |->
        IF disk[n] = Absent \/ old[n] # Absent THEN old[n]
        ELSE [digest |-> disk[n].body, created |-> disk[n].mtime]]
Rebuilt(old) ==
    [n \in Names |->
        IF disk[n] = Absent THEN old[n]
        ELSE [digest  |-> disk[n].body,
              created |-> IF old[n] = Absent THEN disk[n].mtime
                                             ELSE old[n].created]]

Rebuild(p) ==
    /\ pc[p] = "scan"
    /\ Save(p, Rebuilt(StoredIndex))
    /\ listed' = {}
    /\ UNCHANGED <<diskVars, mu, req, cap, err, out, status, histVars, envVars>>

\* p goes to the unlock with an error.
FailsHolding(p) ==    \* mutant: an error returns without Unlock
    /\ err' = [err EXCEPT ![p] = TRUE]
    /\ Goto(p, IF p = Main THEN "serving" ELSE IF Uploading(p) THEN "reply" ELSE "rlock")
Fails(p) ==
    /\ err' = [err EXCEPT ![p] = TRUE]
    /\ Goto(p, "unlock")

\* A temporary the scan listed is gone when it is looked at: Walk fails and
\* the index stays as it is.
\* Mutant: r.Index is truncated before the walk, not after it.
ScanLosesIndex(p) ==
    /\ pc[p] = "scan"
    /\ \E h \in listed : temp[h] = Absent
    /\ listed' = {}
    /\ Index' = EmptyIndex
    /\ Fails(p)
    /\ UNCHANGED <<diskVars, mu, req, cap, put, out, status, histVars, envVars>>
ScanLosesTemp(p) ==
    /\ pc[p] = "scan"
    /\ \E h \in listed : temp[h] = Absent
    /\ listed' = {}
    /\ Fails(p)
    /\ UNCHANGED <<diskVars, Index, mu, req, cap, put, out, status, histVars, envVars>>

\* Unlock.  An upload answers next, a listing takes its snapshot, main serves:
\* both ignore the error of loadIndex.
ReleaseWriteLock(p) ==
    /\ pc[p] = "unlock"
    /\ mu' = Unlock(mu)
    /\ put' = [put EXCEPT ![p] = NoPut]
    /\ err' = IF Uploading(p) THEN err ELSE [err EXCEPT ![p] = FALSE]
    /\ Goto(p, IF p = Main THEN "serving"
               ELSE IF Uploading(p) THEN "reply" ELSE "rlock")
    /\ UNCHANGED <<diskVars, Index, listed, req, cap, out, status, histVars, envVars>>

\* The answer to an upload; the deferred os.Remove takes a temporary that was
\* not renamed.
Reply(h) ==
    /\ pc[h] = "reply"
    /\ Answer(h, IF err[h] THEN 500 ELSE 201, Absent)
    /\ temp' = [temp EXCEPT ![h] = Absent]
    /\ acked' = IF req[h].kind = "publish" /\ ~ err[h]
                THEN acked \cup {req[h].path} ELSE acked
    /\ UNCHANGED <<disk, backup, stray, memVars, latest, envVars>>

-----------------------------------------------------------------------------
(* Under the read lock: health, indexSnapshot, artifact, serveRevocations. *)

TakeReadLock(h) ==
    /\ pc[h] = "rlock"
    /\ mu' = RLock(mu, h)
    /\ Goto(h, "read")
    /\ UNCHANGED <<diskVars, Index, listed, regVars, status, histVars, envVars>>

\* The deferred RUnlock; until then the lock is held.
Leave(h) == mu' = RUnlock(mu, h) /\ UNCHANGED <<Index, listed>>
HoldReadLock(h) == UNCHANGED memVars

\* What a client learns of the index: the artifacts and their digests.
Listing(index) ==
    [n \in Names |-> IF index[n] = Absent THEN Absent ELSE index[n].digest]

\* health counts the index, a listing copies it.
Snapshot(h) ==
    /\ pc[h] = "read" /\ ReadLocked(mu, h)
    /\ \/ req[h].kind = "list" /\ Answer(h, 200, [artifacts |-> Listing(Index)])
       \/ /\ req[h].kind = "health"
          /\ Answer(h, 200, [count |-> Cardinality({n \in Names : Index[n] # Absent})])
    /\ Leave(h)
    /\ UNCHANGED <<diskVars, histVars, envVars>>

\* The bytes of the file at x.
Contents(x) == IF x \in Names /\ disk[x] # Absent THEN disk[x].body ELSE disk[x]

\* http.ServeFile opens the file, or answers 404 ...
Open(h) ==
    /\ pc[h] = "read" /\ ReadLocked(mu, h)
    /\ req[h].kind \in {"get", "revget"}
    /\ IF disk[req[h].path] = Absent
       THEN Answer(h, 404, Absent) /\ Leave(h)
       ELSE /\ out' = [out EXCEPT ![h] = Contents(req[h].path)]
            /\ Goto(h, "stream")
            /\ HoldReadLock(h)
            /\ UNCHANGED <<req, cap, put, err, status>>
    /\ UNCHANGED <<diskVars, histVars, envVars>>

\* ... and sends it with the read lock held, as fast as the client reads.
Stream(h) ==
    /\ pc[h] = "stream"
    /\ Answer(h, 200, out[h])
    /\ Leave(h)
    /\ UNCHANGED <<diskVars, histVars, envVars>>

-----------------------------------------------------------------------------
(* System calls that fail, within MaxFaults.                               *)

Fault == faults < MaxFaults /\ faults' = faults + 1 /\ UNCHANGED <<now, crashes>>

\* fileDigest of the upload fails.
DigestFailsDirty(h) ==    \* mutant: the temporary is not removed
    /\ pc[h] = "validate" /\ Acceptable(h)
    /\ Answer(h, 500, Absent)
    /\ Fault
    /\ UNCHANGED <<diskVars, memVars, histVars>>
DigestFails(h) ==
    /\ pc[h] = "validate" /\ Acceptable(h)
    /\ Answer(h, 500, Absent)
    /\ temp' = [temp EXCEPT ![h] = Absent]
    /\ Fault
    /\ UNCHANGED <<disk, backup, stray, memVars, histVars>>

\* The first rename fails; with no file at the destination that is an error.
RenameFails(p) ==
    /\ pc[p] = "rename"
    /\ IF disk[put[p].dst] = Absent
       THEN Fails(p)
       ELSE Goto(p, "aside") /\ UNCHANGED err
    /\ Fault
    /\ UNCHANGED <<diskVars, memVars, req, cap, put, out, status, histVars>>

\* No directory, no temporary for index.json, or no stat of the destination.
PrepareFails(p) ==
    /\ pc[p] = "rename"
    /\ Fails(p)
    /\ Fault
    /\ UNCHANGED <<diskVars, memVars, req, cap, put, out, status, histVars>>

MoveAsideFails(p) ==
    /\ pc[p] = "aside"
    /\ Fails(p)
    /\ Fault
    /\ UNCHANGED <<diskVars, memVars, req, cap, put, out, status, histVars>>

SwapFails(p) ==
    /\ pc[p] = "swap"
    /\ Goto(p, "restore")
    /\ Fault
    /\ UNCHANGED <<diskVars, memVars, regVars, status, histVars>>

\* The backup stays where it is, under its own name.
Strand(p) ==
    /\ stray' = stray \cup {<<put[p].dst, backup[p]>>}
    /\ backup' = [backup EXCEPT ![p] = Absent]
    /\ UNCHANGED <<disk, temp>>

\* Nothing puts the old file back: its path stays empty.
RestoreFails(p) ==
    /\ pc[p] = "restore"
    /\ Strand(p)
    /\ Fails(p)
    /\ Fault
    /\ UNCHANGED <<memVars, req, cap, put, out, status, histVars>>

\* The new file is in place, yet replaceFile reports an error.
DiscardFails(p) ==
    /\ pc[p] = "discard"
    /\ Strand(p)
    /\ Fails(p)
    /\ Fault
    /\ UNCHANGED <<memVars, req, cap, put, out, status, histVars>>

\* A file of the store cannot be read.
ScanFails(p) ==
    /\ pc[p] = "scan"
    /\ listed' = {}
    /\ Fails(p)
    /\ Fault
    /\ UNCHANGED <<diskVars, Index, mu, req, cap, put, out, status, histVars>>

\* index.json cannot be read: loadIndexLocked goes on as if it were empty.
IndexUnreadable(p) ==
    /\ pc[p] = "scan"
    /\ Save(p, Rebuilt(EmptyIndex))
    /\ listed' = {}
    /\ Fault
    /\ UNCHANGED <<diskVars, mu, req, cap, err, out, status, histVars>>

-----------------------------------------------------------------------------
(* The environment.                                                        *)

Tick ==
    /\ now < MaxClock
    /\ now' = now + 1
    /\ UNCHANGED <<diskVars, memVars, pc, regVars, status, histVars, faults, crashes>>

\* The process dies and is started again: only the store directory survives.
\* Temporaries that were under way are abandoned; no name they can have is
\* one the registry looks at.
Crash ==
    /\ crashes < MaxCrashes
    /\ crashes' = crashes + 1
    /\ stray' = stray \cup
          {<<put[p].dst, backup[p]>> : p \in {q \in Procs : backup[q] # Absent}}
    /\ pc' = Booting /\ temp' = Nothing /\ backup' = Nothing
    /\ Index' = EmptyIndex /\ mu' = Free /\ listed' = {}
    /\ req' = Nothing /\ cap' = Nothing /\ put' = NoPuts
    /\ err' = NoErrors /\ out' = Nothing /\ status' = NoStatus
    /\ UNCHANGED <<disk, histVars, now, faults>>

-----------------------------------------------------------------------------
Requests(h) ==
    \/ ArrivePublish(h) \/ ArriveRevocations(h)
    \/ ArriveDownload(h) \/ ArriveQuery(h)

\* Steps under the write lock, of a handler or of main.
LockedStep(p) ==
    \/ TakeWriteLock(p) \/ Scan(p) \/ Rebuild(p) \/ ScanLosesTemp(p)
    \/ Rename(p) \/ MoveAside(p) \/ Swap(p) \/ Restore(p) \/ Discard(p)
    \/ ReleaseWriteLock(p)

\* Steps only a handler takes.
HandlerStep(h) ==
    \/ Validate(h) \/ Reject(h) \/ Commit(h) \/ Record(h) \/ Reply(h)
    \/ TakeReadLock(h) \/ Snapshot(h) \/ Open(h)

\* Steps that wait for the client: its body arrives, or the download is read.
ClientStep(h) == Stage(h) \/ StageFails(h) \/ Stream(h)

FaultStep(p) ==
    \/ RenameFails(p) \/ PrepareFails(p) \/ MoveAsideFails(p) \/ SwapFails(p)
    \/ RestoreFails(p) \/ DiscardFails(p) \/ ScanFails(p) \/ IndexUnreadable(p)

Next ==
    \/ \E h \in Handlers : 
          Requests(h) \/ ClientStep(h) \/ HandlerStep(h) \/ DigestFails(h)
    \/ \E p \in Procs : LockedStep(p) \/ FaultStep(p)
    \/ Tick
    \/ Crash

Spec == Init /\ [][Next]_vars

\* The scheduler lets the handlers and main run.  Nothing is assumed of the
\* clients: no timeout bounds how long a request waits for one.
Fairness ==
    /\ \A p \in Procs : WF_vars(LockedStep(p))
    /\ \A h \in Handlers : WF_vars(HandlerStep(h))

FairSpec == Spec /\ Fairness

-----------------------------------------------------------------------------
(* Properties.                                                             *)

Labels == {"idle", "stage", "validate", "lock", "locked", "scan", "rename",
           "aside", "swap", "restore", "discard", "record", "unlock", "reply",
           "rlock", "read", "stream", "serving"}

\* Steps of replaceFile, steps between Lock and Unlock, once the process has
\* acted on its lock, and those from the call of Lock or RLock on.
Replacing == {"rename", "aside", "swap", "restore", "discard"}
Critical == Replacing \cup {"scan", "record", "unlock"}
Writing == Critical \cup {"locked"}
Reading == {"read", "stream"}

\* No answer yet, or the HTTP status of the answer.
Statuses == {0, 200, 201, 400, 401, 404, 405, 413, 500}

\* Every variable has its type.
TypeOK ==
    /\ disk \in [Paths -> Files \cup {Absent}]
    /\ temp \in [Procs -> Artifact \cup RevocationList \cup {Absent}]
    /\ backup \in [Procs -> Files \cup {Absent}]
    /\ stray \subseteq (Paths \X Files)
    /\ Index \in IndexValue
    /\ mu \in [writers : Seq(Procs), readers : SUBSET Procs, parked : SUBSET Procs]
    /\ listed \subseteq Procs
    /\ pc \in [Procs -> Labels]
    /\ req \in [Procs -> Request \cup {Absent}]
    /\ cap \in [Procs -> Capsule \cup {Absent}]
    /\ put \in [Procs -> [src : Files \cup {Absent}, dst : Paths \cup {NoPath}]]
    /\ err \in [Procs -> BOOLEAN]
    /\ status \in [Procs -> Statuses]
    /\ acked \subseteq Names /\ latest \in [Paths -> Files \cup {Absent}]
    /\ now \in Times /\ faults \in 0 .. MaxFaults /\ crashes \in 0 .. MaxCrashes

\* Whatever fails or crashes, every artifact in the store has passed
\* validateQcapArchive, and every revocation list is signed by the issuer it
\* is filed under: clients are served nothing else.
OnlyValidStored ==
    /\ \A n \in Names : disk[n] # Absent => disk[n].body \in ValidBodies
    /\ \A i \in Issuers : disk[i] # Absent => disk[i].signed /\ disk[i].public_key = i

\* With no writer at work, the index in memory, index.json and the files of
\* the store agree: same artifacts, same digests, same created_at in both.
IndexFaithful ==
    (Serving /\ \A p \in Procs : ~ WriteLocked(mu, p)) =>
        /\ StoredIndex = Index
        /\ \A n \in Names : Listing(Index)[n] = Contents(n)

\* An artifact whose upload was answered 201 is in the store and in
\* index.json from then on, after a crash at any point as well.
AckedDurable ==
    \A n \in acked : disk[n] # Absent /\ StoredIndex[n] # Absent

\* created_at in index.json is written once: no republication, reload or
\* restart changes it, though publish reads the clock before it takes the
\* lock and a reload may meet files newer than their entries.
CreatedAtStable ==
    [][\A n \in Names :
          StoredIndex[n] # Absent =>
              /\ StoredIndex'[n] # Absent
              /\ StoredIndex'[n].created = StoredIndex[n].created]_vars

\* A download is never replaced under its reader.
StreamStable ==
    \A h \in Handlers : pc[h] = "stream" => out[h] = Contents(req[h].path)

\* A file of the store changes only on behalf of a request that posted to its
\* path with the right token and holds the lock alone: no reload, restart or
\* failing rename touches it, and no two uploads write it at once.
WritesJustified ==
    [][\A x \in Names \cup Issuers :
          disk'[x] # disk[x] =>
              \E h \in Handlers :
                  /\ WriteLocked(mu, h)
                  /\ Uploading(h)
                  /\ req[h].path = x /\ req[h].post
                  /\ Token \in {NoToken, req[h].bearer}]_vars

\* File f is in the store: at path x, or in a backup of what was there.
Kept(x, f) ==
    \/ disk[x] = f
    \/ \E p \in Procs : put[p].dst = x /\ backup[p] = f
    \/ <<x, f>> \in stray

\* An artifact, a revocation list or an index once renamed onto its path is in
\* the store until another is: a replacement that fails half-way, or dies, may
\* leave the path empty, but then the bytes last put there, and no older ones,
\* are in a backup.  Every acknowledged artifact is such a file.
AckedBytesSurvive ==
    /\ \A n \in acked : latest[n] # Absent
    /\ \A x \in Paths : latest[x] # Absent => Kept(x, latest[x])

\* p waits for the lock: its Lock or RLock has not returned.
Waits(p) ==
    \/ pc[p] = "locked" /\ ~ WriteLocked(mu, p)
    \/ pc[p] = "read" /\ ~ ReadLocked(mu, p)

\* p has the lock and has yet to give it back.
Holds(p) ==
    \/ pc[p] \in Writing /\ WriteLocked(mu, p)
    \/ pc[p] \in Reading /\ ReadLocked(mu, p)

\* Nobody waits for a lock that nobody gives back: whichever system calls fail,
\* every return from under the lock, on the error paths of loadIndexLocked,
\* commitArtifact and replaceFile too, has unlocked it, and parks no reader.
NoLockLost == (\E p \in Procs : Waits(p)) => \E q \in Procs : Holds(q)

\* The steps p may take before it unlocks: those of one replaceFile, and of
\* another for index.json unless this is it.
StepsToUnlock(p) ==
    LET steps == [locked |-> 10, record |-> 5, scan |-> 5, rename |-> 4, aside |-> 3,
                  swap |-> 2, restore |-> 1, discard |-> 1, unlock |-> 0]
    IN  steps[pc[p]] + (IF pc[p] \in Replacing /\ put[p].dst # IndexPath THEN 5 ELSE 0)

\* Who has called Lock comes to its Unlock in a bounded number of its own
\* steps, whichever of them fail, and leaves by no other way: saving the index
\* after an artifact does not record an artifact again.
LockGivenBack ==
    [][crashes' = crashes =>
          \A p \in Procs : pc[p] \in Writing /\ pc'[p] # pc[p] =>
              \/ pc[p] = "unlock" /\ mu' = Unlock(mu)
              \/ pc'[p] \in Writing /\ StepsToUnlock(p)' < StepsToUnlock(p)]_vars

\* No client stalls for ever, in its upload or in its download.
ClientsKeepUp == \A h \in Handlers : []<>(pc[h] \notin {"stage", "stream"})

\* If no client stalls for ever, then every request is answered and the
\* registry always gets to serve, whatever mix of uploads, downloads and
\* listings waits for the lock.
RequestsAnswered ==
    ClientsKeepUp => /\ []<>Serving
                     /\ \A h \in Handlers : []<>(pc[h] = "idle")

\* An upload leaves no temporary behind, on any of its error paths.
NoUploadLeft == \A p \in Procs : pc[p] \in {"idle", "serving"} => temp[p] = Absent

\* "Uploads are staged and validated before atomically replacing stored files"
\* (services/qcap-registry/README.md): a stored artifact never goes missing.
ReplacedAtomically ==
    [][\A n \in Names : disk[n] # Absent => disk'[n] # Absent]_vars
=============================================================================
