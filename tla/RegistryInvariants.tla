------------------------ MODULE RegistryInvariants ------------------------
(***************************************************************************)
(* The inductive invariant behind the registry's safety properties.  It    *)
(* follows an upload from its request to the path it ends up at: what each *)
(* handler holds, at each of its steps, is something that path may store.  *)
(***************************************************************************)
EXTENDS Registry

\* Steps of replaceFile with the old file moved aside.
MovedAside == {"swap", "restore", "discard"}

\* The store may keep file f at path x.
FitsAt(f, x) ==
    \/ x \in Names /\ f \in Artifact /\ f.body \in ValidBodies
    \/ x \in Issuers /\ f \in RevocationList /\ f.signed /\ f.public_key = x
    \/ x = IndexPath /\ f \in IndexFile

\* A process between Lock and Unlock owns the lock.
Locking == \A p \in Procs : pc[p] \in Critical => WriteLocked(mu, p)

\* The queue of the lock: a process is in it, once, from Lock to Unlock; it is
\* admitted or parked from RLock to RUnlock, and never parked behind nobody.
Queued ==
    /\ \A j, k \in DOMAIN mu.writers : mu.writers[j] = mu.writers[k] => j = k
    /\ \A p \in Procs :
          /\ (\E k \in DOMAIN mu.writers : mu.writers[k] = p) <=> (pc[p] \in Writing)
          /\ (p \in mu.readers \cup mu.parked) <=> (pc[p] \in Reading)
          /\ pc[p] = "stream" => p \in mu.readers
    /\ mu.readers \cap mu.parked = {}
    /\ mu.parked # {} => mu.writers # <<>>

\* A handler at work has a request its steps are the steps of; an upload has
\* posted to a proper path with the right token.
RequestFits ==
    \A h \in Handlers :
        pc[h] # "idle" =>
            /\ req[h] \in Request
            /\ pc[h] \in {"stage", "validate", "record", "reply"} => Uploading(h)
            /\ pc[h] = "scan" => ~ Uploading(h)
            /\ Uploading(h) =>
                  req[h].path # NoPath /\ req[h].post /\ Authorized(req[h].bearer)

\* What a handler has staged is of the kind it was asked to store, and once
\* validated it fits the path the handler will store it at.
StagedFits ==
    \A h \in Handlers :
        (pc[h] \in {"validate", "lock", "locked"} /\ Uploading(h)) =>
            /\ temp[h] \in IF req[h].kind = "publish" THEN Artifact ELSE RevocationList
            /\ pc[h] # "validate" => FitsAt(temp[h], req[h].path)
            /\ (pc[h] # "validate" /\ req[h].kind = "publish") => cap[h] \in Capsule

\* What replaceFile moves fits its destination, which is index.json or the
\* path of the request.
PutFits ==
    \A p \in Procs :
        pc[p] \in Replacing =>
            /\ FitsAt(put[p].src, put[p].dst)
            /\ put[p].dst = IndexPath \/ (Uploading(p) /\ put[p].dst = req[p].path)

\* replaceFile moves aside a file that is there, puts back what was there, and
\* removes the backup only when the new file is in place.
BackupFits ==
    \A p \in Procs :
        /\ pc[p] \in {"aside", "discard"} => disk[put[p].dst] # Absent
        /\ (backup[p] # Absent) <=> (pc[p] \in MovedAside)
        /\ pc[p] \in MovedAside => FitsAt(backup[p], put[p].dst)

\* Every file of the store fits its path.
DiskFits == \A x \in Paths : disk[x] # Absent => FitsAt(disk[x], x)

\* An upload whose artifact has been stored without an error so far.
Stored(h) ==
    /\ \/ pc[h] \in {"record", "unlock", "reply"}
       \/ pc[h] \in Replacing /\ put[h].dst = IndexPath
    /\ Uploading(h) /\ req[h].kind = "publish" /\ ~ err[h]

\* What was last renamed onto a path is in the store; it is what the path holds,
\* if it holds anything, and what replaceFile has moved aside and would put back.
LatestKept ==
    /\ \A x \in Paths : latest[x] # Absent => Kept(x, latest[x])
    /\ \A x \in Paths : disk[x] # Absent => disk[x] = latest[x]
    /\ \A p \in Procs : pc[p] \in {"swap", "restore"} => backup[p] = latest[put[p].dst]

\* Acknowledged artifacts, and those about to be, have been renamed onto their
\* paths.  Inductive together with IInv and LatestKept.
StoredKept ==
    /\ \A n \in acked : latest[n] # Absent
    /\ \A h \in Handlers : Stored(h) => latest[req[h].path] # Absent

\* The inductive invariant: each file, whether stored, staged, being moved or
\* moved aside, is one the registry may serve at the path it is meant for.
IInv ==
    /\ TypeOK /\ Locking /\ RequestFits /\ StagedFits
    /\ PutFits /\ BackupFits /\ DiskFits

\* A handler at work has not answered yet.
Unanswered == \A h \in Handlers : pc[h] # "idle" => status[h] = 0

-----------------------------------------------------------------------------
(* As long as no system call has failed: the index and the answers.        *)

\* main has the index of the store in memory.
Loaded == pc[Main] \in {"rename", "unlock", "serving"}

\* p is about to rename the index in memory onto index.json.
Saving(p) == pc[p] = "rename" /\ put[p].dst = IndexPath

\* The upload of an artifact.
Publishing(h) == pc[h] # "idle" /\ Uploading(h) /\ req[h].kind = "publish"

\* Index new has every entry of index old, with the created_at it had.
Keeps(new, old) ==
    \A n \in Names :
        old[n] # Absent => new[n] # Absent /\ new[n].created = old[n].created

\* cap[h] is an entry for file f that keeps the created_at of its name.
EntryOf(h, f) ==
    /\ cap[h] \in Capsule /\ f # Absent /\ cap[h].digest = f.body
    /\ Index[req[h].path] # Absent => cap[h].created = Index[req[h].path].created

\* f is what h was asked to store.
Carries(h, f) ==
    IF req[h].kind = "publish" THEN f.body = req[h].content ELSE f = req[h].content

\* Until main serves, no handler has anything under way.
BootsAlone ==
    ~ Serving => /\ \A h \in Handlers : pc[h] = "idle"
                 /\ temp = Nothing /\ listed = {}

\* replaceFile needs its first rename only; no process is in error but one
\* that unlocks after a reload that lost a temporary.
NothingFails ==
    \A p \in Procs :
        /\ pc[p] \notin {"aside"} \cup MovedAside
        /\ err[p] => pc[p] = "unlock" /\ ~ Uploading(p)

\* The entry of an upload follows its artifact: from its temporary to its path,
\* into the index in memory, into index.json.
EntryFits ==
    \A h \in Handlers :
        /\ pc[h] = "record" => Publishing(h)
        /\ Publishing(h) =>
              /\ pc[h] \in {"lock", "locked"} => cap[h].digest = temp[h].body
              /\ pc[h] = "rename" /\ ~ Saving(h) => EntryOf(h, put[h].src)
              /\ pc[h] = "record" => EntryOf(h, disk[req[h].path])
              /\ Saving(h) => Index[req[h].path] # Absent
              /\ pc[h] \in {"unlock", "reply"} => StoredIndex[req[h].path] # Absent

\* index.json lists files of the store only.  The index main has loaded is
\* index.json, or about to become it, and agrees with every file of the store
\* but one whose upload is about to record it.
IndexFollows ==
    /\ \A n \in Names : StoredIndex[n] # Absent => disk[n] # Absent
    /\ \A p \in Procs : Saving(p) => put[p].src.index = Index
    /\ Loaded =>
          /\ Keeps(Index, StoredIndex)
          /\ (\A p \in Procs : ~ Saving(p)) => StoredIndex = Index
          /\ \A n \in Names :
                \/ Listing(Index)[n] = Contents(n)
                \/ \E h \in Handlers : pc[h] = "record" /\ req[h].path = n

\* What an upload carries is what its client has sent, in its temporary until
\* it is renamed onto its destination and nowhere else after that; a handler
\* has nothing to answer with before it has opened a file.
CallHeld ==
    \A h \in Handlers :
        /\ pc[h] = "idle" <=> req[h] = Absent
        /\ pc[h] \notin {"idle", "stream"} => out[h] = Absent
        /\ (pc[h] # "idle" /\ Uploading(h)) =>
              /\ pc[h] \in {"validate", "lock", "locked"} => Carries(h, temp[h])
              /\ pc[h] = "rename" /\ ~ Saving(h) =>
                    temp[h] # Absent /\ Carries(h, put[h].src)
              /\ pc[h] \in {"record", "unlock", "reply"} \/ Saving(h) =>
                    temp[h] = Absent

\* The inductive invariant, next to IInv, of the registry up to the first
\* system call that fails.
FaultFree ==
    /\ BootsAlone /\ NothingFails /\ EntryFits /\ IndexFollows
    /\ CallHeld /\ AckedDurable
FaultFreeInv == faults = 0 => FaultFree
=============================================================================
