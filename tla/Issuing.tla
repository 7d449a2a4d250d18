------------------------------ MODULE Issuing ------------------------------
(***************************************************************************)
(* The commands that issue: init, pack, seal and grant (core/qcap-cli/src/ *)
(* main.rs, with the archive writer of qcap-core), several at a time on    *)
(* one directory, one keyfile, one archive and one capability file.        *)
(*                                                                         *)
(* Every file is written in place, truncated first; the input directory is *)
(* listed and then read file by file, by pack twice.  Between any two such *)
(* steps another command may write the same files, the directory may       *)
(* change, and the command may be killed.                                  *)
(*                                                                         *)
(* Abstractions: hashes have no collisions, so a payload stands for its    *)
(* Merkle root, and a sealed payload for the plaintexts in it; a file of   *)
(* the directory is a number, in listing order.                            *)
(***************************************************************************)
EXTENDS Keyfile, FiniteSetsExt

CONSTANTS
    Procs,        \* running commands
    NPaths,       \* files of the directory are 1 .. NPaths
    Bytes,        \* contents of files
    Blank,        \* that of an empty file
    NoFile,       \* no file under a path
    Trees,        \* input directories to begin with
    Signers,      \* keys that may have packed the directory before
    Keyfiles,     \* keyfiles to begin with, and their permissions
    Givens,       \* the ways a command is given its passphrase
    MaxCommands,  \* bound on commands
    MaxChanges,   \* bound on changes of the directory
    MaxKills      \* bound on killed or failing commands

Paths == 1 .. NPaths
Payload == [Paths -> Bytes \cup {NoFile}]
Nothing == [n \in Paths |-> NoFile]
Commands == {"init", "pack", "seal", "grant"}
Targets == {"keyfile", "archive", "capability"}

ASSUME PathsAssumption == NPaths \in Nat
ASSUME BytesAssumption == Blank \in Bytes /\ NoFile \notin Bytes
ASSUME TreesAssumption == Trees \subseteq Payload \cup {Absent}
ASSUME KeyfilesAssumption ==
    Keyfiles \subseteq [file : Identity \cup {Absent, Torn}, mode : {"private", "open"}]
ASSUME SignersAssumption == Signers \subseteq Keys
ASSUME GivensAssumption == Givens \subseteq Given
ASSUME BoundsAssumption ==
    MaxCommands \in Nat /\ MaxChanges \in Nat /\ MaxKills \in Nat

\* issuer: the issuer the manifest names, by its public key (pack names none);
\* signer: the key the manifest is signed with, over root and issuer.
Archive == [root : Payload, issuer : Keys \cup {Absent}, signer : Keys, payload : Payload]
Capability == [root : Payload, signer : Keys]

\* The markers are no values: no key, no record.
ASSUME MarkersAssumption ==
    /\ Absent \notin Keys \cup Payload \cup Passphrase
    /\ \A marker \in {Absent, Empty, Torn} :
        marker \notin Identity /\ marker \notin Archive /\ marker \notin Capability

VARIABLES
    tree,     \* the input directory, or Absent
    disk,     \* disk[t]: the file commands write at t
    mode,     \* permissions of the keyfile: "private" (0600) or "open"
    pc,       \* the next step of each command
    cmd,      \* the command
    given,    \* how it gets its passphrase
    ident,    \* the identity it has read
    key,      \* its signing key, once it has it
    seen,     \* what it has read of the directory, or the root it has verified
    left,     \* listed and not yet read
    copied,   \* what it has put into its archive
    shared,   \* another command has been writing the same file
    used,     \* the keys there have been
    bounds,   \* commands, changes and kills so far
    steady,   \* history: steady[p]: the directory has not changed since p began
    ever,     \* history: ever[n]: what there has been under path n
    verified  \* history: roots of the archives that grant has verified

locals == <<cmd, given, ident, key, seen, left, copied, shared, steady>>
histories == <<ever, verified>>
vars == <<tree, disk, mode, pc, locals, used, bounds, histories>>

\* Archives that may be there when it begins.
Before ==
    {Absent} \cup
        IF tree = Absent THEN {}
        ELSE {[root |-> tree, issuer |-> Absent, signer |-> k, payload |-> tree] : k \in Signers}

Init ==
    /\ tree \in Trees
    /\ \E k \in Keyfiles, a \in Before :
        /\ disk = [keyfile |-> k.file, archive |-> a, capability |-> Absent]
        /\ mode = k.mode
        /\ used = IF k.file \in Identity THEN {k.file.public, k.file.secret, k.file.bound} ELSE {}
    /\ pc = [p \in Procs |-> "idle"]
    /\ cmd = [p \in Procs |-> "init"]
    /\ given = [p \in Procs |-> Absent]
    /\ ident = [p \in Procs |-> Absent]
    /\ key = [p \in Procs |-> Absent]
    /\ seen = [p \in Procs |-> Nothing]
    /\ left = [p \in Procs |-> {}]
    /\ copied = [p \in Procs |-> Nothing]
    /\ shared = [p \in Procs |-> FALSE]
    /\ bounds = [commands |-> 0, changes |-> 0, kills |-> 0]
    /\ steady = [p \in Procs |-> TRUE]
    /\ ever = [n \in Paths |-> {IF tree = Absent THEN NoFile ELSE tree[n]}]
    /\ verified = {}

-----------------------------------------------------------------------------
(* Steps. *)

Step(p, from, to) == pc[p] = from /\ pc' = [pc EXCEPT ![p] = to]

\* A command ends; of init that reports success, its key and its passphrase
\* are kept for the properties.
End(p, how, kept) ==
    /\ pc' = [pc EXCEPT ![p] = how]
    /\ cmd' = [cmd EXCEPT ![p] = "init"]
    /\ given' = [given EXCEPT ![p] = kept.given]
    /\ key' = [key EXCEPT ![p] = kept.key]
    /\ ident' = [ident EXCEPT ![p] = Absent]
    /\ seen' = [seen EXCEPT ![p] = Nothing]
    /\ left' = [left EXCEPT ![p] = {}]
    /\ copied' = [copied EXCEPT ![p] = Nothing]
    /\ shared' = [shared EXCEPT ![p] = FALSE]
    /\ steady' = [steady EXCEPT ![p] = TRUE]

Ended == [given |-> Absent, key |-> Absent]

\* An error ends the command; what it has written stays.
Fail(p) == End(p, "idle", Ended)

Unwritten == UNCHANGED <<tree, disk, mode, used, bounds, histories>>

Listing == IF tree = Absent THEN {} ELSE {n \in Paths : tree[n] # NoFile}
Contents(n) == IF tree = Absent THEN NoFile ELSE tree[n]

\* The files the command writes in place, from Create to Finish.
Target(c) == CASE c = "init" -> "keyfile" [] c = "grant" -> "capability" [] OTHER -> "archive"
Writing(p) == pc[p] \in {"chmod", "relist", "copy", "finish"}
Rivals(p) == {q \in Procs \ {p} : Writing(q) /\ Target(cmd[q]) = Target(cmd[p])}

AfterCreate(c) == CASE c = "init" -> "chmod" [] c = "pack" -> "relist" [] OTHER -> "finish"
FirstStep(c) == CASE c = "init" -> "create" [] c = "pack" -> "list"
                  [] c = "seal" -> "key" [] c = "grant" -> "verify"

-----------------------------------------------------------------------------
(* Commands. *)

\* run: a command starts.  init has read its passphrase and generated its
\* keys by the time it touches a file.
Begin(p) ==
    /\ pc[p] \in {"idle", "done"} /\ bounds.commands < MaxCommands
    /\ \E c \in Commands, g \in Givens :
        /\ pc' = [pc EXCEPT ![p] = FirstStep(c)]
        /\ cmd' = [cmd EXCEPT ![p] = c]
        /\ given' = [given EXCEPT ![p] = g]
        /\ \/ /\ c = "init" /\ ReadPassphrase(g) # Absent
              /\ \E k \in Keys \ used : key' = [key EXCEPT ![p] = k] /\ used' = used \cup {k}
           \/ c # "init" /\ key' = [key EXCEPT ![p] = Absent] /\ UNCHANGED used
    /\ bounds' = [bounds EXCEPT !.commands = @ + 1]
    /\ UNCHANGED <<tree, disk, mode, ident, seen, left, copied, shared, steady, histories>>

\* Mutant of Verifies: the payload is not hashed.
VerifiesSigned(file) == file \in Archive

\* verify_archive: the payload has the root that was signed.
Verifies(file) == file \in Archive /\ file.payload = file.root

\* Mutant of VerifyFirst: the manifest is read and not the payload.
ReadManifest(p) ==
    /\ disk.archive \in Archive /\ Step(p, "verify", "key")
    /\ seen' = [seen EXCEPT ![p] = disk.archive.root]
    /\ verified' = IF Verifies(disk.archive) THEN verified \cup {disk.archive.root} ELSE verified
    /\ UNCHANGED <<tree, disk, mode, cmd, given, ident, key, left, copied, shared, steady,
                   used, bounds, ever>>

VerifyFirst(p) ==
    /\ Verifies(disk.archive) /\ Step(p, "verify", "key")
    /\ seen' = [seen EXCEPT ![p] = disk.archive.root]
    /\ verified' = verified \cup {disk.archive.root}
    /\ UNCHANGED <<tree, disk, mode, cmd, given, ident, key, left, copied, shared, steady,
                   used, bounds, ever>>

VerifyFails(p) == pc[p] = "verify" /\ ~ Verifies(disk.archive) /\ Fail(p) /\ Unwritten

\* seal and grant: the identity is read and parsed, and its passphrase read;
\* seal has seen before that its input is a directory.
LoadIdentity(p) ==
    LET readable == /\ Parses(disk.keyfile) /\ PassphraseRead(disk.keyfile, given[p])
                    /\ cmd[p] = "seal" => tree # Absent
    IN  /\ pc[p] = "key"
        /\ \/ /\ readable /\ Step(p, "key", IF cmd[p] = "seal" THEN "list" ELSE "read")
              /\ ident' = [ident EXCEPT ![p] = disk.keyfile]
              /\ UNCHANGED <<cmd, given, key, seen, left, copied, shared, steady>>
           \/ ~ readable /\ Fail(p)
        /\ Unwritten

\* pack (compute_payload_merkle_root) and seal: the directory is listed; one
\* that is not there is taken for an empty one.
List(p) ==
    /\ Step(p, "list", "read")
    /\ left' = [left EXCEPT ![p] = Listing]
    /\ UNCHANGED <<cmd, given, ident, key, seen, copied, shared, steady>> /\ Unwritten

\* Every listed file is read, in order, and hashed (by pack) or encrypted
\* into a private directory (by seal); one that is gone is an error.
Read(p) ==
    /\ pc[p] = "read" /\ left[p] # {}
    /\ LET n == Min(left[p])
       IN  \/ /\ Contents(n) # NoFile
              /\ seen' = [seen EXCEPT ![p][n] = Contents(n)]
              /\ left' = [left EXCEPT ![p] = @ \ {n}]
              /\ UNCHANGED <<pc, cmd, given, ident, key, copied, shared, steady>>
           \/ Contents(n) = NoFile /\ Fail(p)
    /\ Unwritten

\* Mutant of UnlockedKey: the key file is read again when the key is needed.
UnlockedAgain(p) == PackKey(disk.keyfile, given[p])

\* The signing key: pack reads its key file now, seal and grant unlock the
\* identity they have read.
UnlockedKey(p) ==
    IF cmd[p] = "pack" THEN PackKey(disk.keyfile, given[p]) ELSE SigningKey(ident[p], given[p])

\* Mutant of Unlock: a command that has no key finds out when it signs.
UnlockUnchecked(p) ==
    /\ pc[p] = "read" /\ left[p] = {}
    /\ pc' = [pc EXCEPT ![p] = "create"]
    /\ key' = [key EXCEPT ![p] = UnlockedKey(p)]
    /\ UNCHANGED <<cmd, given, ident, seen, left, copied, shared, steady>>
    /\ Unwritten

Unlock(p) ==
    /\ pc[p] = "read" /\ left[p] = {}
    /\ \/ /\ UnlockedKey(p) # Absent
          /\ pc' = [pc EXCEPT ![p] = "create"]
          /\ key' = [key EXCEPT ![p] = UnlockedKey(p)]
          /\ UNCHANGED <<cmd, given, ident, seen, left, copied, shared, steady>>
       \/ UnlockedKey(p) = Absent /\ Fail(p)
    /\ Unwritten

-----------------------------------------------------------------------------
(* Writing the file the command is for. *)

\* The file is truncated; all who write it now share it.
Truncate(p) ==
    /\ disk' = [disk EXCEPT ![Target(cmd[p])] = Empty]
    /\ shared' = [q \in Procs |-> IF q = p THEN Rivals(p) # {}
                                  ELSE shared[q] \/ q \in Rivals(p)]

\* Mutant of ModeAfter: the mode of a keyfile that is there is left as it is.
ModeKept(m) == m

\* write_identity: set_permissions (0600) before the secrets are written.
ModeAfter(m) == "private"

\* Mutant of Staged: the archive is made from the input directory.
StagedInput(p) == [n \in Paths |-> Contents(n)]

\* seal archives the ciphertexts in its private directory.
Staged(p) == seen[p]

\* File::create, fs::write or, for a keyfile, open with mode 0600, which a
\* file that is there does not take.
Create(p) ==
    /\ Step(p, "create", AfterCreate(cmd[p]))
    /\ Truncate(p)
    /\ mode' = IF cmd[p] = "init" /\ disk.keyfile = Absent THEN "private" ELSE mode
    /\ copied' = IF cmd[p] = "seal" THEN [copied EXCEPT ![p] = Staged(p)] ELSE copied
    /\ UNCHANGED <<tree, cmd, given, ident, key, seen, left, steady, used, bounds, histories>>

Chmod(p) ==
    /\ Step(p, "chmod", "finish")
    /\ mode' = ModeAfter(mode)
    /\ UNCHANGED <<tree, disk, locals, used, bounds, histories>>

\* pack lists the directory again ...
Relist(p) ==
    /\ Step(p, "relist", "copy")
    /\ left' = [left EXCEPT ![p] = Listing]
    /\ UNCHANGED <<cmd, given, ident, key, seen, copied, shared, steady>> /\ Unwritten

\* What ends up in the file: torn if another command has written it too.
Save(p, value) ==
    \E written \in {value} \cup (IF shared[p] THEN {Torn} ELSE {}) :
        disk' = [disk EXCEPT ![Target(cmd[p])] = written]

\* The archive: the manifest, as signed, and the entries copied so far.
ArchiveOf(p, payload) ==
    [root |-> seen[p], issuer |-> IF cmd[p] = "seal" THEN ident[p].public ELSE Absent,
     signer |-> key[p], payload |-> payload]

\* ... and copies each file.  When one is gone its entry has begun: the
\* archive writer, dropped, completes the archive with that entry empty.
Copy(p) ==
    /\ pc[p] = "copy" /\ left[p] # {}
    /\ LET n == Min(left[p])
       IN  \/ /\ Contents(n) # NoFile
              /\ copied' = [copied EXCEPT ![p][n] = Contents(n)]
              /\ left' = [left EXCEPT ![p] = @ \ {n}]
              /\ UNCHANGED <<disk, pc, cmd, given, ident, key, seen, shared, steady>>
           \/ /\ Contents(n) = NoFile
              /\ Save(p, ArchiveOf(p, [copied[p] EXCEPT ![n] = Blank]))
              /\ Fail(p)
    /\ UNCHANGED <<tree, mode, used, bounds, histories>>

Made(p) ==
    CASE cmd[p] = "init" -> Generated(key[p], ReadPassphrase(given[p]))
      [] cmd[p] = "grant" -> [root |-> seen[p], signer |-> key[p]]
      [] OTHER -> ArchiveOf(p, copied[p])

\* The last bytes are written and the command reports success.
Finish(p) ==
    /\ \/ pc[p] = "finish"
       \/ pc[p] = "copy" /\ left[p] = {}
    /\ Save(p, Made(p))
    /\ End(p, "done", IF cmd[p] = "init" THEN [given |-> given[p], key |-> key[p]] ELSE Ended)
    /\ UNCHANGED <<tree, mode, used, bounds, histories>>

\* Two write one file: the bytes of the second go over what the first has finished.
Overwrite(p) ==
    /\ Writing(p) /\ shared[p] /\ disk[Target(cmd[p])] \notin {Empty, Torn}
    /\ disk' = [disk EXCEPT ![Target(cmd[p])] = Torn]
    /\ UNCHANGED <<tree, mode, pc, locals, used, bounds, histories>>

\* A signal, or a write or an allocation that fails: nothing is cleaned up, and a
\* file that is being written stays as it is, or torn.
Kill(p) ==
    /\ pc[p] \notin {"idle", "done"} /\ bounds.kills < MaxKills
    /\ Fail(p)
    /\ disk' \in {disk} \cup (IF Writing(p) THEN {[disk EXCEPT ![Target(cmd[p])] = Torn]} ELSE {})
    /\ bounds' = [bounds EXCEPT !.kills = @ + 1]
    /\ UNCHANGED <<tree, mode, used, histories>>

-----------------------------------------------------------------------------
(* Others change the input directory: a file is written, replaced or       *)
(* removed, or the directory is.                                           *)

Changed ==
    IF tree = Absent THEN {Nothing}
    ELSE {Absent} \cup {[tree EXCEPT ![n] = b] : n \in Paths, b \in Bytes \cup {NoFile}}

ChangeTree ==
    /\ bounds.changes < MaxChanges
    /\ tree' \in Changed \ {tree}
    /\ bounds' = [bounds EXCEPT !.changes = @ + 1]
    /\ steady' = [p \in Procs |-> pc[p] \in {"idle", "done"}]
    /\ ever' = [n \in Paths |-> ever[n] \cup {IF tree' = Absent THEN NoFile ELSE tree'[n]}]
    /\ UNCHANGED <<disk, mode, pc, cmd, given, ident, key, seen, left, copied, shared, used, verified>>

Next ==
    \/ ChangeTree
    \/ \E p \in Procs :
        \/ Begin(p) \/ VerifyFirst(p) \/ VerifyFails(p) \/ LoadIdentity(p)
        \/ List(p) \/ Read(p) \/ Unlock(p)
        \/ Create(p) \/ Chmod(p) \/ Relist(p) \/ Copy(p) \/ Finish(p)
        \/ Overwrite(p) \/ Kill(p)

Spec == Init /\ [][Next]_vars

-----------------------------------------------------------------------------
(* Properties. *)

Disk == [keyfile : Identity \cup {Absent, Empty, Torn},
         archive : Archive \cup {Absent, Empty, Torn},
         capability : Capability \cup {Absent, Empty, Torn}]

\* The files hold what the commands can read or make of them; each command has
\* the key, the listing and the contents that its next step needs.
TypeOK ==
    /\ tree \in Payload \cup {Absent}
    /\ disk \in Disk
    /\ mode \in {"private", "open"}
    /\ pc \in [Procs -> {"idle", "verify", "key", "list", "read", "create", "chmod",
                         "relist", "copy", "finish", "done"}]
    /\ cmd \in [Procs -> Commands]
    /\ given \in [Procs -> Givens \cup {Absent}]
    /\ ident \in [Procs -> Identity \cup {Absent}]
    /\ key \in [Procs -> Keys \cup {Absent}]
    /\ seen \in [Procs -> Payload]
    /\ left \in [Procs -> SUBSET Paths]
    /\ copied \in [Procs -> Payload]
    /\ shared \in [Procs -> BOOLEAN]
    /\ used \subseteq Keys
    /\ bounds \in [commands : 0 .. MaxCommands, changes : 0 .. MaxChanges,
                   kills : 0 .. MaxKills]
    /\ steady \in [Procs -> BOOLEAN]
    /\ ever \in [Paths -> SUBSET (Bytes \cup {NoFile})]
    /\ verified \subseteq Payload

\* An archive that verifies holds under every path what the input directory
\* has held there, whatever changed while it was made and also when the command
\* that made it failed half way: what was hashed and what was copied agree,
\* or verify_archive sees it.
VerifiedWasRead ==
    Verifies(disk.archive) => \A n \in Paths : disk.archive.payload[n] \in ever[n]

\* The issuer a manifest names is the one whose key signed it, whichever
\* keyfile stood there while the archive was sealed, and whatever was done to it.
IssuerNamesSigner ==
    disk.archive \in Archive /\ disk.archive.issuer # Absent
        => disk.archive.issuer = disk.archive.signer

\* A capability is for an archive that verified when it was granted, never for
\* one that a failing, killed or concurrent command has left behind.
GrantedVerified == disk.capability \in Capability => disk.capability.root \in verified

\* An identity init has reported opens with the passphrase it was given, and no
\* other, whichever way each of the two came in; only the environment
\* variable may hold a line end more.
Intended(g) ==
    IF g.source = "none" THEN Absent
    ELSE [text |-> g.text, newline |-> g.newline /\ g.source = "env"]

CreatedUnlocks ==
    \A p \in Procs :
        /\ pc[p] = "done" /\ key[p] # Absent
        /\ disk.keyfile \in Identity /\ disk.keyfile.public = key[p]
        => \A g \in Givens : SigningKey(disk.keyfile, g) =
               IF Intended(g) = Intended(given[p]) THEN key[p] ELSE Absent

\* The private keys init has generated are never in a file that others may
\* read, whatever the mode of the file they went into had been.
SecretsPrivate ==
    disk.keyfile \in Identity /\ (\A k \in Keyfiles : disk.keyfile # k.file) => mode = "private"

\* A command that reports success has left an archive that verifies, unless
\* another wrote the same file meanwhile or, for pack, the directory changed.
\* Paths are abstract here and all of them portable: what pack leaves of a
\* directory with other names may not verify, as Payload shows.
ReportedVerifies ==
    [][\A p \in Procs :
        /\ pc[p] # "done" /\ pc'[p] = "done" /\ ~ shared[p]
        /\ \/ cmd[p] = "seal"
           \/ cmd[p] = "pack" /\ steady[p]
        => Verifies(disk'.archive)]_vars

\* A file is truncated or written only by a command that has its key: what is
\* there survives a wrong passphrase, a keyfile that is not one, a directory
\* that changes while it is read and an archive that does not verify.
KeptUntilKeyed ==
    [][\A t \in Targets : disk'[t] # disk[t] =>
        \E p \in Procs : key[p] # Absent /\ Target(cmd[p]) = t /\ pc[p] \notin {"idle", "done"}]_vars
=============================================================================
