# Q-Cap: specification, model checking and proofs

TLA+ specifications of Q-Cap, checked with TLC and proved with TLAPS: the Go
capsule registry (`services/qcap-registry/main.go`) and the Rust command line
(`core/qcap-cli/src/main.rs`, `core/qcap-core/src/`) that produces, publishes,
revokes and opens capsules.

`PROJECT.json` is the index: components, runs, the source lines each definition
stands for, hazards, findings and theorems.

## 1. Inventory

### The system

A *capsule* is a signed ZIP archive. An issuer packs or seals a directory into
one, grants capability tokens for it, and may revoke them in a signed list. The
registry stores archives and lists and serves them. A recipient fetches an
archive and opens it with a token; the command line checks everything and exports
the files the token allows.

    issuer:    pack/seal --> archive --publish--------> registry --fetch--> archive
               grant ----> capability (handed over)         |                  |
               revoke ---> list --publish-revocations--> registry --fetch-----> open --> files
                                                                revocations

| Component | State | Operations | Interacts with |
|---|---|---|---|
| Registry (Go) | store directory (artifacts, revocation lists, `index.json`, upload temporaries, backups), index in memory, one `sync.RWMutex` | `publish`, `publishRevocations`, `artifact`, `serveRevocations`, `indexJSON`/`indexHTML` (reload, then snapshot), `health`, start-up | HTTP clients; handlers run concurrently over shared state |
| Upload validators (Go) | none | `validateQcapArchive`, `validateRevocationList` | called by the upload handlers on the staged file |
| Revocation lists (Rust) | list files of issuers, copies of recipients | `revoke`, `publish-revocations`, `fetch-revocations`, the check in `open` | files shared by processes; the registry |
| Opening (Rust) | the archive file, the list, the output directory | `open`: verify, check the capability, check revocation, export | commands that rewrite the files it reads; the clock |
| Packing and sealing (Rust) | input directory, temporary ciphertexts, archive file | `pack`, `seal` | reads a directory and a keyfile others may change |
| Payload Merkle tree (Rust) | none | `compute_payload_merkle_root` | used by pack, seal and verify |
| Path patterns (Rust) | none | `glob_match`, `validate_relative_path`, `write_safe`, `rel_path` | used by open, verify and seal |
| Identity files (Rust) | one keyfile: encrypted, legacy or a bare seed | `init`, `read_passphrase`, unlocking | used by every command that signs or decrypts |
| Capability grants (Rust) | capability file | `grant` | verifies the archive it grants for |
| Artifact `publish`/`fetch` (Rust) | none | one POST, one GET | registry |
| GeoPackage sample, TypeScript SDK, protobuf, Helm, Compose, scripts, CI | none | none | none |

### What is hard

* *Concurrency.* Registry handlers interleave at every point where they do not
  hold the lock, and the directory scan of a reload meets uploads being staged,
  which is done outside the lock. Commands of the command line share files and
  take no lock.
* *Failure.* `replaceFile` falls back, when a rename fails, to moving the stored
  file aside; any of its four system calls may fail. Commands fail between
  truncating a file and writing it.
* *Crashes and restarts.* The registry rebuilds its index from its files and from
  an `index.json` that may be older than they are.
* *Values read early and used late.* `created_at` before the lock; a list
  verified, then read again to be sent; an archive verified, then opened again; a
  directory hashed, then read again to be archived; an identity read before the
  payload and unlocked after it.
* *Names.* One file has a host path, a name in the Merkle leaf, an entry name and a
  path at the recipient; separators, bytes that are not UTF-8 and the order of
  names differ between them.
* *Waiting.* Downloads hold the read lock while their client reads; Go's
  reader/writer lock parks readers behind a waiting writer.

### What makes each component correct

* Registry: the store, `index.json` and the index agree; what was answered 201
  survives; only validated content is stored, and only by who may; a download or
  a listing is a consistent picture; requests are answered; failures lose nothing.
* Revocation lists: what was reported as revoked is refused; lists hold only what
  their issuer asked for; copies are those of the issuer named.
* Opening: what is exported is what was granted; what was revoked or had expired
  exports nothing; success means complete.
* Issuing: what verifies was in the directory; the issuer named is the signer; a
  capability is for what verified; a command that cannot go on leaves the files
  alone; private keys stay private, and open with the passphrase they were given.
* Merkle tree and names: the loop computes the tree; what is packed from portable
  names is accepted and verifies; what verifies is whole; a pattern exports what
  `docs/spec.md` says it stands for.

## 2. Modules

| Module | Models |
|---|---|
| `RWMutex` | Go's `sync.RWMutex`, as a value with one operator per method (external; modelled from its use) |
| `Registry` | the registry: all handlers, start-up, failing system calls, crash and restart |
| `ArtifactStore` | what the registry promises: a store whose calls take effect one at a time |
| `RegistryRefinement` | the mapping under which `Registry` implements `ArtifactStore` |
| `RegistryInvariants` | the inductive invariants: `IInv`, and `FaultFreeInv` up to the first system call that fails |
| `RevocationList` | the lists, their checks, and what writing one over another leaves |
| `Revocation` | `revoke`, `publish-revocations`, `fetch-revocations` by concurrent processes |
| `OpenArchive` | `qcap open`, while archive, lists and clock change |
| `Keyfile` | passphrases, identities, and when one unlocks |
| `Issuing` | `init`, `pack`, `seal`, `grant` by concurrent processes, over files that change |
| `PayloadPath` | names of payload files: normalisation, orders, patterns, what can be written |
| `Payload` | one payload from directory to export: leaves, tree, archive, registry, verification |
| `RegistryProofs`, `RegistryIndexProofs`, `RegistryRefinementProofs`, `RevocationProofs`, `OpenArchiveProofs`, `IssuingProofs`, `PayloadProofs` | theorems and proofs |
| `PayloadPathProofs` | the lemmas about names and orders that `PayloadProofs` rests on |
| `MCRegistry`, `MCRevocation`, `MCOpenArchive`, `MCIssuing`, `MCPayload` | instances for TLC |

`Registry` uses `RWMutex`; `RegistryRefinement` instantiates `ArtifactStore`;
`Revocation` and `OpenArchive` share `RevocationList`, so what `revoke` writes and
what `open` refuses meet in one operator, `Admits`; `Issuing` extends `Keyfile`,
`Payload` extends `PayloadPath`. `Revocation` reads and writes the registry's slot
of an issuer in one step: `ArtifactStore`, which `Registry` is proved to implement,
lists included (`RegistryRefinementProofs`), is the justification.

### The registry

State: `disk` (the path of every artifact, list and of `index.json`), `temp` (the
staged upload of each handler), `backup` and `stray` (files moved aside by
`replaceFile`, in use or left behind), `Index` and `mu` as in the code, `listed`
(the temporaries a scan has seen), and per process its program counter and the
local variables of its handler. Two history variables record what clients were told
and what was stored: `acked`, and `latest`, the file last renamed onto each path.

An upload goes through `Stage` (`stageUpload`), `Validate` or `Reject`,
`TakeWriteLock`, `Commit`, `Rename`, `Record`, a second `Rename` for
`index.json`, `ReleaseWriteLock`, `Reply`. A listing goes through `TakeWriteLock`,
`Scan`, `Rebuild`, `Rename`, `ReleaseWriteLock`, and then `TakeReadLock`,
`Snapshot`: two critical sections, as in the code. A download goes through
`TakeReadLock`, `Open`, `Stream`. `main` loads the index as a process of its own
and serves when it is done. A failing first rename leads through `MoveAside`,
`Swap`, `Discard` or `Restore`; each `...Fails` action is one system call that
fails, bounded by `MaxFaults`.

Abstractions. An uploaded archive is a value that validates or not, and is its own
digest. A list is the key it names and whether it verifies. A name is a name: that
`demo` and `demo.qcap` are the same artifact is in `PublishName`. Sizes, content
types, HTML and logging are left out, as is the count of issuers that `health`
adds to its answer, which reads a directory without the lock. A crash kills the
process and keeps everything it wrote (the file-system cache survives): power
failures are not modelled. The store starts empty or seeded with valid artifacts.
Writing the temporary of `index.json` and syncing it is one step with its rename;
its failures are `PrepareFails`.

### Revocation lists

`file` is every list file and copy, `slot` the registry's list per issuer, `net`
the uploads on their way. A file holds a list, nothing yet (`Absent`), zero bytes
(`Empty`, after the truncation in `fs::write`) or bytes that parse as no list
(`Torn`, when two writers overlap, see `Overwritten`). A command is two to four
steps, one per file access or message; `Kill` ends it between any two, and covers a
system call that fails. A request outlives the process that sent it. A capability
that does not verify, or that the issuer did not sign, fails `revoke` before it
touches any file and is left out.

### Opening

`Verify`, `CheckRevocations`, `CheckAccess`, `Reopen`, then `Export`, `Skip`,
`Mismatch` or `ReadFails` for each entry and `Finish`. `archive` is what the file
holds now; `report` is what `verify_archive` verified; `handle` is what the file
held when it was opened again to export. `RewriteArchive` is any command that
writes an archive file: all of them truncate it and write in place.
Verification reads the file in one step: a rewriting in the middle of it leads to
the same errors as a truncated file.

An archive is a sequence of entries, each a name and bytes, and `Target` is the path a
name leads to when `write_safe` writes it: `a` and `./a` lead to one path, and
`validate_relative_path` accepts both. As in the code, `verify_archive` writes all
entries one over the other and hashes what is left (`Extracted`), `open_plain` goes
through the entries and asks the capability about the name each is archived under,
and `open_encrypted` goes through the manifest and takes the last entry of exactly the
listed name (`Archived`), whose hash it compares.

The lists at the two sources change in any way: truncated, edited so that they no
longer verify (`SpoilList`), or replaced by any list that verifies (`UpdateList`), which
may revoke less than the one before. The last covers a rollback, the overlapping
`revoke` of the finding below, and an edited list whose signature still covers it: the
signed text joins its fields with `|` and line ends, which `docs/spec.md` section 12
admits ("Capability and revocation signing use delimiter encodings without escaping").
A capability is the text of its token and signature: the same signature spelled in
capitals is another capability, which verifies as well and which a list that revokes
the first does not revoke, as `revokes` compares texts.

Decryption succeeds exactly for what was sealed under that key, nonce and path, a
plaintext is named by its ciphertext, and a payload stands for its root; the section on
`Payload` says when a root tells payloads apart. `SignedAssumption` states what `seal`
guarantees of the manifests it signs, and no more: every file of the payload is listed
with its bytes under a name that leads to its path. A name may be listed twice, and the
entry may have another name. That `seal` does so is `SealedIsListed` of `Payload`.

### Issuing

`tree` is the input directory, `disk` the three files commands write (keyfile,
archive, capability), `mode` the permissions of the keyfile. A command keeps its
registers: `ident` (the identity it has parsed), `key`, `seen` (what it has read of
the directory; for `grant` the root it has verified), `left` (listed, not yet
read), `copied` (what is in its archive so far).

| Code | Steps |
|---|---|
| `init` | `Begin` (passphrase read, keys generated), `Create`, `Chmod`, `Finish` |
| `pack` | `Begin`, `List`, `Read`*, `Unlock` (the key file is read here), `Create`, `Relist`, `Copy`*, `Finish` |
| `seal` | `Begin`, `LoadIdentity`, `List`, `Read`*, `Unlock`, `Create`, `Finish` |
| `grant` | `Begin`, `VerifyFirst` or `VerifyFails`, `LoadIdentity`, `Unlock`, `Create`, `Finish` |

Every file is truncated when it is opened. When two commands write one file at a
time (`shared`), the one that finishes leaves its own bytes or a torn file, and the
other may tear what was finished (`Overwrite`). `Kill` is a signal or a system call
that fails. `ChangeTree` writes, replaces or removes a file of the directory, or the
directory; a directory that is not there is listed as an empty one by `pack`, as in
`list_files`. When a file is gone by the time `pack` copies it, its entry has begun
and the ZIP writer, dropped, completes the archive: `Copy` leaves an archive with
that entry empty and the command fails.

Abstractions. A payload stands for its Merkle root and a sealed payload for the
plaintexts in it (no collisions, ideal encryption). A listing is one step. The
recipient file of `seal` and a listing that fails are reads that can only fail, and
fall under `Kill`. The output file is not inside the input directory. Paths are abstract
and stand for portable names: what `pack` makes of others may not verify, which is a
matter of `Payload`.

### Payloads and names

`Payload` follows one directory through `Stage` (`seal` only), `Hash`, the loop
over the levels (`Pair`, `Promote`, `NextLevel`, `Root`), `Archive`, `Register`,
`Extract`, the same hash and loop over the extracted files, `Compare` and `Export`.
Strings are sequences of bytes and host paths sequences of components, as the host
orders `PathBuf`s by component. Time does not pass and nothing fails: what may happen
in between is in `Issuing`, which takes a payload as a function from paths to contents,
and `OpenArchive`, which takes it as a sequence of entries.

A leaf is the digest of name, zero byte and content, a node the digest of two digests,
and nothing in the strings tells one from the other. Digests are strings of
`DigestLength` bytes that a constant, `Blake3Byte`, gives for every string. What the
theorems need of BLAKE3 is `NoCollisions`: no two strings have one digest. That is an
idealisation, as fixed-size digests of bytes must collide somewhere; it is consistent
here because `Blake3Byte` may have any values (`MCPayload` hands over the hashed string
itself). `NoCollisions` does not make a root the root of one payload only: a file whose
name, zero byte and content are, by whatever chance, two digests has the leaf that is
the node above two other files. `RootTells` is the premise that excludes it: as many
files on both sides, or no string of a leaf of the length of two digests.

## 3. What the runs check

| Run | Instance | Shows |
|---|---|---|
| `registry_core` | 2 handlers, 2 artifacts, 2 valid contents and a bad one, clock 0..1, 1 crash | `IndexFaithful`, `AckedDurable`, `StreamStable`, `CreatedAtStable`; `Linearizable`: `Registry` implements `ArtifactStore` |
| `registry_faults` | 2 handlers, good and bad tokens, 2 valid contents and a bad one, 2 keys, 3 faults, 1 crash | `OnlyValidStored`, `AckedBytesSurvive`, `WritesJustified`, `NoUploadLeft`, `NoLockLost`, `LockGivenBack`, `IInv` (of which `TypeOK` is a part) |
| `registry_live` | 3 handlers, fair | `RequestsAnswered` |
| `registry_atomic` | 1 fault | violated: `ReplacedAtomically` |
| `revocation_shared` | 2 processes, 2 issuers, 4 capabilities of which 2 are revoked, 1 list file and 1 copy, 2 kills | `OnlyAskedRevoked`, `CopiesFromIssuer`, `OrderlyReportedRefused`, `OrderlyPublishedRefused`, `OrderlySlotsGrow`, `TypeOK` |
| `revocation_lost` | 2 processes, 1 list | violated: `ReportedRefused` |
| `open_changing` | 2 paths, 4 names (two of them for one path, one unsafe), 11 archives, 4 capabilities, 2 steps of rewriting, 2 list changes, clock 0..1 | `SealedExportsGranted`, `SuccessIsComplete`, `NothingForBarred`, `TypeOK` |
| `open_plain` | the 8 archives with one entry for a path, 2 steps of rewriting | violated: `ExportsGranted` |
| `open_duplicates` | the 11 archives, nothing changes | violated: `ExportsGranted` |
| `issuing` | 2 processes, 2 files, 7 keyfiles, 4 ways to give a passphrase, 2 commands, 2 changes, 1 kill | `VerifiedWasRead`, `IssuerNamesSigner`, `GrantedVerified`, `CreatedUnlocks`, `SecretsPrivate`, `ReportedVerifies`, `KeptUntilKeyed`, `TypeOK` |
| `payload_root` | all directories of up to 3 of 14 awkward names, plain ones of up to 9 files, 7 patterns | `RootIsTree`, `PortableAccepted`, `SealVerifies`, `VerifiedIsWhole`, `ExportsMatched`, `SealedIsListed`, `Terminates`, `Advances`, `TypeOK` |
| `payload_order` | the same | violated: `LeavesBytewise` |

Bounds. Two handlers make every pair of conflicting requests meet, two artifacts tell
a change of one name from a change of the whole index. The lock shows its queue only
with three (a reader parked behind a writer that waits for a reader), which is what
`registry_live` has. Three faults are what the longest failing path needs (first
rename, second rename, restore); when an upload meets fewer of them, the next one can
take the fallback too. The crash can fall on any step. Two valid contents tell the bytes
that were acknowledged from others under the same name. One tick separates an old date
from a new one and an expiry that has passed from one that has not. Two kills let a
command fail on the file that another has left truncated. Two steps of rewriting
truncate an archive and write another one; two list changes revoke a capability and
then hide it (truncated, edited, replaced by another issuer's list) or withdraw it.
`revocation_shared` has one list file, because two are beyond what TLC explores in
minutes; the theorems hold for any number.

In `issuing` two commands make every pair meet on every file, and each can also run
after the other on what it left (an archive is granted for, an identity is used).
Two changes remove a file and put it back, or change a file after it was hashed and
another after it was copied. The keyfiles are an encrypted and a legacy identity,
each also with its public half replaced, a bare seed, a torn file and none; the
ways to give a passphrase are those that differ in a line end, and none. In
`payload_root` up to nine leaves give levels of every parity up to the fourth; the
names are chosen in pairs that sort differently as paths and as bytes, collide when
backslashes become slashes, or cannot be written, extracted or uploaded. Their leaf
strings are shorter than two digests, so that `RootTells` is true of all of them.

Handlers, processes and valid contents are symmetric, and symmetry is used only in runs without
temporal properties other than action properties and the refinement.

`registry_core` has no failing system call: with one, the
code does let `index.json` lag behind the store, reset `created_at`, or answer 500
to an upload that took effect. `registry_faults` checks what still holds then. Lists are
uploaded in `registry_faults`; that `ArtifactStore` is implemented for them as well is
proved, not run.

`open_changing`, `open_plain`, `open_duplicates`, `issuing`, `payload_root` and `payload_order` switch
deadlock checking off: the commands end.

### Fairness

`registry_live` assumes weak fairness of the steps of `main` and of the handlers
that need nothing but the scheduler, a lock or a system call. No fairness is
assumed of arrivals, crashes, faults, or of the steps that wait for a client
(`Stage`, `Stream`): the server sets no timeouts. `RequestsAnswered` is therefore
conditional on `ClientsKeepUp`. Without it the property fails, as the code lets a
client that stops reading a download hold the read lock for ever. `Payload` assumes
weak fairness of its next step: a command that computes goes on computing. The
other specifications state no fairness and check no liveness: their commands may
be killed or wait for a passphrase at any time.

### Findings

* `registry_atomic`: `replaceFile` is not atomic when its first rename fails. The
  README of the registry says that files are replaced atomically. The bytes last stored
  are never lost: they are at the path or in a backup, which is proved
  (`AckedBytesSurvive`).
* `revocation_lost`: two `revoke` commands on one list lose one of the entries.
  Run one at a time, none is lost, even if commands are killed
  (`OrderlyReportedRefused`, proved for any number of lists).
* `open_plain`: a plain archive rewritten between verification and export is
  exported unverified. For a sealed archive the ciphertext hashes of the verified
  manifest prevent it (`open_changing`).
* `open_duplicates`: of two entries for one path, such as `payload/a` and
  `payload/./a`, the verification hashes the last and the export writes the one the
  pattern names, from an archive nobody touches. `docs/spec.md` section 3 forbids such
  archives and section 11 has a verifier refuse them; `verify_archive` does not.
* `payload_order`: `docs/spec.md` says that for ASCII names the order of host paths
  is the bytewise order of the entry names. `a/b` and `a-b` sort one way as paths
  and the other way as bytes, so an implementation that sorts names computes another
  root.

`revocation_shared` calls a history *orderly* as long as every command began with no
other at work and no request on its way, and only one list file was published.
Otherwise an older list may reach the registry last and replace a newer one; the
format has no rollback protection, as `docs/spec.md` section 9 says.

Behaviour the models show that no document speaks about, and that is therefore no
finding: `seal` of a directory with both `a\b` and `a/b` reports success, and the
archive verifies, but opening that name fails with a hash mismatch; leaves and nodes
are hashed without prefixes, as `docs/spec.md` section 5 prescribes, so that payloads of
different sizes may share a root (`RootTells`); `init`
truncates an identity that is there before it writes the new one; `pack` of a
directory that is missing makes an archive of no files, and one that changes
meanwhile makes, and reports, an archive that does not verify; of two commands that
write one file at the same time either may win, or the file be torn; `seal` lists a
file `.\b` in a directory `a` as `a/./b` and archives it as `a/b`, so that no pattern
exports it (a proof attempt of `ExportsMatched`, which was stated for all archived
files, found that; the property now speaks of those archived under a listed name).

## 4. What is proved

Every theorem is about the specification of its module, `Init /\ [][Next]_vars` (with
a fairness condition, which no proof uses, in `Payload`), and holds for every value of
the constants that satisfies the named assumptions of the module: any number of
processes, files, keys, issuers and names, any directories and patterns, and any
bounds on clocks, faults, crashes, kills and changes. Every property in the table is
also checked by a run, but for `FaultFreeInv`, which is there for the properties it
implies. The properties that rest on the root telling payloads apart have, as a
hypothesis, that no two strings have one digest (`NoCollisions`).

| Module | Theorem | States |
|---|---|---|
| `RegistryProofs` | `Invariance` | `Spec => []IInv` |
| | `TypeCorrect` | `Spec => []TypeOK` |
| | `Validated` | `Spec => []OnlyValidStored` |
| | `JustifiedWrites` | `Spec => WritesJustified` |
| | `NothingAcknowledgedIsLost` | `Spec => []AckedBytesSurvive` |
| | `NothingStagedIsLeft` | `Spec => []NoUploadLeft` |
| | `LockIsNeverLost` | `Spec => []NoLockLost` |
| | `LockIsGivenBack` | `Spec => LockGivenBack` |
| | `DownloadsAreStable` | `Spec => []StreamStable` |
| `RegistryIndexProofs` | `FaultFreeInvariance` | `Spec => []FaultFreeInv` |
| | `IndexIsFaithful` | `Spec => [](faults = 0 => IndexFaithful)` |
| | `AcknowledgedIsDurable` | `Spec => [](faults = 0 => AckedDurable)` |
| | `CreatedAtIsStable` | `Spec /\ [](faults = 0) => CreatedAtStable` |
| `RegistryRefinementProofs` | `Implements` | `Spec /\ [](faults = 0) => Linearizable` |
| `RevocationProofs` | `TypesHold` | `Spec => []TypeOK` |
| | `OnlyAskedIsRevoked` | `Spec => []OnlyAskedRevoked` |
| | `CopiesAreTheIssuers` | `Spec => []CopiesFromIssuer` |
| | `AloneNothingIsLost` | `Spec => []OrderlyReportedRefused` |
| | `AloneThePublishedIsServed` | `Spec => []OrderlyPublishedRefused` |
| | `AloneSlotsGrow` | `Spec => OrderlySlotsGrow` |
| `OpenArchiveProofs` | `TypesHold` | `Spec => []TypeOK` |
| | `ExportsAreGranted` | `Spec => []SealedExportsGranted` |
| | `SuccessIsWhole` | `Spec => []SuccessIsComplete` |
| | `BarredExportNothing` | `Spec => []NothingForBarred` |
| `IssuingProofs` | `TypesHold` | `Spec => []TypeOK` |
| | `FilesKeptUntilKeyed` | `Spec => KeptUntilKeyed` |
| | `ArchivesWereThere` | `Spec => []VerifiedWasRead` |
| | `IssuersSign` | `Spec => []IssuerNamesSigner` |
| | `GrantsVerified` | `Spec => []GrantedVerified` |
| | `SuccessVerifies` | `Spec => ReportedVerifies` |
| | `SecretsStayPrivate` | `Spec => []SecretsPrivate` |
| | `CreatedOpens` | `Spec => []CreatedUnlocks` |
| `PayloadProofs` | `RootBinds` | `NoCollisions` implies that a root is that of one sequence of as many leaves, and of one sequence if no leaf string has the length of two digests |
| | `TypeInvariance` | `Spec => []TypeOK` |
| | `SealedVerifies` | `Spec => []SealVerifies` |
| | `PortableIsAccepted` | `Spec => []PortableAccepted` |
| | `VerifiedWhole` | `NoCollisions` implies `Spec => []VerifiedIsWhole` |
| | `ExportedMatched` | `NoCollisions` implies `Spec => []ExportsMatched` |
| | `RootIsTheTree` | `Spec => []RootIsTree` |
| | `ListsWhatItSeals` | `Spec => []SealedIsListed` |
| | `EveryStepAdvances` | `Spec => Advances` |

The assumptions say that numbers are numbers, that constants are in the sets they
are named for, and that markers (`Absent`, `Empty`, `Torn`, `NoFile`) are no values.
`DirectoriesAssumption` of `Payload` says what a host allows: a directory has finitely
many files, none of them below another. Two say more: `SignedAssumption` of
`OpenArchive` (the manifest of a sealed archive lists every file of its root, with its
bytes, under a name that leads to its path, which is how `seal` makes it) and
`TermsAssumption` (what a capability grants is fixed by its token).

**Registry.** `OnlyValidStored` is not inductive: that a rename stores something
valid depends on what the handler staged, validated and handed to `replaceFile`.
`IInv` follows it. `RequestFits`: the request of a handler has passed its checks.
`StagedFits`: what it staged is validated by the time it waits for the lock.
`PutFits`: what `replaceFile` moves fits its destination. `BackupFits`: so does what
it moved aside, and there is a backup exactly between moving aside and discarding or
restoring. `DiskFits`: every file fits its path. `Locking`: a process inside a
critical section owns the lock, which makes `disk[...]` stable for it. Each action
has a lemma; `NextIInv` puts them together. `WritesJustified` follows from `IInv` and
a lemma on the steps that change an artifact or a list.

`AckedBytesSurvive` is about bytes: `latest` records what was last renamed onto a path,
and that very file must be at the path or in a backup of it. It needs `LatestKept`: a
path that holds a file holds the latest one, and what `replaceFile` has moved aside and
would put back is the latest one too, so that no older bytes come back; a backup is
removed only with the new file in place (`RenameKeeps`, `MoveAsideKeeps`, `DisposeKeeps`,
`CrashKeeps`, and `QuietStep` for all other steps). `StoredKept` ties it to the answers:
an upload that goes on to answer 201 has renamed its artifact onto its path.
`NoUploadLeft` needs `TempHeld`: a temporary belongs to an upload between staging
and its answer. `StreamStable` needs `StreamHeld`: a handler that streams holds the
read lock, so nobody holds it alone, and only who does renames.

Two theorems are what can be proved of `RequestsAnswered`. `NoLockLost`: whoever
waits for the lock waits for somebody who has it and has yet to unlock, through any
faults and restarts. It needs `Queued`: the queue of the lock is exactly the
processes from their `Lock` to their `Unlock`, and readers are parked only behind
one of these; then the first of the queue, or a reader that was admitted before it,
holds the lock. `LockGivenBack`: each step of a process that has called `Lock` is its
`Unlock` or leaves fewer steps before it (`StepsToUnlock`), by whichever path of
`replaceFile` it goes. It needs of `IInv` that what `replaceFile` moves is what the
process is there for, so that saving `index.json` does not record an artifact again.
What remains to be model-checked is that a fair scheduler lets the steps happen and
that the turn in the queue comes to everybody.

**Registry, while no system call fails.** The other properties of the registry hold
only up to the first system call that fails (section 3 says what happens then), so
their theorems say `faults = 0`: at that state for the invariants, always for the
action property and the refinement. Crashes are not faults: any number of them may
come at any step. `IndexFaithful` speaks of states in which nobody writes;
`FaultFree` says what holds in all of them. `BootsAlone`: until `main` serves, no
handler is at work. `NothingFails`: `replaceFile` gets by with its first rename, and
the one error there is comes from a reload that lost a temporary and changed
nothing. `EntryFits` follows the entry of an upload from its temporary to its path,
into memory and into `index.json`: its digest is that of the file it will list, and
its `created_at` is the one the index has, from `Commit` to `Record`, since the lock
is held in between. `IndexFollows`: the index in memory is `index.json`, or is about
to be renamed onto it, and agrees with the store but for the one name whose handler
is between renaming and recording. What makes it inductive is `CriticalAlone`, that
two processes are never between `Lock` and `Unlock` at once. `CreatedAtStable` then
follows because the only step that changes `index.json` renames an index that
`Keeps` every entry of the old one. `CallHeld` is for the refinement: an upload's
temporary holds what its client has sent until it is renamed, and is gone after.

**Refinement.** `RegistryRefinementProofs` maps each step of the registry to a step of
`ArtifactStore`. `RequestsRefine`: an arrival invokes a call or rejects it.
`RenameRefines`: the rename onto the path of the request is the `Put`; a rename onto
`index.json` is not seen. `OpenRefines`: the opening of a file is the `Read` or the
`Miss`. `SnapshotRefines`: a listing or a health check is a `Query`; it needs that
nobody can be about to record while the read lock is held, which makes the index
the store. `StreamRefines` and `ReplyRefines` complete a call, `RefusalRefines`
refuses an upload that has not been renamed, `CrashRefines` is the crash, and
`QuietStepsRefine` covers what changes nothing that is seen. With a failing system
call the refinement does not hold: an upload whose index could not be saved is
answered 500 though it took effect.

**Revocation.** `HonestLists` covers every content that is anywhere in play (files,
slots, requests, memory of processes): only `revoke` makes a list, from one that
verified under its own issuer, and the other steps hand on, destroy or lose what
there is. `CopiesHeld` adds that slots hold lists of their issuers and that
`fetch-revocations` takes its list from such a slot, which is why the check of the
issuer it does not make is not missed. The orderly properties rest on `OInv`: as long
as the history is orderly, one command is at work (`OneAtWork`), what is about to be
written refuses what has been reported (`ReportsKept`), the request on its way holds
the published file (`RequestCurrent`), the registry is behind that file
(`SlotsBehind`), and holds what was reported as published (`PublishedStored`).

**Opening.** `Checked`: what each check has established by the step that relies on
it, whatever the archive file holds by then. `Held` says when the export goes through
what was verified (`WorklistIsOrigin`): a sealed archive by its verified manifest, whose
hashes the entries must have; a plain one only if the file was left alone, which is what
one finding is about. `Exported`: then what was written comes from entries the
capability allows, and all of those before the current position have been written. That
the bytes are also those the root covers needs that no two entries lead to one path
(`Distinct`), which is what the other finding is about. `Barring`: a reason to bar a
command lasts until a list that verifies has withdrawn it (`ListsCurrent`: a list that
verifies revokes what it was last given; time does not go back), and each check stops
its own part of it.

**Issuing.** `Typed` adds to the types which steps a command takes (`StepFits`) and
that it has its key and identity by then (`KeyFits`). `WhatIsWritten` says what a
change of a file can be: a truncation, a torn file, or what a command with its key
has made; with it every property of the files reduces to the registers of the
command that wrote them. `SeenWasThere` and `Clean` follow the reading of the
directory, `SealedByIssuer` the key, `Agreement` the equality of what was hashed and
what was copied while the directory stays. `CreatedUnlocks` needs `OwnKeys`: every
`init` has keys that no other has and that no keyfile holds before it is done.

**Payload.** The binding of the root is about the loop, not about a recursion:
`Levels` says that each sequence of digests is what the loop makes of the one before.
Two loops that end in one root and have as many leaves have as many levels, since the
length of a level is half that of the one below, rounded up (`SameSizes`,
`SameHeight`). Going down from the root, equal levels come from equal levels: the
string of a node is two digests of equal length, which can be cut in one way only, and
a promoted node is the last of a level of odd length (`SameLeaves`). Of two different
lengths, the left spine of one loop would end in a leaf at a level at which the other
still has a node; that is possible, without prefixes, only for a leaf whose string is as
long as two digests (`RootBinds`). From the digest of a leaf, name and content are read
off because no name holds a zero byte (`LeafStringIsOne`).
`TreeShape` says how far `next` and `i` are through `level`, `HashInv`
ties `level` and `root` to a computation from the leaves of `payload`, and
`ArchiveInv` says what `signed`, `listed` and `entries` are to the directory while the
archive is made, and what extracting the entries gives afterwards.

From there the four properties are about names. A host directory and the directory
extracted from its archive have the same leaves if every entry is written under the
path it was made from (`CleanRoundTrip`), which needs that joining and splitting a
path are inverse for components without slashes (`SegmentsOfJoined`), that host paths
are strictly and totally ordered, and that a finite set has one arrangement in that
order. `seal` reaches that by staging: the names it hashes have been through the file
system once (`WrittenFacts`). For `pack` it holds of portable names; of others,
`VerifiedIsWhole` follows from `RootBinds`: if the roots agree, and are of payloads they
tell apart (`RootTells`), the leaves do, names and contents, in number and in order. `ExportsMatched` adds that the code of
`glob_match` is the definition of `docs/spec.md` (`GlobIsMatches`).

`SealedIsListed` comes from `ArchiveInv` as well: the names `seal` lists lead, through
the host's file system, to the paths under which it archives, each with the
ciphertext it lists for it.

`RootIsTree` compares the loop over the levels with the definition that splits a
sequence at the largest power of two. `TreeOf` has a function of the number of leaves,
`tree[n][lo]` being the root of the *n* leaves from the *lo*-th on, which recurs on
smaller numbers. Since no induction rule can be instantiated here, that such a
function exists is proved by hand: `RowsExist` extends a table of the first numbers by
one more, so that there is one for all the numbers up to that of the leaves, and
`TreeIsRows` concludes that `TreeOf` reads one (`PowerFacts` does the same for the
powers of two). `Covers` then relates each digest of a level to the stretch of leaves
it stands for: on the level of height *e* the digests stand for 2^*e* leaves each, the
last one for what is left. Such a digest is the tree of its stretch, because a pair
joins a full left half to what is left (`LeftHalfIs`) and a promoted node keeps its
stretch (`LevelCovered`); a level of one digest covers all the leaves
(`LevelsMakeTheTree`).

`Advances` is what can be proved of `Terminates`: each step either brings the command
to a later phase (`StepsLeft`) or decreases `4 * Len(level) - i`, which is never
negative: the next level has half as many nodes, or one more than half if they are odd
(`HalfLevel`), so that no level repeats itself.

The operators of `PayloadPath` are defined by positions and ranks, without recursion,
for the sake of these proofs. The one fold they use is `FlattenSeq`, whose value on a
sequence is unfolded one element at a time (`FlattenIsAppended`). Inductions go
through the least element of a set of numbers, since the induction rules of the
library take an operator as a parameter.

**Only model-checked.** `RequestsAnswered` and `Terminates`, because liveness under
fairness and `ENABLED` are out of the prover's reach; what is proved of them is above
(`NoLockLost`, `LockGivenBack`, `Advances`). Every invariant and every action
property of the passing runs is proved. No module that is proved about reaches a
`RECURSIVE` operator.

## 5. Not modelled

* The JSON checks and size limits in `validateQcapArchive` and
  `validateRevocationList`: `Registry` takes what they accept as given. Their checks
  of entry names are in `Payload`.
* Cryptography: signatures, key derivation and its parameters, ciphers, digests are
  ideal (digests as far as `NoCollisions` says). `sound` in `Keyfile` stands for every check of a keyfile's own fields.
* `Access::parse` and the RFC 3339 or UNIX time of an expiry. `docs/spec.md` forbids
  `;` in the values it splits; `capabilities.rs` speaks of RFC 3339, and
  `enforce_expiry` takes UNIX seconds only, so a capability with any other expiry is
  refused, which in `OpenArchive` is a term that has expired.
* Artifact `publish` and `fetch` have no module: the one is a request of `Registry`,
  the other a way to rewrite the archive in `OpenArchive`.
* Power failures, and directories inside the input that cannot be read.
* The GeoPackage sample, the SDK and protobuf stubs, the static pages of the registry,
  deployment files: no state and no logic to check.

