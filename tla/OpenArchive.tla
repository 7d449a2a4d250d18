---------------------------- MODULE OpenArchive -----------------------------
(***************************************************************************)
(* qcap open (core/qcap-cli/src/main.rs): verify an archive, check a       *)
(* capability against it, export the files it allows.                      *)
(*                                                                         *)
(* The command reads the archive file twice: verify_archive reads all of   *)
(* it, and open_plain or open_encrypted opens it again to export.  Between *)
(* any two steps other commands may rewrite the archive file in place      *)
(* (fetch, pack and seal truncate it and write it), the revocation list    *)
(* may change, time passes, and the command may be killed.                 *)
(*                                                                         *)
(* Abstractions: a payload stands for its Merkle root and a ciphertext for *)
(* its hash, and a ciphertext decrypts to what was sealed exactly under    *)
(* the key, nonce and path it was sealed with; a plaintext is named by its *)
(* ciphertext.  RootBinds of Payload says when a root tells payloads       *)
(* apart: not when a file's name, a zero byte and its bytes are as long as *)
(* two digests and happen to be two.  A name is what follows               *)
(* payload/ in the name of an entry; Target[name] is the path at which     *)
(* write_safe leaves its bytes.  Several names may lead to one path, as    *)
(* "a" and "./a" do.  A path pattern is the set of names that glob_match   *)
(* lets it match.                                                          *)
(***************************************************************************)
EXTENDS RevocationList, Sequences

CONSTANTS
    Paths,       \* files of a directory
    Names,       \* names of archive entries
    Unsafe,      \* where a name leads that validate_relative_path refuses
    Target,      \* Target[name]: the path a name leads to, or Unsafe
    Bytes,       \* contents of payload files
    NoFile,      \* no file under a path
    Archives,    \* archive files a user may have or fetch
    Identities,  \* who runs qcap open
    Terms,       \* Terms[t]: what the capability with token t grants
    Revocable,   \* bound: the capabilities that lists revoke
    MaxClock,    \* bound on the clock
    MaxWrites,   \* bound on rewritings of the archive
    MaxUpdates,  \* bound on changes of the revocation lists
    MaxRuns      \* bound on runs of the command

Payload == [Paths -> Bytes \cup {NoFile}]
Entry == [name : Names, bytes : Bytes]

\* files: the names a sealed archive lists, with the ciphertext for each.
Manifest == [merkle_root : Payload, encrypted : BOOLEAN, files : Seq(Entry),
             recipients : SUBSET Identities]

\* genuine: the signature verifies over the manifest; root: the copy of the
\* Merkle root in the signature bundle.
Archive == [manifest : Manifest, signer : Issuers, genuine : BOOLEAN,
            root : Payload, entries : Seq(Entry)]
Sources == {"path", "url"}

\* No two of these entries lead to one path.
Distinct(list) ==
    \A j, k \in DOMAIN list : Target[list[j].name] = Target[list[k].name] => j = k

ASSUME NumbersAssumption == MaxClock \in Nat
ASSUME MarksAssumption == {Absent, Empty, Torn} \cap List = {}
ASSUME BytesAssumption == NoFile # Torn /\ {NoFile, Torn} \cap Bytes = {}
ASSUME NamesAssumption == Unsafe \notin Paths /\ Target \in [Names -> Paths \cup {Unsafe}]
ASSUME ArchivesAssumption == Archives \subseteq Archive
ASSUME TermsAssumption ==
    Terms \in [Tokens -> [root : Payload, operation : {"read", "other"},
                          allowed : SUBSET Names, audience : Identities, expires : Nat]]
ASSUME RevocableAssumption == Revocable \subseteq Capability
\* Signed manifests of sealed archives come from seal: each file of the payload
\* is listed, with its bytes, under a name that leads to its path.  A name may be
\* listed twice, and need not be the one the file is archived under.
ASSUME SignedAssumption == \A a \in Archives :
    a.genuine /\ a.manifest.encrypted =>
        /\ \A k \in DOMAIN a.manifest.files :
              LET n == Target[a.manifest.files[k].name]
              IN  n \in Paths /\ a.manifest.merkle_root[n] # NoFile
        /\ \A n \in Paths : a.manifest.merkle_root[n] # NoFile =>
              \E k \in DOMAIN a.manifest.files :
                 LET e == a.manifest.files[k]
                 IN  Target[e.name] = n /\ e.bytes = a.manifest.merkle_root[n]

VARIABLES
    archive,   \* the archive file: an archive, or Empty while it is written
    revs,      \* revs[s]: the revocation list at source s
    now,       \* the clock
    pc,        \* the next step of the command
    cmd,       \* its capability, identity and revocation source
    report,    \* the archive verify_archive has verified (VerifyReport)
    handle,    \* the archive whose directory was read when it was reopened
    pos,       \* the entry the export has got to
    out,       \* out[n]: what the command has written under path n
    bounds,    \* writes, updates and runs so far
    revokedIn, \* history: revokedIn[s][i], what the last list of issuer i at
               \* source s that verified revoked
    barred,    \* history: why the capability must not be let through, since
               \* the command began
    steady     \* history: the archive was not rewritten since it began

cmdVars == <<pc, cmd, report, handle, pos, out>>
vars == <<archive, revs, now, cmdVars, bounds, revokedIn, barred, steady>>

Nothing == [n \in Paths |-> NoFile]
Zero == [writes |-> 0, updates |-> 0, runs |-> 0]

Init ==
    /\ archive \in Archives
    /\ revs = [s \in Sources |-> Absent]
    /\ now = 0
    /\ pc = "idle" /\ cmd = Absent /\ report = Absent /\ handle = Absent
    /\ pos = 1 /\ out = Nothing
    /\ bounds = Zero
    /\ revokedIn = [s \in Sources |-> [i \in Issuers |-> {}]]
    /\ barred = {} /\ steady = TRUE

----------------------------------------------------------------------------

\* The last of these positions in a list.
Last(positions) == CHOOSE k \in positions : \A j \in positions : j <= k

\* What writing these entries one after the other leaves: the last of those
\* that lead to a path.
Extracted(entries) ==
    [n \in Paths |->
        LET here == {k \in DOMAIN entries : Target[entries[k].name] = n}
        IN  IF here = {} THEN NoFile ELSE entries[Last(here)].bytes]

\* Mutant of VerifiedArchive: the payload is not compared with the roots.
VerifiedManifest(a) == a # Empty /\ a.genuine

\* verify_archive: the manifest signature verifies, no entry has an unsafe
\* name, and the root recomputed from the extracted files is both the
\* manifest's and the signature bundle's.
VerifiedArchive(a) ==
    /\ a # Empty
    /\ a.genuine
    /\ \A k \in DOMAIN a.entries : Target[a.entries[k].name] # Unsafe
    /\ Extracted(a.entries) = a.manifest.merkle_root
    /\ Extracted(a.entries) = a.root

\* The capability as the command reads it, and its terms.
term == Terms[cmd.cap.token]

\* The checks of Access::parse and after it; the expiry is inclusive.
Granted ==
    /\ term.root = report.manifest.merkle_root
    /\ term.operation = "read"
    /\ term.audience = cmd.who
    /\ now <= term.expires

Fail ==
    /\ pc' = "failed"
    /\ UNCHANGED <<archive, revs, now, cmd, report, handle, pos, out, bounds,
                   revokedIn, barred, steady>>

Pass(step) ==
    /\ pc' = step
    /\ UNCHANGED <<archive, revs, now, cmd, pos, out, bounds, revokedIn, barred, steady>>

\* A run of the command, with an empty output directory.
Begin ==
    /\ pc \in {"idle", "failed", "opened"} /\ bounds.runs < MaxRuns
    /\ \E c \in Capability, w \in Identities, s \in Sources \cup {Absent} :
        /\ cmd' = [cap |-> c, who |-> w, source |-> s]
        /\ barred' = {why \in {"revoked", "expired"} :
                        IF why = "revoked"
                        THEN s # Absent /\ c \in revokedIn[s][c.public_key]
                        ELSE now > Terms[c.token].expires}
    /\ pc' = "verify" /\ steady' = TRUE
    /\ report' = Absent /\ handle' = Absent /\ pos' = 1 /\ out' = Nothing
    /\ bounds' = [bounds EXCEPT !.runs = @ + 1]
    /\ UNCHANGED <<archive, revs, now, revokedIn>>

\* The archive verifies; so does the capability, and the archive's signer
\* signed it.
Verify ==
    LET trusted == VerifiedArchive(archive) /\ cmd.cap.genuine
                   /\ cmd.cap.public_key = archive.signer
    IN  /\ pc = "verify"
        /\ \/ trusted /\ report' = archive /\ UNCHANGED handle /\ Pass("revocations")
           \/ ~ trusted /\ Fail

\* load_revocations and the checks of the list; none is read unless the
\* command was given a file or an address.
CheckRevocations ==
    LET admitted == cmd.source # Absent => Admits(revs[cmd.source], report.signer, cmd.cap)
    IN  /\ pc = "revocations"
        /\ \/ admitted /\ UNCHANGED <<report, handle>> /\ Pass("access")
           \/ ~ admitted /\ Fail

CheckAccess ==
    /\ pc = "access"
    /\ \/ Granted /\ UNCHANGED <<report, handle>> /\ Pass("reopen")
       \/ ~ Granted /\ Fail

\* Mutant of Readable: a truncated file has a directory too.
ReadableAlways == TRUE

\* ZipArchive::new finds the directory of the archive.
Readable == archive # Empty

\* unwrap_content_key: the private key that belongs to one of the stanzas, which
\* wrap_content_key made for its public half.
Unwraps(who, m) == who \in m.recipients

\* A recipient unwraps the content key with the verified manifest, then the
\* archive file is opened again and its directory read.
Reopen ==
    LET m == report.manifest
        openable == Readable /\ (m.encrypted => Unwraps(cmd.who, m))
    IN  /\ pc = "reopen"
        /\ \/ openable /\ handle' = archive /\ UNCHANGED report /\ Pass("export")
           \/ ~ openable /\ Fail

----------------------------------------------------------------------------

\* What the export goes through: open_encrypted the files of the verified
\* manifest, open_plain the entries of the reopened archive.
Worklist == IF report.manifest.encrypted THEN report.manifest.files ELSE handle.entries

current == Worklist[pos]

\* access.allows_path, of the name as it is listed or archived.
Selected == current.name \in term.allowed

\* by_name: the last entry of exactly that name.
Archived(name) ==
    LET named == {k \in DOMAIN handle.entries : handle.entries[k].name = name}
    IN  IF named = {} THEN NoFile ELSE handle.entries[Last(named)].bytes

\* Only open_encrypted compares the bytes with what was verified; write_safe
\* refuses an unsafe name.
Intact ==
    /\ report.manifest.encrypted => Archived(current.name) = current.bytes
    /\ Target[current.name] # Unsafe

Exporting == pc = "export" /\ pos \in DOMAIN Worklist

NextEntry ==
    /\ pos' = pos + 1
    /\ UNCHANGED <<archive, revs, now, pc, cmd, report, handle, bounds,
                   revokedIn, barred, steady>>

Skip == Exporting /\ ~ Selected /\ NextEntry /\ UNCHANGED out

\* write_safe, over what an earlier entry left there.  The checksum of the
\* entry lets no bytes through but those that were there when the directory
\* was read.
Export ==
    /\ Exporting /\ Selected /\ Intact
    /\ out' = [out EXCEPT ![Target[current.name]] = current.bytes]
    /\ NextEntry

\* Mutant of Mismatch: a file that does not match is left out.
MismatchSkipped == Exporting /\ Selected /\ ~ Intact /\ NextEntry /\ UNCHANGED out

\* No such entry, not the bytes the manifest names, or an unsafe name.
Mismatch == Exporting /\ Selected /\ ~ Intact /\ Fail

\* The file was rewritten in place under the open handle; open_plain reads
\* the header of every entry, open_encrypted only of the selected ones.
ReadFails ==
    /\ Exporting /\ archive # handle
    /\ report.manifest.encrypted => Selected
    /\ Fail

\* Nothing exported is an error.
Finish ==
    /\ pc = "export" /\ pos > Len(Worklist)
    /\ \/ out # Nothing /\ UNCHANGED <<report, handle>> /\ Pass("opened")
       \/ out = Nothing /\ Fail

\* Killed, or a write fails, perhaps with a part of the file written.
Kill ==
    /\ pc \notin {"idle", "failed", "opened"}
    /\ pc' = "failed"
    /\ \/ UNCHANGED out
       \/ Exporting /\ Selected /\ Intact
          /\ out' = [out EXCEPT ![Target[current.name]] = Torn]
    /\ UNCHANGED <<archive, revs, now, cmd, report, handle, pos, bounds,
                   revokedIn, barred, steady>>

----------------------------------------------------------------------------

Edited(i) == [NewList(i) EXCEPT !.signed = FALSE]

\* A list of an issuer that verifies and revokes these capabilities.
ListOf(i, revoked) == [NewList(i) EXCEPT !.revoked = revoked]

\* fetch, pack or seal writes another archive to the file: File::create or
\* fs::write truncates it, then the bytes are written.
RewriteArchive ==
    /\ bounds.writes < MaxWrites
    /\ \/ archive # Empty /\ archive' = Empty
       \/ archive = Empty /\ archive' \in Archives
    /\ bounds' = [bounds EXCEPT !.writes = @ + 1]
    /\ steady' = FALSE
    /\ UNCHANGED <<revs, now, cmdVars, revokedIn, barred>>

\* The list at a source is truncated, or edited so that it does not verify.
SpoilList ==
    /\ bounds.updates < MaxUpdates
    /\ \E s \in Sources : \E c \in {Empty} \cup {Edited(i) : i \in Issuers} :
          revs' = [revs EXCEPT ![s] = c]
    /\ bounds' = [bounds EXCEPT !.updates = @ + 1]
    /\ UNCHANGED <<archive, now, cmdVars, revokedIn, barred, steady>>

\* A list that verifies is put at a source: its issuer has revoked one more
\* capability, or the list is an older one, or was edited and its signature
\* still covers it; then it may revoke less than the one before.
UpdateList ==
    /\ bounds.updates < MaxUpdates
    /\ \E s \in Sources, i \in Issuers :
        \E revoked \in SUBSET {c \in Revocable : c.public_key = i} :
            /\ revs' = [revs EXCEPT ![s] = ListOf(i, revoked)]
            /\ revokedIn' = [revokedIn EXCEPT ![s][i] = revoked]
            /\ barred' = IF /\ pc # "idle" /\ cmd.source = s /\ cmd.cap.public_key = i
                            /\ cmd.cap \notin revoked
                         THEN barred \ {"revoked"} ELSE barred
    /\ bounds' = [bounds EXCEPT !.updates = @ + 1]
    /\ UNCHANGED <<archive, now, cmdVars, steady>>

Tick ==
    /\ now < MaxClock /\ now' = now + 1
    /\ UNCHANGED <<archive, revs, cmdVars, bounds, revokedIn, barred, steady>>

Command == Begin \/ Verify \/ CheckRevocations \/ CheckAccess \/ Reopen
           \/ Skip \/ Export \/ Mismatch \/ ReadFails \/ Finish \/ Kill

Next == Command \/ RewriteArchive \/ SpoilList \/ UpdateList \/ Tick

Spec == Init /\ [][Next]_vars

----------------------------------------------------------------------------

\* The types of the variables.
TypeOK ==
    /\ archive \in Archives \cup {Empty}
    /\ revs \in [Sources -> Content]
    /\ now \in 0 .. MaxClock
    /\ pc \in {"idle", "verify", "revocations", "access", "reopen", "export",
               "failed", "opened"}
    /\ report \in Archives \cup {Absent} /\ handle \in Archives \cup {Absent}
    /\ pos \in Nat \ {0}
    /\ out \in [Paths -> Bytes \cup {NoFile, Torn}]
    /\ barred \subseteq {"revoked", "expired"} /\ steady \in BOOLEAN

Written == {n \in Paths : out[n] \notin {NoFile, Torn}}

\* Every file in the output has a path that an allowed name leads to and the
\* bytes of the payload whose root the capability names.  A plain archive that
\* is rewritten between the two times it is read, or one with two entries for
\* one path, breaks this.
ExportsGranted ==
    \A n \in Written : /\ \E name \in term.allowed : Target[name] = n
                       /\ out[n] = term.root[n]

\* The files as verify_archive saw them: listed by the manifest if it is
\* sealed, else the entries.
Origin == IF report.manifest.encrypted THEN report.manifest.files ELSE report.entries

\* Those of them that the capability allows.
Promised == {k \in DOMAIN Origin : Origin[k].name \in term.allowed}

\* A sealed archive may be rewritten during the export; a plain one must be
\* left alone.
Held == report # Absent /\ (report.manifest.encrypted \/ steady)

\* Then every file in the output comes from an entry that the capability
\* allows, with the bytes the archive had for it when it was verified; and if
\* no two entries lead to one path, with the bytes of the payload whose root
\* the capability names.  With two, verify_archive has hashed the last one, and
\* a pattern may allow the other.
SealedExportsGranted ==
    Held =>
        /\ \A n \in Written : \E k \in Promised :
              Target[Origin[k].name] = n /\ out[n] = Origin[k].bytes
        /\ Distinct(Origin) => ExportsGranted

\* What is promised of a capability is of the capability as it is spelled.  If,
\* when the command began, the last list that verified at the source it was
\* given revoked it, and no list that verifies has withdrawn that since, nothing
\* is exported: no list that is torn, unsigned or another issuer's lets it
\* through.  Nor is anything if it had expired when the command began.
NothingForBarred == barred # {} => Written = {}

\* A command that reports success has written every file whose name the
\* capability allows, the name being the one the manifest lists in a sealed
\* archive, and at least one.  SealedExportsGranted says with which bytes.
SuccessIsComplete ==
    pc = "opened" /\ Held =>
        Promised # {} /\ \A k \in Promised : Target[Origin[k].name] \in Written
=============================================================================
