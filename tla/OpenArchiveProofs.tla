------------------------- MODULE OpenArchiveProofs -------------------------
(***************************************************************************)
(* What qcap open guarantees, for every value of the constants: any        *)
(* archives, entries, names and capabilities, and any number of changes to *)
(* the archive file and the revocation lists while it runs.                *)
(***************************************************************************)
EXTENDS OpenArchive, TLAPS

Argument == [cap : Capability, who : Identities, source : Sources \cup {Absent}]
Checking == {"verify", "revocations", "access", "reopen"}

\* The command has its arguments and the archives it has read, and the lists
\* revoke capabilities.
CommandFits ==
    /\ revokedIn \in [Sources -> [Issuers -> SUBSET Capability]]
    /\ pc # "idle" => cmd \in Argument
    /\ pc \in {"revocations", "access", "reopen", "export", "opened"} => report \in Archives
    /\ pc \in {"export", "opened"} => handle \in Archives

\* Nothing is written before the checks are passed, and only a command that is
\* killed leaves a file torn.
OutFits ==
    /\ pc \in Checking \cup {"idle"} => out = Nothing /\ pos = 1
    /\ pc = "opened" => pos > Len(Worklist) /\ out # Nothing
    /\ pc \in {"export", "opened"} => \A n \in Paths : out[n] # Torn

Typed == TypeOK /\ CommandFits /\ OutFits

\* No list to read.
LEMMA EmptyIsNoList == ~ Verifies(Empty) /\ ~ Verifies(Absent)
BY MarksAssumption DEF Verifies

LEMMA ArchiveShape ==
    ASSUME NEW a \in Archives
    PROVE  /\ a.manifest.merkle_root \in Payload /\ a.manifest.files \in Seq(Entry)
           /\ a.entries \in Seq(Entry) /\ a.manifest.encrypted \in BOOLEAN
           /\ a.signer \in Issuers
BY ArchivesAssumption DEF Archive, Manifest

LEMMA TermShape ==
    ASSUME NEW c \in Capability
    PROVE  /\ Terms[c.token].root \in Payload /\ Terms[c.token].allowed \subseteq Names
           /\ Terms[c.token].expires \in Nat
<1>1. c.token \in Tokens
  BY DEF Capability
<1> QED BY <1>1, TermsAssumption

\* The entry an export has got to.
LEMMA CurrentShape ==
    ASSUME Typed, Exporting
    PROVE  /\ current \in Entry /\ Target[current.name] \in Paths \cup {Unsafe}
           /\ current.bytes \in Bytes
<1>1. report \in Archives /\ handle \in Archives
  BY DEF Exporting, Typed, CommandFits
<1>2. Worklist \in Seq(Entry)
  BY <1>1, ArchiveShape DEF Worklist
<1>3. current \in Entry
  BY <1>2 DEF current, Exporting
<1> QED BY <1>3, NamesAssumption DEF Entry

LEMMA TypedInit == Init => Typed
<1> SUFFICES ASSUME Init PROVE Typed
  OBVIOUS
<1>1. TypeOK
  <2>1. out \in [Paths -> Bytes \cup {NoFile, Torn}] /\ revs \in [Sources -> Content]
    BY DEF Init, Nothing, Content
  <2>2. now \in 0 .. MaxClock /\ pos \in Nat \ {0}
    BY NumbersAssumption DEF Init
  <2> QED BY <2>1, <2>2 DEF Init, TypeOK
<1>2. CommandFits /\ OutFits
  BY DEF Init, CommandFits, OutFits
<1> QED BY <1>1, <1>2 DEF Typed

LEMMA EnvironmentTyped ==
    Typed /\ (RewriteArchive \/ SpoilList \/ UpdateList \/ Tick) => Typed'
<1> SUFFICES ASSUME Typed, RewriteArchive \/ SpoilList \/ UpdateList \/ Tick PROVE Typed'
  OBVIOUS
<1> USE DEF Typed, TypeOK, cmdVars
<1>1. OutFits'
  BY DEF OutFits, Worklist, RewriteArchive, SpoilList, UpdateList, Tick
<1>2. CASE RewriteArchive
  BY <1>1, <1>2 DEF RewriteArchive, CommandFits
<1>3. CASE Tick
  BY <1>1, <1>3, NumbersAssumption DEF Tick, CommandFits
<1>4. CASE SpoilList
  <2>1. \A c \in {Empty} \cup {Edited(i) : i \in Issuers} : c \in Content
    BY DEF Content, Edited, NewList, List
  <2>2. revs' \in [Sources -> Content]
    BY <1>4, <2>1 DEF SpoilList
  <2> QED BY <1>1, <1>4, <2>2 DEF SpoilList, CommandFits
<1>5. CASE UpdateList
  <2>1. PICK s \in Sources, i \in Issuers, revoked \in SUBSET Revocable :
          /\ revs' = [revs EXCEPT ![s] = ListOf(i, revoked)]
          /\ revokedIn' = [revokedIn EXCEPT ![s][i] = revoked]
          /\ barred' \subseteq barred
    BY <1>5 DEF UpdateList
  <2>2. revoked \subseteq Capability
    BY RevocableAssumption
  <2>3. ListOf(i, revoked) \in Content
    BY <2>2 DEF Content, ListOf, NewList, List
  <2>4. revs' \in [Sources -> Content] /\ revokedIn' \in [Sources -> [Issuers -> SUBSET Capability]]
    BY <2>1, <2>2, <2>3 DEF CommandFits
  <2>5. UNCHANGED <<archive, now, pc, cmd, report, handle, pos, out, steady>>
    BY <1>5 DEF UpdateList
  <2> QED BY <1>1, <2>1, <2>4, <2>5 DEF CommandFits
<1> QED BY <1>2, <1>3, <1>4, <1>5

LEMMA CommandTyped == Typed /\ Command => Typed'
<1> SUFFICES ASSUME Typed, Command PROVE Typed'
  OBVIOUS
<1> USE DEF Typed, TypeOK, CommandFits
<1>1. CASE Begin
  <2>1. /\ cmd' \in Argument /\ pc' = "verify" /\ steady' = TRUE
        /\ barred' \subseteq {"revoked", "expired"}
        /\ report' = Absent /\ handle' = Absent /\ pos' = 1 /\ out' = Nothing
        /\ UNCHANGED <<archive, revs, now, revokedIn>>
    BY <1>1 DEF Begin, Argument
  <2> QED BY <2>1 DEF Nothing, OutFits, Checking
<1>2. CASE Verify
  BY <1>2 DEF Verify, VerifiedArchive, Fail, Pass, OutFits, Checking
<1>3. CASE CheckRevocations
  BY <1>3 DEF CheckRevocations, Fail, Pass, OutFits, Checking
<1>4. CASE CheckAccess
  BY <1>4 DEF CheckAccess, Fail, Pass, OutFits, Checking
<1>5. CASE Reopen
  <2>1. /\ UNCHANGED <<archive, revs, now, cmd, report, pos, out, revokedIn, barred, steady>>
        /\ \/ handle' \in Archives /\ pc' = "export"
           \/ UNCHANGED handle /\ pc' = "failed"
        /\ pc = "reopen"
    BY <1>5 DEF Reopen, Readable, Fail, Pass
  <2> QED BY <2>1, BytesAssumption DEF OutFits, Checking, Nothing
<1>6. CASE Skip
  <2>1. /\ pc = "export" /\ pos' = pos + 1
        /\ UNCHANGED <<archive, revs, now, pc, cmd, report, handle, out, revokedIn, barred, steady>>
    BY <1>6 DEF Skip, Exporting, NextEntry
  <2> QED BY <2>1 DEF OutFits, Checking
<1>7. CASE Export
  <2>1. /\ Exporting /\ pc = "export" /\ pos' = pos + 1 /\ Target[current.name] # Unsafe
        /\ out' = [out EXCEPT ![Target[current.name]] = current.bytes]
        /\ UNCHANGED <<archive, revs, now, pc, cmd, report, handle, revokedIn, barred, steady>>
    BY <1>7 DEF Export, Exporting, NextEntry, Intact
  <2>2. Target[current.name] \in Paths /\ current.bytes \in Bytes
    BY <2>1, CurrentShape
  <2>3. out' \in [Paths -> Bytes \cup {NoFile, Torn}] /\ pos' \in Nat \ {0}
    BY <2>1, <2>2
  <2>4. OutFits'
    BY <2>1, <2>2, BytesAssumption DEF OutFits, Checking
  <2> QED BY <2>1, <2>3, <2>4
<1>8. CASE Mismatch \/ ReadFails
  <2>1. pc' = "failed" /\ pc # "idle"
        /\ UNCHANGED <<archive, revs, now, cmd, report, handle, pos, out, revokedIn, barred, steady>>
    BY <1>8 DEF Mismatch, ReadFails, Exporting, Fail
  <2> QED BY <2>1 DEF OutFits, Checking
<1>9. CASE Finish
  BY <1>9 DEF Finish, Worklist, Fail, Pass, OutFits, Checking
<1>10. CASE Kill
  <2>1. /\ pc' = "failed" /\ pc # "idle"
        /\ UNCHANGED out \/ \E n : out' = [out EXCEPT ![n] = Torn]
        /\ UNCHANGED <<archive, revs, now, cmd, report, handle, pos, revokedIn, barred, steady>>
    BY <1>10 DEF Kill
  <2>2. out' \in [Paths -> Bytes \cup {NoFile, Torn}]
    BY <2>1
  <2> QED BY <2>1, <2>2 DEF OutFits, Checking
<1> QED BY <1>1, <1>2, <1>3, <1>4, <1>5, <1>6, <1>7, <1>8, <1>9, <1>10 DEF Command

LEMMA TypedStep == Typed /\ [Next]_vars => Typed'
<1>1. CASE UNCHANGED vars
  BY <1>1 DEF vars, cmdVars, Typed, TypeOK, CommandFits, OutFits, Worklist
<1> QED BY <1>1, EnvironmentTyped, CommandTyped DEF Next

\* The types of the variables of qcap open.
THEOREM TypesHold == Spec => []TypeOK
<1>1. Typed => TypeOK
  BY DEF Typed
<1> QED BY <1>1, TypedInit, TypedStep, PTL DEF Spec

-----------------------------------------------------------------------------
(* What is exported.                                                       *)

Trusted == {"revocations", "access", "reopen", "export", "opened"}

\* What the command has checked when it has got so far.
Checked ==
    /\ pc \in Trusted => VerifiedArchive(report) /\ cmd.cap.public_key = report.signer
    /\ pc \in {"reopen", "export", "opened"} => term.root = report.manifest.merkle_root
    /\ steady /\ pc \in {"revocations", "access", "reopen"} => archive = report
    /\ steady /\ pc \in {"export", "opened"} => handle = report

\* What has been written is granted, and what is promised of the entries before
\* pos has been written.
Exported ==
    /\ SealedExportsGranted
    /\ pc \in {"export", "opened"} /\ Held =>
          \A k \in Promised : k < pos => Target[Origin[k].name] \in Written

\* The export goes through what was verified if it follows the verified manifest
\* or reads the very archive that was verified.
LEMMA WorklistIsOrigin ==
    ASSUME Checked, pc \in {"export", "opened"}, Held
    PROVE  Worklist = Origin
BY DEF Checked, Held, Worklist, Origin

LEMMA LastOfOne == \A k \in Nat : Last({k}) = k
BY DEF Last

\* If no two entries lead to one path, the verified root has the bytes of each.
LEMMA RootHasEntries ==
    ASSUME report \in Archives, VerifiedArchive(report), Distinct(Origin),
           NEW k \in DOMAIN Origin, NEW n \in Paths, Target[Origin[k].name] = n
    PROVE  Origin[k].bytes = report.manifest.merkle_root[n]
<1>1. CASE report.manifest.encrypted
  <2>1. Origin = report.manifest.files /\ report.genuine
    BY <1>1 DEF Origin, VerifiedArchive
  <2>2. report.manifest.merkle_root[n] # NoFile
    BY <1>1, <2>1, SignedAssumption
  <2>3. PICK j \in DOMAIN Origin : /\ Target[Origin[j].name] = n
                                  /\ Origin[j].bytes = report.manifest.merkle_root[n]
    BY <1>1, <2>1, <2>2, SignedAssumption
  <2>4. j = k
    BY <2>3 DEF Distinct
  <2> QED BY <2>3, <2>4
<1>2. CASE ~ report.manifest.encrypted
  <2>1. Origin = report.entries /\ Extracted(Origin) = report.manifest.merkle_root
    BY <1>2 DEF Origin, VerifiedArchive
  <2>2. {j \in DOMAIN Origin : Target[Origin[j].name] = n} = {k}
    BY DEF Distinct
  <2>3. k \in Nat
    BY <2>1, ArchiveShape
  <2>4. Extracted(Origin)[n] = Origin[k].bytes
    BY <2>2, <2>3, LastOfOne DEF Extracted
  <2> QED BY <2>1, <2>4
<1> QED BY <1>1, <1>2

LEMMA CheckedStep == Typed /\ Checked /\ [Next]_vars => Checked'
<1> SUFFICES ASSUME Typed, Checked, [Next]_vars PROVE Checked'
  OBVIOUS
<1> USE DEF Checked, Trusted, term
<1>1. CASE Begin
  BY <1>1 DEF Begin
<1>2. CASE Verify
  BY <1>2 DEF Verify, Fail, Pass
<1>3. CASE CheckRevocations \/ CheckAccess
  BY <1>3 DEF CheckRevocations, CheckAccess, Granted, Fail, Pass
<1>4. CASE Reopen
  BY <1>4 DEF Reopen, Fail, Pass
<1>5. CASE Skip \/ Export
  BY <1>5 DEF Skip, Export, NextEntry
<1>6. CASE Mismatch \/ ReadFails \/ Kill
  BY <1>6 DEF Mismatch, ReadFails, Kill, Fail
<1>7. CASE Finish
  BY <1>7 DEF Finish, Fail, Pass
<1>8. CASE RewriteArchive \/ SpoilList \/ UpdateList \/ Tick
  BY <1>8 DEF RewriteArchive, SpoilList, UpdateList, Tick, cmdVars
<1>9. CASE UNCHANGED vars
  BY <1>9 DEF vars, cmdVars
<1> QED BY <1>1, <1>2, <1>3, <1>4, <1>5, <1>6, <1>7, <1>8, <1>9 DEF Next, Command

LEMMA ExportedStep == Typed /\ Checked /\ Exported /\ [Next]_vars => Exported'
<1> SUFFICES ASSUME Typed, Checked, Exported, [Next]_vars PROVE Exported'
  OBVIOUS
<1> USE DEF Exported, SealedExportsGranted, ExportsGranted, Written, Held, Promised, Origin, term
<1>1. CASE Begin
  BY <1>1 DEF Begin
<1>2. CASE Verify \/ CheckRevocations \/ CheckAccess
  <2>1. out = Nothing /\ out' = Nothing /\ pc' \notin {"export", "opened"}
    BY <1>2 DEF Verify, CheckRevocations, CheckAccess, Fail, Pass, Typed, OutFits, Checking
  <2> QED BY <2>1 DEF Nothing
<1>3. CASE Reopen
  <2>1. /\ out = Nothing /\ pos = 1 /\ UNCHANGED <<report, steady, cmd, pos, out>>
        /\ report \in Archives
    BY <1>3 DEF Reopen, Fail, Pass, Typed, CommandFits, OutFits, Checking
  <2>2. Origin \in Seq(Entry)
    BY <2>1, ArchiveShape
  <2>3. \A k \in Promised : ~ (k < pos)
    BY <2>1, <2>2
  <2> QED BY <2>1, <2>3 DEF Nothing
<1>4. CASE Skip
  <2>1. /\ pc = "export" /\ pos' = pos + 1 /\ ~ Selected /\ pos \in DOMAIN Worklist
        /\ UNCHANGED <<report, steady, cmd, out, pc>>
    BY <1>4 DEF Skip, Exporting, NextEntry
  <2>2. Held => pos \notin Promised
    BY <2>1, WorklistIsOrigin DEF Selected, current
  <2>3. report \in Archives /\ pos \in Nat
    BY <2>1 DEF Typed, TypeOK, CommandFits
  <2>4. \A k \in DOMAIN Origin : k < pos + 1 => k < pos \/ k = pos
    BY <2>3, ArchiveShape
  <2> QED BY <2>1, <2>2, <2>4
<1>5. CASE Export
  <2> DEFINE t == Target[current.name]
  <2>1. /\ Exporting /\ pc = "export" /\ pos' = pos + 1 /\ Selected /\ t # Unsafe
        /\ pos \in DOMAIN Worklist /\ out' = [out EXCEPT ![t] = current.bytes]
        /\ UNCHANGED <<report, steady, cmd, pc>>
    BY <1>5 DEF Export, Exporting, NextEntry, Intact
  <2>2. t \in Paths /\ current.bytes \in Bytes
    BY <2>1, CurrentShape
  <2>3. report \in Archives /\ VerifiedArchive(report) /\ pos \in Nat
        /\ term.root = report.manifest.merkle_root
    BY <2>1 DEF Typed, TypeOK, CommandFits, Checked, Trusted
  <2>4. Held => pos \in Promised /\ Origin[pos] = current
    BY <2>1, WorklistIsOrigin DEF Selected, current
  <2>5. \A n \in Paths : out'[n] = (IF n = t THEN current.bytes ELSE out[n])
    BY <2>1 DEF Typed, TypeOK
  <2>6. t \in Written' /\ \A n \in Paths : n \in Written => n \in Written'
    BY <2>2, <2>5, BytesAssumption
  <2>7. \A k \in DOMAIN Origin : k < pos + 1 => k < pos \/ k = pos
    BY <2>3, ArchiveShape
  <2>8. Held /\ Distinct(Origin) => current.bytes = term.root[t]
    BY <2>2, <2>3, <2>4, RootHasEntries
  <2>9. Held => \A n \in Written' : \E k \in Promised :
                  Target[Origin[k].name] = n /\ out'[n] = Origin[k].bytes
    BY <2>2, <2>4, <2>5
  <2>10. Held /\ Distinct(Origin) => ExportsGranted'
    BY <2>1, <2>2, <2>5, <2>8 DEF Selected
  <2>11. Held => \A k \in Promised : k < pos + 1 => Target[Origin[k].name] \in Written'
    BY <2>1, <2>4, <2>6, <2>7
  <2> QED BY <2>1, <2>9, <2>10, <2>11
<1>6. CASE Mismatch \/ ReadFails
  BY <1>6 DEF Mismatch, ReadFails, Fail
<1>7. CASE Kill
  <2>1. /\ pc' = "failed" /\ UNCHANGED <<report, steady, cmd>>
        /\ UNCHANGED out \/ \E n : out' = [out EXCEPT ![n] = Torn]
    BY <1>7 DEF Kill
  <2>2. \A n \in Written' : n \in Written /\ out'[n] = out[n]
    BY <2>1 DEF Typed, TypeOK
  <2> QED BY <2>1, <2>2
<1>8. CASE Finish
  BY <1>8 DEF Finish, Fail, Pass
<1>9. CASE RewriteArchive \/ SpoilList \/ UpdateList \/ Tick
  BY <1>9 DEF RewriteArchive, SpoilList, UpdateList, Tick, cmdVars
<1>10. CASE UNCHANGED vars
  BY <1>10 DEF vars, cmdVars
<1> QED BY <1>1, <1>2, <1>3, <1>4, <1>5, <1>6, <1>7, <1>8, <1>9, <1>10 DEF Next, Command

LEMMA ExportedInit == Init => Checked /\ Exported
BY DEF Init, Checked, Trusted, Exported, SealedExportsGranted, Held

\* Every file exported from an archive that was sealed, or whose file was left
\* alone during the export, comes from an entry the capability allows, with the
\* bytes it had when it was verified, and with those of the payload the
\* capability names unless two entries lead to one path.
THEOREM ExportsAreGranted == Spec => []SealedExportsGranted
<1>1. Exported => SealedExportsGranted
  BY DEF Exported
<1> QED BY <1>1, TypedInit, TypedStep, ExportedInit, CheckedStep, ExportedStep, PTL DEF Spec

\* A run that reports success has written every file that the capability allows.
THEOREM SuccessIsWhole == Spec => []SuccessIsComplete
<1>1. Typed /\ Checked /\ Exported => SuccessIsComplete
  <2> SUFFICES ASSUME Typed, Checked, Exported, pc = "opened", Held
               PROVE  /\ Promised # {}
                      /\ \A k \in Promised : Target[Origin[k].name] \in Written
    BY DEF SuccessIsComplete
  <2>1. report \in Archives /\ pos > Len(Worklist) /\ Worklist = Origin /\ pos \in Nat
    BY WorklistIsOrigin DEF Typed, TypeOK, CommandFits, OutFits
  <2>2. Origin \in Seq(Entry)
    BY <2>1, ArchiveShape DEF Origin
  <2>3. \A k \in Promised : k < pos
    BY <2>1, <2>2 DEF Promised
  <2>4. \A k \in Promised : Target[Origin[k].name] \in Written
    BY <2>3 DEF Exported
  <2>5. PICK n \in Paths : out[n] # NoFile
    BY DEF Typed, TypeOK, OutFits, Nothing
  <2>6. n \in Written
    BY <2>5 DEF Typed, OutFits, Written
  <2>7. Promised # {}
    BY <2>6 DEF Exported, SealedExportsGranted
  <2> QED BY <2>4, <2>7
<1> QED BY <1>1, TypedInit, TypedStep, ExportedInit, CheckedStep, ExportedStep, PTL DEF Spec

-----------------------------------------------------------------------------
(* Who is let in.                                                          *)

\* What a list that verifies revokes is what the last such list of its issuer did.
ListsCurrent ==
    \A s \in Sources : Verifies(revs[s]) =>
        revs[s].revoked = revokedIn[s][revs[s].public_key]

RevokedAt ==
    /\ cmd.source # Absent /\ cmd.source \in Sources /\ cmd.cap \in Capability
    /\ cmd.cap \in revokedIn[cmd.source][cmd.cap.public_key]

\* Why a command is barred lasts until it is withdrawn, and each check stops its
\* own part of it.
Barring ==
    /\ ListsCurrent
    /\ pc # "idle" /\ "revoked" \in barred => RevokedAt
    /\ pc # "idle" /\ "expired" \in barred => now > term.expires
    /\ pc = "access" => "revoked" \notin barred
    /\ pc \in {"reopen", "export", "opened"} => barred = {}
    /\ NothingForBarred

LEMMA ListsStep == Typed /\ ListsCurrent /\ [Next]_vars => ListsCurrent'
<1> SUFFICES ASSUME Typed, ListsCurrent, [Next]_vars PROVE ListsCurrent'
  OBVIOUS
<1>1. CASE UpdateList
  <2>1. PICK s \in Sources, i \in Issuers, revoked \in SUBSET Revocable :
          /\ revs' = [revs EXCEPT ![s] = ListOf(i, revoked)]
          /\ revokedIn' = [revokedIn EXCEPT ![s][i] = revoked]
    BY <1>1 DEF UpdateList
  <2>2. ListOf(i, revoked).public_key = i /\ ListOf(i, revoked).revoked = revoked
    BY DEF ListOf, NewList
  <2>3. revs'[s] = ListOf(i, revoked) /\ revokedIn'[s][i] = revoked
    BY <2>1 DEF Typed, TypeOK, CommandFits
  <2>4. \A r \in Sources : r # s => revs'[r] = revs[r] /\ revokedIn'[r] = revokedIn[r]
    BY <2>1 DEF Typed, TypeOK, CommandFits
  <2> QED BY <2>2, <2>3, <2>4 DEF ListsCurrent
<1>2. CASE SpoilList
  <2>1. ~ Verifies(Empty) /\ \A i \in Issuers : ~ Verifies(Edited(i))
    BY EmptyIsNoList DEF Verifies, Edited, NewList
  <2> QED BY <1>2, <2>1 DEF SpoilList, ListsCurrent, Typed, TypeOK
<1>3. CASE ~ UpdateList /\ ~ SpoilList
  <2>1. UNCHANGED <<revs, revokedIn>>
    BY <1>3 DEF Next, Command, Begin, Verify, CheckRevocations, CheckAccess, Reopen, Skip,
       Export, NextEntry, Mismatch, ReadFails, Finish, Kill, Fail, Pass, RewriteArchive,
       Tick, vars
  <2> QED BY <2>1 DEF ListsCurrent
<1> QED BY <1>1, <1>2, <1>3

LEMMA BarringStep == Typed /\ Checked /\ Barring /\ [Next]_vars => Barring'
<1> SUFFICES ASSUME Typed, Checked, Barring, [Next]_vars PROVE Barring'
  OBVIOUS
<1>0. ListsCurrent'
  BY ListsStep DEF Barring
<1> USE <1>0 DEF Barring, NothingForBarred, Written, RevokedAt, term
<1>1. CASE Begin
  <2>1. PICK c \in Capability, w \in Identities, s \in Sources \cup {Absent} :
          /\ cmd' = [cap |-> c, who |-> w, source |-> s]
          /\ barred' = {why \in {"revoked", "expired"} :
                          IF why = "revoked"
                          THEN s # Absent /\ c \in revokedIn[s][c.public_key]
                          ELSE now > Terms[c.token].expires}
    BY <1>1 DEF Begin
  <2>2. pc' = "verify" /\ out' = Nothing /\ UNCHANGED <<now, revokedIn>>
    BY <1>1 DEF Begin
  <2>3. "revoked" \in barred' => RevokedAt'
    BY <2>1, <2>2
  <2>4. "expired" \in barred' => (now > term.expires)'
    BY <2>1, <2>2
  <2> QED BY <2>2, <2>3, <2>4 DEF Nothing
<1>2. CASE Verify
  BY <1>2 DEF Verify, Fail, Pass
<1>3. CASE CheckRevocations
  <2>1. CASE pc' = "failed"
    BY <1>3, <2>1 DEF CheckRevocations, Fail, Pass
  <2>2. CASE pc' # "failed"
    <3>1. /\ pc = "revocations" /\ pc' = "access"
          /\ cmd.source # Absent => Admits(revs[cmd.source], report.signer, cmd.cap)
          /\ UNCHANGED <<revs, now, cmd, out, revokedIn, barred, report>>
      BY <1>3, <2>2 DEF CheckRevocations, Fail, Pass
    <3>2. cmd.cap.public_key = report.signer /\ cmd \in Argument
      BY <3>1 DEF Checked, Trusted, Typed, CommandFits
    <3>3. ~ RevokedAt
      BY <3>1, <3>2 DEF Admits, Revokes, ListsCurrent, Argument
    <3>4. "revoked" \notin barred
      BY <3>1, <3>3
    <3> QED BY <3>1, <3>4
  <2> QED BY <2>1, <2>2
<1>4. CASE CheckAccess
  <2>1. cmd.cap \in Capability
    BY <1>4 DEF CheckAccess, Typed, CommandFits, Argument
  <2>2. term.expires \in Nat /\ now \in Nat
    BY <2>1, TermShape, NumbersAssumption DEF Typed, TypeOK
  <2>3. now <= term.expires => ~ (now > term.expires)
    BY <2>2
  <2>4. barred \subseteq {"revoked", "expired"}
    BY DEF Typed, TypeOK
  <2> QED BY <1>4, <2>3, <2>4 DEF CheckAccess, Granted, Fail, Pass
<1>5. CASE Reopen
  BY <1>5 DEF Reopen, Fail, Pass
<1>6. CASE Skip \/ Export
  BY <1>6 DEF Skip, Export, Exporting, NextEntry
<1>7. CASE Mismatch \/ ReadFails \/ Finish
  BY <1>7 DEF Mismatch, ReadFails, Finish, Exporting, Fail, Pass
<1>8. CASE Kill
  <2>1. /\ pc' = "failed" /\ pc # "idle" /\ UNCHANGED <<now, cmd, revokedIn, barred>>
        /\ UNCHANGED out \/ \E n : out' = [out EXCEPT ![n] = Torn]
    BY <1>8 DEF Kill
  <2>2. Written' \subseteq Written
    BY <2>1 DEF Typed, TypeOK
  <2> QED BY <2>1, <2>2
<1>9. CASE UpdateList
  <2>1. PICK s \in Sources, i \in Issuers, revoked \in SUBSET Revocable :
          /\ revokedIn' = [revokedIn EXCEPT ![s][i] = revoked]
          /\ barred' = IF /\ pc # "idle" /\ cmd.source = s /\ cmd.cap.public_key = i
                          /\ cmd.cap \notin revoked
                       THEN barred \ {"revoked"} ELSE barred
    BY <1>9 DEF UpdateList
  <2>2. UNCHANGED <<now, pc, cmd, out>>
    BY <1>9 DEF UpdateList, cmdVars
  <2>3. \A r \in Sources, j \in Issuers :
          revokedIn'[r][j] = IF r = s /\ j = i THEN revoked ELSE revokedIn[r][j]
    BY <2>1 DEF Typed, CommandFits
  <2>4. \A c \in Capability : c.public_key \in Issuers
    BY DEF Capability
  <2>5. pc # "idle" /\ "revoked" \in barred' => RevokedAt'
    BY <2>1, <2>2, <2>3, <2>4
  <2> QED BY <2>1, <2>2, <2>5
<1>10. CASE RewriteArchive \/ SpoilList
  BY <1>10 DEF RewriteArchive, SpoilList, cmdVars
<1>11. CASE Tick
  <2>1. pc # "idle" => term.expires \in Nat
    BY TermShape DEF Typed, CommandFits, Argument
  <2>2. now \in Nat
    BY NumbersAssumption DEF Typed, TypeOK
  <2> QED BY <1>11, <2>1, <2>2 DEF Tick, cmdVars
<1>12. CASE UNCHANGED vars
  BY <1>12 DEF vars, cmdVars
<1> QED BY <1>1, <1>2, <1>3, <1>4, <1>5, <1>6, <1>7, <1>8, <1>9, <1>10, <1>11, <1>12
        DEF Next, Command

\* A capability that was revoked at the source, or had expired, when the
\* command began exports nothing, whatever has become of the list, unless a
\* list that verifies has withdrawn the revocation.
THEOREM BarredExportNothing == Spec => []NothingForBarred
<1>1. Init => Barring
  BY EmptyIsNoList DEF Init, Barring, ListsCurrent, NothingForBarred
<1>2. Barring => NothingForBarred
  BY DEF Barring
<1> QED BY <1>1, <1>2, TypedInit, TypedStep, ExportedInit, CheckedStep, BarringStep, PTL
        DEF Spec

=============================================================================
