--------------------------- MODULE IssuingProofs ---------------------------
(***************************************************************************)
(* What the issuing commands guarantee, for every value of the constants:  *)
(* any number of commands at a time, of files and of keys, any keyfile to  *)
(* begin with, and any number of changes and kills.                        *)
(***************************************************************************)
EXTENDS Issuing, TLAPS

Labels == {"idle", "verify", "key", "list", "read", "create", "chmod",
           "relist", "copy", "finish", "done"}

\* What may be at a target.
At(t) == CASE t = "keyfile" -> Identity \cup {Absent, Empty, Torn}
           [] t = "archive" -> Archive \cup {Absent, Empty, Torn}
           [] t = "capability" -> Capability \cup {Absent, Empty, Torn}

LEMMA DiskFields ==
    ASSUME NEW d \in Disk
    PROVE  /\ d["keyfile"] = d.keyfile /\ d["archive"] = d.archive
           /\ d["capability"] = d.capability
           /\ \A t \in Targets : d[t] \in At(t)
BY DEF Disk, Targets, At

LEMMA TargetType == \A c \in Commands : Target(c) \in Targets
BY DEF Commands, Target, Targets

-----------------------------------------------------------------------------
(* Types.                                                                  *)

CommandTypes ==
    /\ pc \in [Procs -> Labels]
    /\ cmd \in [Procs -> Commands]
    /\ given \in [Procs -> Givens \cup {Absent}]
    /\ ident \in [Procs -> Identity \cup {Absent}]
    /\ key \in [Procs -> Keys \cup {Absent}]
    /\ seen \in [Procs -> Payload]
    /\ left \in [Procs -> SUBSET Paths]
    /\ copied \in [Procs -> Payload]
    /\ shared \in [Procs -> BOOLEAN]
    /\ steady \in [Procs -> BOOLEAN]

WorldTypes ==
    /\ tree \in Payload \cup {Absent}
    /\ disk \in Disk
    /\ mode \in {"private", "open"}
    /\ used \subseteq Keys
    /\ bounds \in [commands : 0 .. MaxCommands, changes : 0 .. MaxChanges,
                   kills : 0 .. MaxKills]
    /\ ever \in [Paths -> SUBSET (Bytes \cup {NoFile})]
    /\ verified \subseteq Payload

\* The steps of each command; one that has ended counts as init.
StepOf(c, step) ==
    \/ c = "init" /\ step \in {"idle", "create", "chmod", "finish", "done"}
    \/ c = "pack" /\ step \in {"list", "read", "create", "relist", "copy"}
    \/ c = "seal" /\ step \in {"key", "list", "read", "create", "finish"}
    \/ c = "grant" /\ step \in {"verify", "key", "read", "create", "finish"}

StepFits == \A p \in Procs : StepOf(cmd[p], pc[p])

\* A command that writes has its key, one that needs an identity has it, and
\* init has its passphrase.
KeyFits ==
    \A p \in Procs :
        /\ pc[p] \in {"create", "chmod", "relist", "copy", "finish"} => key[p] # Absent
        /\ cmd[p] \in {"seal", "grant"} /\ pc[p] \in Labels \ {"idle", "done", "verify", "key"}
              => ident[p] \in Identity
        /\ cmd[p] = "init" /\ key[p] # Absent
              => given[p] \in Givens /\ ReadPassphrase(given[p]) \in Passphrase
        /\ pc[p] = "idle" => key[p] = Absent

Typed == CommandTypes /\ WorldTypes /\ StepFits /\ KeyFits

LEMMA TypesSplit == TypeOK <=> CommandTypes /\ WorldTypes
BY DEF TypeOK, CommandTypes, WorldTypes, Labels

LEMMA ReadPassphraseType ==
    ASSUME NEW g \in Givens
    PROVE  ReadPassphrase(g) \in Passphrase \cup {Absent}
BY GivensAssumption DEF ReadPassphrase, Passphrase, Given

LEMMA ContentsType ==
    ASSUME tree \in Payload \cup {Absent}, NEW n \in Paths
    PROVE  Contents(n) \in Bytes \cup {NoFile}
BY DEF Contents, Payload

LEMMA KeyTypes ==
    ASSUME Typed, NEW p \in Procs, pc[p] = "read"
    PROVE  /\ UnlockedKey(p) \in Keys \cup {Absent}
           /\ cmd[p] = "seal" /\ UnlockedKey(p) # Absent => UnlockedKey(p) = ident[p].public
<1> USE DEF Typed
<1>1. cmd[p] # "init" /\ cmd[p] \in Commands
  BY DEF CommandTypes, StepFits, StepOf
<1>2. \A identity \in Identity : \A g :
        /\ SigningKey(identity, g) \in Keys \cup {Absent}
        /\ SigningKey(identity, g) \in {Absent, identity.public}
  BY DEF SigningKey, Unlocks, Matching, Identity
<1>3. CASE cmd[p] = "pack"
  BY <1>2, <1>3 DEF UnlockedKey, PackKey, Parses, Identity
<1>4. CASE cmd[p] # "pack"
  <2>1. ident[p] \in Identity
    BY <1>1, <1>4 DEF KeyFits, Commands, Labels
  <2> QED BY <1>2, <1>4, <2>1 DEF UnlockedKey
<1> QED BY <1>3, <1>4

LEMMA TypedInit == Init => Typed
<1> SUFFICES ASSUME Init PROVE Typed
  OBVIOUS
<1>1. tree \in Payload \cup {Absent}
  BY TreesAssumption DEF Init
<1>2. PICK k \in Keyfiles, a \in Before :
        /\ disk = [keyfile |-> k.file, archive |-> a, capability |-> Absent]
        /\ mode = k.mode
        /\ used = IF k.file \in Identity THEN {k.file.public, k.file.secret, k.file.bound} ELSE {}
  BY DEF Init
<1>3. /\ k.file \in Identity \cup {Absent, Torn} /\ k.mode \in {"private", "open"}
  BY KeyfilesAssumption
<1>4. a \in Archive \cup {Absent}
  BY <1>1, SignersAssumption DEF Before, Archive
<1>5. disk \in Disk
  BY <1>2, <1>3, <1>4 DEF Disk
<1>6. used \subseteq Keys
  BY <1>2 DEF Identity
<1>7. ever \in [Paths -> SUBSET (Bytes \cup {NoFile})]
  BY <1>1 DEF Init, Payload
<1>8. bounds \in [commands : 0 .. MaxCommands, changes : 0 .. MaxChanges, kills : 0 .. MaxKills]
  BY BoundsAssumption DEF Init
<1>9. WorldTypes
  BY <1>1, <1>2, <1>3, <1>5, <1>6, <1>7, <1>8 DEF Init, WorldTypes
<1>10. Nothing \in Payload
  BY DEF Nothing, Payload
<1>11. CommandTypes
  BY <1>10 DEF Init, CommandTypes, Labels, Commands
<1>12. StepFits /\ KeyFits
  BY DEF Init, StepFits, StepOf, KeyFits
<1> QED BY <1>9, <1>11, <1>12 DEF Typed

\* A command that ends, with what is kept of it.
LEMMA EndTyped ==
    ASSUME Typed, NEW p \in Procs, NEW how \in {"idle", "done"}, NEW kept,
           End(p, how, kept),
           kept.key \in Keys \cup {Absent}, kept.given \in Givens \cup {Absent},
           how = "idle" => kept.key = Absent,
           kept.key # Absent =>
              kept.given \in Givens /\ ReadPassphrase(kept.given) \in Passphrase
    PROVE  CommandTypes' /\ StepFits' /\ KeyFits'
<1> USE DEF Typed, End
<1>1. Nothing \in Payload
  BY DEF Nothing, Payload
<1>2. CommandTypes'
  BY <1>1 DEF CommandTypes, Labels, Commands
<1>3. StepFits'
  BY DEF StepFits, StepOf, CommandTypes
<1>4. KeyFits'
  BY DEF KeyFits, CommandTypes, Labels
<1> QED BY <1>2, <1>3, <1>4

LEMMA FailTyped == ASSUME Typed, NEW p \in Procs, Fail(p) PROVE CommandTypes' /\ StepFits' /\ KeyFits'
BY EndTyped DEF Fail, Ended

LEMMA UnwrittenTyped == ASSUME Typed, Unwritten PROVE WorldTypes'
BY DEF Typed, WorldTypes, Unwritten, histories

LEMMA BeginTyped == ASSUME Typed, NEW p \in Procs, Begin(p) PROVE Typed'
<1> USE DEF Typed, histories
<1>1. PICK c \in Commands, g \in Givens :
        /\ pc' = [pc EXCEPT ![p] = FirstStep(c)] /\ cmd' = [cmd EXCEPT ![p] = c]
        /\ given' = [given EXCEPT ![p] = g]
        /\ \/ /\ c = "init" /\ ReadPassphrase(g) # Absent
              /\ \E k \in Keys \ used : key' = [key EXCEPT ![p] = k] /\ used' = used \cup {k}
           \/ c # "init" /\ key' = [key EXCEPT ![p] = Absent] /\ UNCHANGED used
  BY DEF Begin
<1>2. /\ bounds' = [bounds EXCEPT !.commands = @ + 1] /\ bounds.commands < MaxCommands
      /\ UNCHANGED <<tree, disk, mode, ident, seen, left, copied, shared, steady, ever, verified>>
  BY DEF Begin
<1>3. /\ FirstStep(c) \in {"create", "list", "key", "verify"}
      /\ FirstStep(c) = "create" <=> c = "init"
      /\ FirstStep(c) = "list" <=> c = "pack"
  BY DEF FirstStep, Commands
<1>4. CommandTypes'
  BY <1>1, <1>2, <1>3 DEF CommandTypes, Labels
<1>5. WorldTypes'
  <2>1. bounds' \in [commands : 0 .. MaxCommands, changes : 0 .. MaxChanges, kills : 0 .. MaxKills]
    BY <1>2, BoundsAssumption DEF WorldTypes
  <2> QED BY <1>1, <1>2, <2>1 DEF WorldTypes
<1>6. KeyFits'
  <2>1. \A q \in Procs \ {p} : /\ pc'[q] = pc[q] /\ cmd'[q] = cmd[q] /\ given'[q] = given[q]
                               /\ key'[q] = key[q] /\ ident'[q] = ident[q]
    BY <1>1, <1>2 DEF CommandTypes
  <2>2. /\ pc'[p] = FirstStep(c) /\ cmd'[p] = c /\ given'[p] = g
        /\ c = "init" => key'[p] # Absent /\ ReadPassphrase(g) \in Passphrase
    BY <1>1, ReadPassphraseType, MarkersAssumption DEF CommandTypes
  <2> QED BY <1>3, <2>1, <2>2 DEF KeyFits, Commands
<1>7. StepFits'
  <2>1. StepOf(c, FirstStep(c))
    BY DEF StepOf, FirstStep, Commands
  <2> QED BY <1>1, <2>1 DEF StepFits, CommandTypes
<1> QED BY <1>4, <1>5, <1>6, <1>7

\* The steps that read: the file that is verified, the identity, the directory.
LEMMA ReadingTyped ==
    ASSUME Typed, NEW p \in Procs,
           VerifyFirst(p) \/ VerifyFails(p) \/ LoadIdentity(p) \/ List(p) \/ Read(p)
    PROVE  Typed'
<1> USE DEF Typed, histories
<1>1. CASE VerifyFirst(p)
  <2>1. disk.archive.root \in Payload
    BY <1>1 DEF VerifyFirst, Verifies, Archive
  <2>2. /\ pc[p] = "verify" /\ pc' = [pc EXCEPT ![p] = "key"]
        /\ seen' = [seen EXCEPT ![p] = disk.archive.root]
        /\ verified' = verified \cup {disk.archive.root}
        /\ UNCHANGED <<tree, disk, mode, cmd, given, ident, key, left, copied, shared, steady,
                       used, bounds, ever>>
    BY <1>1 DEF VerifyFirst, Step
  <2>3. CommandTypes' /\ WorldTypes'
    BY <2>1, <2>2 DEF CommandTypes, WorldTypes, Labels
  <2>4. StepFits' /\ KeyFits'
    BY <2>2 DEF StepFits, StepOf, KeyFits, CommandTypes
  <2> QED BY <2>3, <2>4
<1>2. CASE Fail(p) /\ Unwritten
  BY <1>2, FailTyped, UnwrittenTyped
<1>3. CASE LoadIdentity(p) /\ ~ Fail(p)
  <2>1. /\ pc[p] = "key" /\ disk.keyfile \in Identity /\ Unwritten
        /\ pc' = [pc EXCEPT ![p] = IF cmd[p] = "seal" THEN "list" ELSE "read"]
        /\ ident' = [ident EXCEPT ![p] = disk.keyfile]
        /\ UNCHANGED <<cmd, given, key, seen, left, copied, shared, steady>>
    BY <1>3 DEF LoadIdentity, Step, Parses
  <2>2. CommandTypes'
    BY <2>1 DEF CommandTypes, Labels
  <2>3. KeyFits'
    BY <2>1 DEF KeyFits, CommandTypes, Labels
  <2>4. StepFits'
    BY <2>1 DEF StepFits, StepOf, CommandTypes
  <2> QED BY <2>1, <2>2, <2>3, <2>4, UnwrittenTyped
<1>4. CASE List(p)
  <2>1. Listing \in SUBSET Paths
    BY DEF Listing
  <2>2. /\ pc[p] = "list" /\ pc' = [pc EXCEPT ![p] = "read"]
        /\ left' = [left EXCEPT ![p] = Listing] /\ Unwritten
        /\ UNCHANGED <<cmd, given, ident, key, seen, copied, shared, steady>>
    BY <1>4 DEF List, Step
  <2>3. CommandTypes'
    BY <2>1, <2>2 DEF CommandTypes, Labels
  <2>4. KeyFits'
    BY <2>2 DEF KeyFits, StepFits, StepOf, CommandTypes, Labels
  <2>5. StepFits'
    BY <2>2 DEF StepFits, StepOf, CommandTypes
  <2> QED BY <2>2, <2>3, <2>4, <2>5, UnwrittenTyped
<1>5. CASE Read(p) /\ ~ Fail(p)
  <2> DEFINE n == Min(left[p])
  <2>1. /\ pc[p] = "read" /\ Unwritten /\ Contents(n) # NoFile
        /\ seen' = [seen EXCEPT ![p] = [seen[p] EXCEPT ![n] = Contents(n)]]
        /\ left' = [left EXCEPT ![p] = left[p] \ {n}]
        /\ UNCHANGED <<pc, cmd, given, ident, key, copied, shared, steady>>
    BY <1>5 DEF Read
  <2>2. [seen[p] EXCEPT ![n] = Contents(n)] \in Payload
    <3>1. seen[p] \in [Paths -> Bytes \cup {NoFile}] /\ tree \in Payload \cup {Absent}
      BY DEF CommandTypes, WorldTypes, Payload
    <3>2. n \in Paths => Contents(n) \in Bytes \cup {NoFile}
      BY <3>1, ContentsType
    <3> HIDE DEF n
    <3> QED BY <3>1, <3>2 DEF Payload
  <2> HIDE DEF n
  <2>3. CommandTypes'
    BY <2>1, <2>2 DEF CommandTypes
  <2>4. StepFits' /\ KeyFits'
    BY <2>1 DEF StepFits, KeyFits
  <2> QED BY <2>1, <2>3, <2>4, UnwrittenTyped
<1> QED BY <1>1, <1>2, <1>3, <1>4, <1>5 DEF VerifyFails, LoadIdentity, Read

LEMMA UnlockTyped == ASSUME Typed, NEW p \in Procs, Unlock(p) PROVE Typed'
<1> USE DEF Typed
<1>1. CASE Fail(p)
  BY <1>1, FailTyped, UnwrittenTyped DEF Unlock
<1>2. CASE ~ Fail(p)
  <2>1. PICK k : k = UnlockedKey(p)
    OBVIOUS
  <2>2. /\ pc[p] = "read" /\ k # Absent /\ k \in Keys /\ Unwritten
        /\ pc' = [pc EXCEPT ![p] = "create"] /\ key' = [key EXCEPT ![p] = k]
        /\ UNCHANGED <<cmd, given, ident, seen, left, copied, shared, steady>>
    BY <1>2, <2>1, KeyTypes DEF Unlock
  <2>3. CommandTypes'
    BY <2>2 DEF CommandTypes, Labels
  <2>4. StepFits'
    BY <2>2 DEF StepFits, StepOf, CommandTypes
  <2>5. KeyFits'
    BY <2>2 DEF KeyFits, StepFits, StepOf, CommandTypes, Labels
  <2> QED BY <2>2, <2>3, <2>4, <2>5, UnwrittenTyped
<1> QED BY <1>1, <1>2

LEMMA ArchiveType ==
    ASSUME Typed, NEW p \in Procs, pc[p] \in {"copy", "finish"}, cmd[p] \in {"pack", "seal"},
           NEW payload \in Payload
    PROVE  ArchiveOf(p, payload) \in Archive
<1>1. key[p] \in Keys /\ seen[p] \in Payload
  BY DEF Typed, CommandTypes, KeyFits
<1>2. cmd[p] = "seal" => ident[p].public \in Keys
  BY DEF Typed, KeyFits, Labels, Identity
<1> QED BY <1>1, <1>2 DEF ArchiveOf, Archive

LEMMA MadeType ==
    ASSUME Typed, NEW p \in Procs, pc[p] \in {"copy", "finish"}
    PROVE  Made(p) \in At(Target(cmd[p]))
<1>1. cmd[p] \in Commands /\ key[p] \in Keys /\ seen[p] \in Payload /\ copied[p] \in Payload
  BY DEF Typed, CommandTypes, KeyFits
<1>2. CASE cmd[p] = "init"
  <2>1. ReadPassphrase(given[p]) \in Passphrase
    BY <1>1, <1>2, MarkersAssumption DEF Typed, KeyFits
  <2> QED BY <1>1, <1>2, <2>1 DEF Made, Generated, Identity, Target, At
<1>3. CASE cmd[p] = "grant"
  BY <1>1, <1>3 DEF Made, Capability, Target, At
<1>4. CASE cmd[p] \in {"pack", "seal"}
  BY <1>1, <1>4, ArchiveType DEF Made, Target, At
<1> QED BY <1>1, <1>2, <1>3, <1>4 DEF Commands

\* What writing a file does to the files.
LEMMA SaveEffect ==
    ASSUME Typed, NEW p \in Procs, NEW value, Save(p, value),
           value \in At(Target(cmd[p]))
    PROVE  /\ disk' \in Disk /\ Target(cmd[p]) \in Targets
           /\ \A t \in Targets : t # Target(cmd[p]) => disk'[t] = disk[t]
           /\ disk'[Target(cmd[p])] \in {value, Torn}
           /\ ~ shared[p] => disk'[Target(cmd[p])] = value
<1>1. PICK written \in {value} \cup (IF shared[p] THEN {Torn} ELSE {}) :
        disk' = [disk EXCEPT ![Target(cmd[p])] = written]
  BY DEF Save
<1>2. Target(cmd[p]) \in Targets /\ disk \in Disk
  BY TargetType DEF Typed, CommandTypes, WorldTypes
<1>3. written \in At(Target(cmd[p]))
  BY <1>1, <1>2 DEF At, Targets
<1>3a. PICK t : t = Target(cmd[p])
  OBVIOUS
<1>4. t \in Targets /\ written \in At(t) /\ disk' = [disk EXCEPT ![t] = written]
  BY <1>1, <1>2, <1>3, <1>3a
<1>5. disk' \in Disk /\ \A u \in Targets : disk'[u] = (IF u = t THEN written ELSE disk[u])
  BY <1>2, <1>4 DEF Disk, Targets, At
<1>6. written \in {value, Torn} /\ (~ shared[p] => written = value)
  BY <1>1
<1> QED BY <1>3a, <1>4, <1>5, <1>6

LEMMA CreateTyped == ASSUME Typed, NEW p \in Procs, Create(p) PROVE Typed'
<1> USE DEF Typed, histories
<1>1. /\ pc[p] = "create" /\ pc' = [pc EXCEPT ![p] = AfterCreate(cmd[p])] /\ Truncate(p)
      /\ copied' \in {copied, [copied EXCEPT ![p] = seen[p]]}
      /\ mode' \in {mode, "private"}
      /\ UNCHANGED <<tree, cmd, given, ident, key, seen, left, steady, used, bounds,
                     ever, verified>>
  BY DEF Create, Step, Staged
<1>2. AfterCreate(cmd[p]) \in {"chmod", "relist", "finish"} /\ StepOf(cmd[p], AfterCreate(cmd[p]))
  BY <1>1 DEF AfterCreate, StepFits, StepOf, CommandTypes, Commands
<1>3. disk' \in Disk
  <2>1. Target(cmd[p]) \in Targets
    BY TargetType DEF CommandTypes
  <2>2. Empty \in At(Target(cmd[p]))
    BY <2>1 DEF Targets, At
  <2> QED BY <1>1, <2>1, <2>2 DEF Truncate, WorldTypes, Disk, Targets, At
<1>4. shared' \in [Procs -> BOOLEAN]
  BY <1>1 DEF Truncate, CommandTypes
<1>5. CommandTypes'
  BY <1>1, <1>2, <1>4 DEF CommandTypes, Labels
<1>6. WorldTypes'
  BY <1>1, <1>3 DEF WorldTypes
<1>7. StepFits' /\ KeyFits'
  BY <1>1, <1>2 DEF StepFits, KeyFits, CommandTypes, Labels
<1> QED BY <1>5, <1>6, <1>7

LEMMA WritingTyped ==
    ASSUME Typed, NEW p \in Procs,
           Chmod(p) \/ Relist(p) \/ Copy(p) \/ Finish(p) \/ Overwrite(p) \/ Kill(p)
    PROVE  Typed'
<1> USE DEF Typed, histories
<1>0. Target(cmd[p]) \in Targets /\ Torn \in At(Target(cmd[p])) /\ disk \in Disk
  BY TargetType DEF CommandTypes, WorldTypes, Targets, At
<1>1. CASE Chmod(p)
  <2>1. /\ pc[p] = "chmod" /\ pc' = [pc EXCEPT ![p] = "finish"] /\ mode' = "private"
        /\ UNCHANGED <<tree, disk, locals, used, bounds, histories>>
    BY <1>1 DEF Chmod, Step, ModeAfter
  <2>2. CommandTypes' /\ WorldTypes'
    BY <2>1 DEF CommandTypes, WorldTypes, Labels, locals
  <2>3. StepFits'
    BY <2>1 DEF StepFits, StepOf, CommandTypes, locals
  <2>4. KeyFits'
    BY <2>1 DEF KeyFits, CommandTypes, Labels, locals
  <2> QED BY <2>2, <2>3, <2>4
<1>2. CASE Relist(p)
  <2>1. /\ pc[p] = "relist" /\ pc' = [pc EXCEPT ![p] = "copy"] /\ Unwritten
        /\ left' = [left EXCEPT ![p] = Listing] /\ Listing \in SUBSET Paths
        /\ UNCHANGED <<cmd, given, ident, key, seen, copied, shared, steady>>
    BY <1>2 DEF Relist, Step, Listing
  <2>2. CommandTypes'
    BY <2>1 DEF CommandTypes, Labels
  <2>3. StepFits'
    BY <2>1 DEF StepFits, StepOf, CommandTypes
  <2>4. KeyFits'
    BY <2>1 DEF KeyFits, CommandTypes, Labels
  <2> QED BY <2>1, <2>2, <2>3, <2>4, UnwrittenTyped
<1>3. CASE Copy(p)
  <2> DEFINE n == Min(left[p])
  <2>1. /\ pc[p] = "copy" /\ cmd[p] = "pack" /\ copied[p] \in [Paths -> Bytes \cup {NoFile}]
        /\ tree \in Payload \cup {Absent} /\ UNCHANGED <<tree, mode, used, bounds, histories>>
    BY <1>3 DEF Copy, StepFits, StepOf, CommandTypes, WorldTypes, Payload
  <2>2. CASE Fail(p)
    <3>1. Contents(n) = NoFile /\ Save(p, ArchiveOf(p, [copied[p] EXCEPT ![n] = Blank]))
      <4>1. pc'[p] = "idle"
        BY <2>2 DEF Fail, End, CommandTypes
      <4> QED BY <1>3, <2>1, <4>1 DEF Copy
    <3>2. [copied[p] EXCEPT ![n] = Blank] \in Payload
      <4> HIDE DEF n
      <4> QED BY <2>1, BytesAssumption DEF Payload
    <3>3. ArchiveOf(p, [copied[p] EXCEPT ![n] = Blank]) \in At(Target(cmd[p]))
      BY <2>1, <3>2, ArchiveType DEF Target, At
    <3>4. disk' \in Disk
      BY <3>1, <3>3, SaveEffect
    <3>5. WorldTypes'
      BY <2>1, <3>4 DEF WorldTypes
    <3> QED BY <2>2, <3>5, FailTyped
  <2>3. CASE ~ Fail(p)
    <3>1. /\ copied' = [copied EXCEPT ![p] = [copied[p] EXCEPT ![n] = Contents(n)]]
          /\ left' = [left EXCEPT ![p] = left[p] \ {n}]
          /\ UNCHANGED <<disk, pc, cmd, given, ident, key, seen, shared, steady>>
      BY <1>3, <2>3 DEF Copy
    <3>2. [copied[p] EXCEPT ![n] = Contents(n)] \in Payload
      <4>1. n \in Paths => Contents(n) \in Bytes \cup {NoFile}
        BY <2>1, ContentsType
      <4> HIDE DEF n
      <4> QED BY <2>1, <4>1 DEF Payload
    <3> HIDE DEF n
    <3>3. CommandTypes' /\ WorldTypes'
      BY <2>1, <3>1, <3>2 DEF CommandTypes, WorldTypes
    <3>4. StepFits' /\ KeyFits'
      BY <3>1 DEF StepFits, KeyFits
    <3> QED BY <3>3, <3>4
  <2> QED BY <2>2, <2>3
<1>4. CASE Finish(p)
  <2>1. /\ pc[p] \in {"copy", "finish"} /\ Save(p, Made(p))
        /\ UNCHANGED <<tree, mode, used, bounds, histories>>
    BY <1>4 DEF Finish
  <2>2. disk' \in Disk
    BY <2>1, MadeType, SaveEffect
  <2>3. WorldTypes'
    BY <2>1, <2>2 DEF WorldTypes
  <2> DEFINE kept == IF cmd[p] = "init" THEN [given |-> given[p], key |-> key[p]] ELSE Ended
  <2>4. End(p, "done", kept)
    BY <1>4 DEF Finish
  <2>5. /\ kept.key \in Keys \cup {Absent} /\ kept.given \in Givens \cup {Absent}
        /\ kept.key # Absent =>
              kept.given \in Givens /\ ReadPassphrase(kept.given) \in Passphrase
    BY DEF Ended, CommandTypes, KeyFits
  <2> HIDE DEF kept
  <2> QED BY <2>3, <2>4, <2>5, EndTyped
<1>5. CASE Overwrite(p)
  <2>1. disk' \in Disk
    BY <1>0, <1>5 DEF Overwrite, Disk, Targets, At
  <2> QED BY <1>5, <2>1 DEF Overwrite, locals, CommandTypes, WorldTypes, StepFits, KeyFits
<1>6. CASE Kill(p)
  <2>1. disk' \in Disk
    BY <1>0, <1>6 DEF Kill, Disk, Targets, At
  <2>2. bounds' \in [commands : 0 .. MaxCommands, changes : 0 .. MaxChanges, kills : 0 .. MaxKills]
    BY <1>6, BoundsAssumption DEF Kill, WorldTypes
  <2>3. WorldTypes'
    BY <1>6, <2>1, <2>2 DEF Kill, WorldTypes
  <2> QED BY <1>6, <2>3, FailTyped DEF Kill
<1> QED BY <1>1, <1>2, <1>3, <1>4, <1>5, <1>6

LEMMA ChangeTyped == ASSUME Typed, ChangeTree PROVE Typed'
<1> USE DEF Typed
<1>1. tree' \in Payload \cup {Absent}
  BY DEF ChangeTree, Changed, WorldTypes, Payload, Nothing
<1>2. bounds' \in [commands : 0 .. MaxCommands, changes : 0 .. MaxChanges, kills : 0 .. MaxKills]
  BY BoundsAssumption DEF ChangeTree, WorldTypes
<1>3. ever' \in [Paths -> SUBSET (Bytes \cup {NoFile})]
  BY <1>1 DEF ChangeTree, WorldTypes, Payload
<1>4. steady' \in [Procs -> BOOLEAN]
  BY DEF ChangeTree
<1> QED BY <1>1, <1>2, <1>3, <1>4 DEF ChangeTree, CommandTypes, WorldTypes, StepFits, KeyFits

LEMMA TypedStep == Typed /\ [Next]_vars => Typed'
<1> SUFFICES ASSUME Typed, [Next]_vars PROVE Typed'
  OBVIOUS
<1>1. CASE UNCHANGED vars
  BY <1>1 DEF vars, locals, histories, Typed, CommandTypes, WorldTypes, StepFits, KeyFits
<1> QED BY <1>1, ChangeTyped, BeginTyped, ReadingTyped, UnlockTyped, CreateTyped, WritingTyped
        DEF Next

\* The types of the variables of the issuing commands.
THEOREM TypesHold == Spec => []TypeOK
<1>1. Typed => TypeOK
  BY TypesSplit DEF Typed
<1> QED BY <1>1, TypedInit, TypedStep, PTL DEF Spec

-----------------------------------------------------------------------------
(* Who writes, and what.                                                   *)

HasKey == {"create", "chmod", "relist", "copy", "finish"}

\* A file changes by a step of a command that is for it and has its key; it
\* is truncated or torn, or gets what the command has made.
LEMMA WhatIsWritten ==
    ASSUME Typed, [Next]_vars, NEW t \in Targets, disk'[t] # disk[t]
    PROVE  \E p \in Procs :
               /\ Target(cmd[p]) = t /\ pc[p] \in HasKey
               /\ \/ disk'[t] \in {Empty, Torn}
                  \/ /\ Finish(p) /\ pc[p] \in {"copy", "finish"} /\ disk'[t] = Made(p)
                  \/ /\ Copy(p) /\ pc[p] = "copy" /\ cmd[p] = "pack"
                     /\ \E payload \in Payload : disk'[t] = ArchiveOf(p, payload)
<1> USE DEF Typed, HasKey
<1>1. ASSUME NEW p \in Procs, Create(p) PROVE Target(cmd[p]) = t /\ disk'[t] = Empty
  BY <1>1, TargetType DEF Create, Truncate, Step, CommandTypes, WorldTypes, Disk, Targets
<1>2. ASSUME NEW p \in Procs, Copy(p)
      PROVE  /\ Target(cmd[p]) = t /\ pc[p] = "copy" /\ cmd[p] = "pack"
             /\ \/ disk'[t] = Torn
                \/ \E payload \in Payload : disk'[t] = ArchiveOf(p, payload)
  <2> DEFINE n == Min(left[p])
  <2>1. /\ pc[p] = "copy" /\ cmd[p] = "pack" /\ copied[p] \in [Paths -> Bytes \cup {NoFile}]
    BY <1>2 DEF Copy, StepFits, StepOf, CommandTypes, Payload
  <2>2. Save(p, ArchiveOf(p, [copied[p] EXCEPT ![n] = Blank]))
    BY <1>2 DEF Copy
  <2>3. [copied[p] EXCEPT ![n] = Blank] \in Payload
    <3> HIDE DEF n
    <3> QED BY <2>1, BytesAssumption DEF Payload
  <2> HIDE DEF n
  <2>4. ArchiveOf(p, [copied[p] EXCEPT ![n] = Blank]) \in At(Target(cmd[p]))
    BY <2>1, <2>3, ArchiveType DEF Target, At
  <2> QED BY <2>1, <2>2, <2>3, <2>4, SaveEffect
<1>3. ASSUME NEW p \in Procs, Finish(p)
      PROVE  /\ Target(cmd[p]) = t /\ pc[p] \in {"copy", "finish"}
             /\ disk'[t] \in {Made(p), Torn}
  <2>1. pc[p] \in {"copy", "finish"} /\ Save(p, Made(p))
    BY <1>3 DEF Finish
  <2> QED BY <2>1, MadeType, SaveEffect
<1>4. ASSUME NEW p \in Procs, Overwrite(p) \/ Kill(p)
      PROVE  Target(cmd[p]) = t /\ pc[p] \in HasKey /\ disk'[t] = Torn
  BY <1>4, TargetType DEF Overwrite, Kill, Writing, CommandTypes, WorldTypes, Disk, Targets
<1>5. \/ \E p \in Procs : Create(p) \/ Copy(p) \/ Finish(p) \/ Overwrite(p) \/ Kill(p)
      \/ UNCHANGED disk
  BY DEF Next, Begin, VerifyFirst, VerifyFails, LoadIdentity, List, Read, Unlock, Unwritten,
     Chmod, Relist, ChangeTree, vars
<1>6. \A p \in Procs : Create(p) => pc[p] = "create"
  BY DEF Create, Step
<1> QED BY <1>1, <1>2, <1>3, <1>4, <1>5, <1>6

\* No file is touched by a command that has not got its key.
THEOREM FilesKeptUntilKeyed == Spec => KeptUntilKeyed
<1>1. Typed /\ [Next]_vars =>
        [\A t \in Targets : disk'[t] # disk[t] =>
            \E p \in Procs : key[p] # Absent /\ Target(cmd[p]) = t /\ pc[p] \notin {"idle", "done"}]_vars
  <2> SUFFICES ASSUME Typed, [Next]_vars, NEW t \in Targets, disk'[t] # disk[t]
               PROVE  \E p \in Procs :
                          key[p] # Absent /\ Target(cmd[p]) = t /\ pc[p] \notin {"idle", "done"}
    OBVIOUS
  <2>1. PICK p \in Procs : Target(cmd[p]) = t /\ pc[p] \in HasKey
    BY WhatIsWritten
  <2> QED BY <2>1 DEF HasKey, Typed, KeyFits
<1> QED BY <1>1, TypedInit, TypedStep, PTL DEF Spec, KeptUntilKeyed

-----------------------------------------------------------------------------
(* What a command has read.                                                *)

\* The registers of a command are clean until it reads.
Clean ==
    \A p \in Procs :
        /\ pc[p] \in {"idle", "done", "verify", "list"} => seen[p] = Nothing /\ left[p] = {}
        /\ pc[p] = "key" => left[p] = {} /\ (cmd[p] = "seal" => seen[p] = Nothing)
        /\ cmd[p] \in {"init", "grant"} => left[p] = {}
        /\ pc[p] \notin {"copy", "finish"} => copied[p] = Nothing

\* What pack and seal have read has been in the directory, and what grant has
\* read was verified.
SeenWasThere ==
    /\ \A n \in Paths : Contents(n) \in ever[n]
    /\ \A p \in Procs : cmd[p] \in {"pack", "seal"} =>
        /\ pc[p] = "read" => \A n \in Paths \ left[p] : seen[p][n] \in ever[n]
        /\ pc[p] \in {"create", "relist", "copy", "finish"} =>
              \A n \in Paths : seen[p][n] \in ever[n]
    /\ \A p \in Procs : cmd[p] = "grant" /\ pc[p] # "verify" => seen[p] \in verified

\* seal signs with the key of the identity it names.
SealedByIssuer ==
    \A p \in Procs : cmd[p] = "seal" /\ pc[p] \in {"create", "finish"} =>
        key[p] = ident[p].public

\* While the directory has not changed, it is what pack has read and copied;
\* what seal has read is what it archives.
Agreement ==
    \A p \in Procs :
        /\ cmd[p] = "pack" /\ steady[p] =>
              /\ pc[p] = "read" => \A n \in Paths \ left[p] : seen[p][n] = Contents(n)
              /\ pc[p] \in {"create", "relist", "copy"} =>
                    \A n \in Paths : seen[p][n] = Contents(n)
              /\ pc[p] = "copy" => \A n \in Paths \ left[p] : copied[p][n] = Contents(n)
        /\ cmd[p] = "seal" /\ pc[p] = "finish" => copied[p] = seen[p]

LEMMA CleanStep == Typed /\ Clean /\ [Next]_vars => Clean'
<1> SUFFICES ASSUME Typed, Clean, [Next]_vars PROVE Clean'
  OBVIOUS
<1> USE DEF Typed, CommandTypes, Clean
<1>1. ASSUME NEW p \in Procs, Begin(p) PROVE Clean'
  <2>1. PICK c \in Commands : pc' = [pc EXCEPT ![p] = FirstStep(c)] /\ cmd' = [cmd EXCEPT ![p] = c]
    BY <1>1 DEF Begin
  <2>2. FirstStep(c) \in {"create", "list", "key", "verify"}
    BY DEF FirstStep, Commands
  <2>3. pc[p] \in {"idle", "done"} /\ UNCHANGED <<seen, left, copied>>
    BY <1>1 DEF Begin
  <2> QED BY <2>1, <2>2, <2>3
<1>2. ASSUME NEW p \in Procs, VerifyFirst(p) PROVE Clean'
  BY <1>2 DEF VerifyFirst, Step, StepFits, StepOf
<1>3. ASSUME NEW p \in Procs, End(p, "idle", Ended) \/ End(p, "done", Ended) PROVE Clean'
  BY <1>3 DEF End
<1>4. ASSUME NEW p \in Procs, VerifyFails(p) \/ Kill(p) PROVE Clean'
  BY <1>3, <1>4 DEF VerifyFails, Kill, Fail
<1>5. ASSUME NEW p \in Procs, LoadIdentity(p) PROVE Clean'
  BY <1>3, <1>5 DEF LoadIdentity, Step, Fail
<1>6. ASSUME NEW p \in Procs, List(p) PROVE Clean'
  BY <1>6 DEF List, Step, StepFits, StepOf
<1>7. ASSUME NEW p \in Procs, Read(p) PROVE Clean'
  <2>1. CASE Fail(p)
    BY <1>3, <2>1 DEF Fail
  <2>2. CASE ~ Fail(p)
    BY <1>7, <2>2 DEF Read
  <2> QED BY <2>1, <2>2
<1>8. ASSUME NEW p \in Procs, Unlock(p) PROVE Clean'
  BY <1>3, <1>8 DEF Unlock, Fail
<1>9. ASSUME NEW p \in Procs, Create(p) PROVE Clean'
  <2>1. /\ pc[p] = "create" /\ pc' = [pc EXCEPT ![p] = AfterCreate(cmd[p])]
        /\ copied' = IF cmd[p] = "seal" THEN [copied EXCEPT ![p] = Staged(p)] ELSE copied
        /\ UNCHANGED <<cmd, seen, left>>
    BY <1>9 DEF Create, Step
  <2>2. /\ AfterCreate(cmd[p]) \in {"chmod", "relist", "finish"}
        /\ cmd[p] = "seal" => AfterCreate(cmd[p]) = "finish"
    BY DEF AfterCreate
  <2> QED BY <2>1, <2>2
<1>10. ASSUME NEW p \in Procs, Chmod(p) \/ Relist(p) PROVE Clean'
  BY <1>10 DEF Chmod, Relist, Step, StepFits, StepOf, locals
<1>11. ASSUME NEW p \in Procs, Copy(p) PROVE Clean'
  <2>1. CASE Fail(p)
    BY <1>3, <2>1 DEF Fail
  <2>2. CASE ~ Fail(p)
    BY <1>11, <2>2 DEF Copy
  <2> QED BY <2>1, <2>2
<1>12. ASSUME NEW p \in Procs, Finish(p) PROVE Clean'
  BY <1>12 DEF Finish, End
<1>13. ASSUME NEW p \in Procs, Overwrite(p) PROVE Clean'
  BY <1>13 DEF Overwrite, locals
<1>14. CASE ChangeTree \/ UNCHANGED vars
  BY <1>14 DEF ChangeTree, vars, locals
<1> QED BY <1>1, <1>2, <1>4, <1>5, <1>6, <1>7, <1>8, <1>9, <1>10, <1>11, <1>12, <1>13, <1>14
        DEF Next

LEMMA SeenStep ==
    Typed /\ Clean /\ SeenWasThere /\ [Next]_vars => SeenWasThere'
<1> SUFFICES ASSUME Typed, Clean, SeenWasThere, [Next]_vars PROVE SeenWasThere'
  OBVIOUS
<1> USE DEF Typed, CommandTypes, SeenWasThere, histories, Contents
<1>1. ASSUME NEW p \in Procs, Begin(p) PROVE SeenWasThere'
  <2>1. PICK c \in Commands : pc' = [pc EXCEPT ![p] = FirstStep(c)] /\ cmd' = [cmd EXCEPT ![p] = c]
    BY <1>1 DEF Begin
  <2>2. /\ FirstStep(c) \in {"create", "list", "key", "verify"}
        /\ c \in {"pack", "seal"} => FirstStep(c) \in {"list", "key"}
        /\ c = "grant" => FirstStep(c) = "verify"
    BY DEF FirstStep, Commands
  <2>3. UNCHANGED <<tree, seen, left, ever, verified>>
    BY <1>1 DEF Begin
  <2> QED BY <2>1, <2>2, <2>3
<1>2. ASSUME NEW p \in Procs, VerifyFirst(p) PROVE SeenWasThere'
  <2>1. /\ pc[p] = "verify" /\ pc' = [pc EXCEPT ![p] = "key"] /\ cmd[p] = "grant"
        /\ seen' = [seen EXCEPT ![p] = disk.archive.root]
        /\ verified' = verified \cup {disk.archive.root}
        /\ UNCHANGED <<tree, cmd, left, ever>>
    BY <1>2 DEF VerifyFirst, Step, StepFits, StepOf
  <2> QED BY <2>1
<1>3. ASSUME NEW p \in Procs, End(p, "idle", Ended) \/ End(p, "done", Ended),
             UNCHANGED <<tree, ever, verified>>
      PROVE  SeenWasThere'
  BY <1>3 DEF End
<1>4. ASSUME NEW p \in Procs, VerifyFails(p) \/ Kill(p) PROVE SeenWasThere'
  BY <1>3, <1>4 DEF VerifyFails, Kill, Fail, Unwritten
<1>5. ASSUME NEW p \in Procs, LoadIdentity(p) PROVE SeenWasThere'
  <2>1. CASE Fail(p)
    BY <1>3, <1>5, <2>1 DEF Fail, LoadIdentity, Unwritten
  <2>2. CASE ~ Fail(p)
    <3>1. /\ pc[p] = "key" /\ UNCHANGED <<tree, cmd, seen, left, ever, verified>>
          /\ pc' = [pc EXCEPT ![p] = IF cmd[p] = "seal" THEN "list" ELSE "read"]
          /\ cmd[p] \in {"seal", "grant"}
      BY <1>5, <2>2 DEF LoadIdentity, Step, Unwritten, StepFits, StepOf
    <3> QED BY <3>1
  <2> QED BY <2>1, <2>2
<1>6. ASSUME NEW p \in Procs, List(p) PROVE SeenWasThere'
  <2>1. /\ pc[p] = "list" /\ pc' = [pc EXCEPT ![p] = "read"] /\ seen[p] = Nothing
        /\ left' = [left EXCEPT ![p] = Listing] /\ cmd[p] \in {"pack", "seal"}
        /\ UNCHANGED <<tree, cmd, seen, ever, verified>>
    BY <1>6 DEF List, Step, Unwritten, Clean, StepFits, StepOf
  <2>2. \A n \in Paths \ Listing : seen[p][n] = Contents(n)
    BY <2>1 DEF Listing, Nothing
  <2> QED BY <2>1, <2>2
<1>7. ASSUME NEW p \in Procs, Read(p) PROVE SeenWasThere'
  <2>1. CASE Fail(p)
    BY <1>3, <1>7, <2>1 DEF Fail, Read, Unwritten
  <2>2. CASE ~ Fail(p)
    <3> DEFINE n == Min(left[p])
    <3>1. /\ pc[p] = "read" /\ left[p] # {} /\ UNCHANGED <<tree, pc, cmd, ever, verified>>
          /\ seen' = [seen EXCEPT ![p] = [seen[p] EXCEPT ![n] = Contents(n)]]
          /\ left' = [left EXCEPT ![p] = left[p] \ {n}]
      BY <1>7, <2>2 DEF Read, Unwritten
    <3>2. cmd[p] # "grant"
      BY <3>1 DEF Clean
    <3>3. \A k \in Paths : seen'[p][k] = (IF k = n THEN Contents(n) ELSE seen[p][k])
      <4>1. seen[p] \in [Paths -> Bytes \cup {NoFile}]
        BY DEF Payload
      <4> HIDE DEF n
      <4> QED BY <3>1, <4>1
    <3> HIDE DEF n
    <3> QED BY <3>1, <3>2, <3>3
  <2> QED BY <2>1, <2>2
<1>8. ASSUME NEW p \in Procs, Unlock(p) PROVE SeenWasThere'
  <2>1. CASE Fail(p)
    BY <1>3, <1>8, <2>1 DEF Fail, Unlock, Unwritten
  <2>2. CASE ~ Fail(p)
    BY <1>8, <2>2 DEF Unlock, Unwritten
  <2> QED BY <2>1, <2>2
<1>9. ASSUME NEW p \in Procs, Create(p) \/ Chmod(p) PROVE SeenWasThere'
  <2>1. /\ pc[p] \in {"create", "chmod"} /\ UNCHANGED <<tree, cmd, seen, left, ever, verified>>
        /\ \E step \in {"chmod", "relist", "finish"} : pc' = [pc EXCEPT ![p] = step]
        /\ pc[p] = "chmod" => cmd[p] = "init"
    BY <1>9 DEF Create, Chmod, Step, AfterCreate, StepFits, StepOf, locals
  <2> QED BY <2>1
<1>10. ASSUME NEW p \in Procs, Relist(p) PROVE SeenWasThere'
  BY <1>10 DEF Relist, Step, Unwritten
<1>11. ASSUME NEW p \in Procs, Copy(p) PROVE SeenWasThere'
  <2>1. CASE Fail(p)
    BY <1>3, <1>11, <2>1 DEF Fail, Copy
  <2>2. CASE ~ Fail(p)
    BY <1>11, <2>2 DEF Copy
  <2> QED BY <2>1, <2>2
<1>12. ASSUME NEW p \in Procs, Finish(p) PROVE SeenWasThere'
  BY <1>12 DEF Finish, End
<1>13. ASSUME NEW p \in Procs, Overwrite(p) PROVE SeenWasThere'
  BY <1>13 DEF Overwrite, locals
<1>14. CASE ChangeTree
  <2>1. /\ ever' = [n \in Paths |-> ever[n] \cup {IF tree' = Absent THEN NoFile ELSE tree'[n]}]
        /\ UNCHANGED <<pc, cmd, seen, left, verified>>
    BY <1>14 DEF ChangeTree
  <2> QED BY <2>1
<1>15. CASE UNCHANGED vars
  BY <1>15 DEF vars, locals
<1> QED BY <1>1, <1>2, <1>4, <1>5, <1>6, <1>7, <1>8, <1>9, <1>10, <1>11, <1>12, <1>13, <1>14, <1>15
        DEF Next

LEMMA SealedStep == Typed /\ SealedByIssuer /\ [Next]_vars => SealedByIssuer'
<1> SUFFICES ASSUME Typed, SealedByIssuer, [Next]_vars PROVE SealedByIssuer'
  OBVIOUS
<1> USE DEF Typed, CommandTypes, SealedByIssuer
<1>1. ASSUME NEW p \in Procs, Begin(p) PROVE SealedByIssuer'
  <2>1. PICK c \in Commands : /\ pc' = [pc EXCEPT ![p] = FirstStep(c)] /\ cmd' = [cmd EXCEPT ![p] = c]
                              /\ c # "init" => key' = [key EXCEPT ![p] = Absent]
                              /\ \A q \in Procs : q # p => key'[q] = key[q]
    BY <1>1 DEF Begin
  <2>2. c = "seal" => FirstStep(c) = "key"
    BY DEF FirstStep
  <2> QED BY <1>1, <2>1, <2>2 DEF Begin
<1>2. ASSUME NEW p \in Procs,
             VerifyFirst(p) \/ List(p) \/ Relist(p) \/ Chmod(p) \/ Overwrite(p)
      PROVE  SealedByIssuer'
  BY <1>2 DEF VerifyFirst, List, Relist, Chmod, Overwrite, Step, StepFits, StepOf, locals
<1>3. ASSUME NEW p \in Procs, Fail(p) \/ Finish(p)
      PROVE  SealedByIssuer'
  BY <1>3 DEF Fail, Finish, End
<1>4. ASSUME NEW p \in Procs, VerifyFails(p) \/ Kill(p) PROVE SealedByIssuer'
  BY <1>3, <1>4 DEF VerifyFails, Kill
<1>5. ASSUME NEW p \in Procs, LoadIdentity(p), ~ Fail(p) PROVE SealedByIssuer'
  BY <1>5 DEF LoadIdentity, Step
<1>6. ASSUME NEW p \in Procs, Read(p) \/ Copy(p), ~ Fail(p) PROVE SealedByIssuer'
  BY <1>6 DEF Read, Copy
<1>7. ASSUME NEW p \in Procs, Unlock(p), ~ Fail(p) PROVE SealedByIssuer'
  <2>1. /\ pc[p] = "read" /\ pc' = [pc EXCEPT ![p] = "create"] /\ UnlockedKey(p) # Absent
        /\ key' = [key EXCEPT ![p] = UnlockedKey(p)] /\ UNCHANGED <<cmd, ident>>
    BY <1>7 DEF Unlock
  <2>2. cmd[p] = "seal" => UnlockedKey(p) = ident[p].public
    BY <2>1, KeyTypes
  <2> QED BY <2>1, <2>2
<1>8. ASSUME NEW p \in Procs, Create(p) PROVE SealedByIssuer'
  BY <1>8 DEF Create, Step
<1>9. CASE ChangeTree \/ UNCHANGED vars
  BY <1>9 DEF ChangeTree, vars, locals
<1> QED BY <1>1, <1>2, <1>3, <1>4, <1>5, <1>6, <1>7, <1>8, <1>9 DEF Next

LEMMA AgreementStep ==
    Typed /\ Clean /\ Agreement /\ [Next]_vars => Agreement'
<1> SUFFICES ASSUME Typed, Clean, Agreement, [Next]_vars PROVE Agreement'
  OBVIOUS
<1> USE DEF Typed, CommandTypes, Agreement, Contents
<1>1. ASSUME NEW p \in Procs, Begin(p) PROVE Agreement'
  <2>1. PICK c \in Commands : pc' = [pc EXCEPT ![p] = FirstStep(c)] /\ cmd' = [cmd EXCEPT ![p] = c]
    BY <1>1 DEF Begin
  <2>2. /\ FirstStep(c) \in {"create", "list", "key", "verify"}
        /\ c \in {"pack", "seal"} => FirstStep(c) \in {"list", "key"}
    BY DEF FirstStep, Commands
  <2>3. UNCHANGED <<tree, seen, left, copied, steady>>
    BY <1>1 DEF Begin
  <2> QED BY <2>1, <2>2, <2>3
<1>2. ASSUME NEW p \in Procs, End(p, "idle", Ended) \/ End(p, "done", Ended), UNCHANGED tree
      PROVE  Agreement'
  BY <1>2 DEF End
<1>3. ASSUME NEW p \in Procs, Fail(p), [Next]_vars, UNCHANGED tree
      PROVE  Agreement'
  BY <1>2, <1>3 DEF Fail
<1>4. ASSUME NEW p \in Procs, VerifyFails(p) \/ Kill(p) PROVE Agreement'
  BY <1>3, <1>4 DEF VerifyFails, Kill, Unwritten
<1>5. ASSUME NEW p \in Procs, VerifyFirst(p) PROVE Agreement'
  BY <1>5 DEF VerifyFirst, Step, StepFits, StepOf
<1>6. ASSUME NEW p \in Procs, LoadIdentity(p) PROVE Agreement'
  <2>1. CASE Fail(p)
    BY <1>3, <1>6, <2>1 DEF LoadIdentity, Unwritten
  <2>2. CASE ~ Fail(p)
    <3>1. /\ pc[p] = "key" /\ UNCHANGED <<tree, cmd, seen, left, copied, steady>>
          /\ pc' = [pc EXCEPT ![p] = IF cmd[p] = "seal" THEN "list" ELSE "read"]
          /\ cmd[p] \in {"seal", "grant"}
      BY <1>6, <2>2 DEF LoadIdentity, Step, Unwritten, StepFits, StepOf
    <3> QED BY <3>1
  <2> QED BY <2>1, <2>2
<1>7. ASSUME NEW p \in Procs, List(p) PROVE Agreement'
  <2>1. /\ pc[p] = "list" /\ pc' = [pc EXCEPT ![p] = "read"] /\ seen[p] = Nothing
        /\ left' = [left EXCEPT ![p] = Listing]
        /\ UNCHANGED <<tree, cmd, seen, copied, steady>>
    BY <1>7 DEF List, Step, Unwritten, Clean
  <2>2. \A n \in Paths \ Listing : seen[p][n] = Contents(n)
    BY <2>1 DEF Listing, Nothing
  <2> QED BY <2>1, <2>2
<1>8. ASSUME NEW p \in Procs, Read(p) PROVE Agreement'
  <2>1. CASE Fail(p)
    BY <1>3, <1>8, <2>1 DEF Read, Unwritten
  <2>2. CASE ~ Fail(p)
    <3> DEFINE n == Min(left[p])
    <3>1. /\ pc[p] = "read" /\ UNCHANGED <<tree, pc, cmd, copied, steady>>
          /\ seen' = [seen EXCEPT ![p] = [seen[p] EXCEPT ![n] = Contents(n)]]
          /\ left' = [left EXCEPT ![p] = left[p] \ {n}]
      BY <1>8, <2>2 DEF Read, Unwritten
    <3>2. \A k \in Paths : seen'[p][k] = (IF k = n THEN Contents(n) ELSE seen[p][k])
      <4>1. seen[p] \in [Paths -> Bytes \cup {NoFile}]
        BY DEF Payload
      <4> HIDE DEF n
      <4> QED BY <3>1, <4>1
    <3> HIDE DEF n
    <3> QED BY <3>1, <3>2
  <2> QED BY <2>1, <2>2
<1>9. ASSUME NEW p \in Procs, Unlock(p) PROVE Agreement'
  <2>1. CASE Fail(p)
    BY <1>3, <1>9, <2>1 DEF Unlock, Unwritten
  <2>2. CASE ~ Fail(p)
    BY <1>9, <2>2 DEF Unlock, Unwritten
  <2> QED BY <2>1, <2>2
<1>10. ASSUME NEW p \in Procs, Create(p) PROVE Agreement'
  <2>1. /\ pc[p] = "create" /\ pc' = [pc EXCEPT ![p] = AfterCreate(cmd[p])]
        /\ copied' = IF cmd[p] = "seal" THEN [copied EXCEPT ![p] = seen[p]] ELSE copied
        /\ UNCHANGED <<tree, cmd, seen, left, steady>>
    BY <1>10 DEF Create, Step, Staged
  <2>2. /\ AfterCreate(cmd[p]) \in {"chmod", "relist", "finish"}
        /\ cmd[p] = "pack" => AfterCreate(cmd[p]) = "relist"
    BY DEF AfterCreate
  <2> QED BY <2>1, <2>2
<1>11. ASSUME NEW p \in Procs, Chmod(p) PROVE Agreement'
  BY <1>11 DEF Chmod, Step, StepFits, StepOf, locals
<1>12. ASSUME NEW p \in Procs, Relist(p) PROVE Agreement'
  <2>1. /\ pc[p] = "relist" /\ pc' = [pc EXCEPT ![p] = "copy"] /\ copied[p] = Nothing
        /\ left' = [left EXCEPT ![p] = Listing] /\ cmd[p] = "pack"
        /\ UNCHANGED <<tree, cmd, seen, copied, steady>>
    BY <1>12 DEF Relist, Step, Unwritten, Clean, StepFits, StepOf
  <2>2. \A n \in Paths \ Listing : copied[p][n] = Contents(n)
    BY <2>1 DEF Listing, Nothing
  <2> QED BY <2>1, <2>2
<1>13. ASSUME NEW p \in Procs, Copy(p) PROVE Agreement'
  <2>1. CASE Fail(p)
    BY <1>3, <1>13, <2>1 DEF Copy
  <2>2. CASE ~ Fail(p)
    <3> DEFINE n == Min(left[p])
    <3>1. /\ pc[p] = "copy" /\ UNCHANGED <<tree, pc, cmd, seen, steady>> /\ cmd[p] = "pack"
          /\ copied' = [copied EXCEPT ![p] = [copied[p] EXCEPT ![n] = Contents(n)]]
          /\ left' = [left EXCEPT ![p] = left[p] \ {n}]
      BY <1>13, <2>2 DEF Copy, StepFits, StepOf
    <3>2. \A k \in Paths : copied'[p][k] = (IF k = n THEN Contents(n) ELSE copied[p][k])
      <4>1. copied[p] \in [Paths -> Bytes \cup {NoFile}]
        BY DEF Payload
      <4> HIDE DEF n
      <4> QED BY <3>1, <4>1
    <3> HIDE DEF n
    <3> QED BY <3>1, <3>2
  <2> QED BY <2>1, <2>2
<1>14. ASSUME NEW p \in Procs, Finish(p) PROVE Agreement'
  BY <1>14 DEF Finish, End
<1>15. ASSUME NEW p \in Procs, Overwrite(p) PROVE Agreement'
  BY <1>15 DEF Overwrite, locals
<1>16. CASE ChangeTree
  <2>1. /\ steady' = [p \in Procs |-> pc[p] \in {"idle", "done"}]
        /\ UNCHANGED <<pc, cmd, seen, left, copied>>
    BY <1>16 DEF ChangeTree
  <2> QED BY <2>1
<1>17. CASE UNCHANGED vars
  BY <1>17 DEF vars, locals
<1> QED BY <1>1, <1>4, <1>5, <1>6, <1>7, <1>8, <1>9, <1>10, <1>11, <1>12, <1>13, <1>14, <1>15,
           <1>16, <1>17 DEF Next

\* What the archive and the capability file may hold.
FilesHold ==
    VerifiedWasRead /\ IssuerNamesSigner /\ GrantedVerified

LEMMA FilesStep ==
    Typed /\ SeenWasThere /\ SealedByIssuer /\ FilesHold /\ [Next]_vars => FilesHold'
<1> SUFFICES ASSUME Typed, SeenWasThere, SealedByIssuer, FilesHold, [Next]_vars
             PROVE  FilesHold'
  OBVIOUS
<1>1. disk \in Disk /\ disk' \in Disk
  BY TypedStep DEF Typed, WorldTypes
<1>2. /\ \A n \in Paths : ever[n] \subseteq ever'[n]
      /\ verified \subseteq verified'
  BY DEF Typed, WorldTypes, Next, Begin, VerifyFirst, VerifyFails, LoadIdentity, List, Read,
     Unlock, Unwritten, Create, Chmod, Relist, Copy, Finish, Overwrite, Kill, ChangeTree,
     vars, histories
<1>3. /\ disk["archive"] = disk.archive /\ disk'["archive"] = disk'.archive
      /\ disk["capability"] = disk.capability /\ disk'["capability"] = disk'.capability
  BY <1>1, DiskFields
<1>4. /\ VerifiedWasRead' /\ IssuerNamesSigner'
  <2>1. CASE disk'["archive"] = disk["archive"]
    <3>1. disk'.archive = disk.archive
      BY <1>3, <2>1
    <3>2. Verifies(disk'.archive) => /\ Verifies(disk.archive)
                                     /\ \A n \in Paths : disk.archive.payload[n] \in ever[n]
      BY <3>1 DEF FilesHold, VerifiedWasRead
    <3> QED BY <1>2, <3>1, <3>2 DEF FilesHold, VerifiedWasRead, IssuerNamesSigner, Verifies
  <2>2. CASE disk'["archive"] # disk["archive"]
    <3>1. "archive" \in Targets
      BY DEF Targets
    <3>2. PICK p \in Procs :
            /\ Target(cmd[p]) = "archive" /\ pc[p] \in HasKey
            /\ \/ disk'["archive"] \in {Empty, Torn}
               \/ /\ Finish(p) /\ pc[p] \in {"copy", "finish"} /\ disk'["archive"] = Made(p)
               \/ /\ Copy(p) /\ pc[p] = "copy" /\ cmd[p] = "pack"
                  /\ \E payload \in Payload : disk'["archive"] = ArchiveOf(p, payload)
      BY <2>2, <3>1, WhatIsWritten
    <3>3. CASE disk'["archive"] \in {Empty, Torn}
      BY <1>3, <3>3, MarkersAssumption DEF VerifiedWasRead, IssuerNamesSigner, Verifies
    <3>4. CASE disk'["archive"] \notin {Empty, Torn}
      <4>1. cmd[p] \in {"pack", "seal"}
        BY <3>2 DEF Target, Typed, CommandTypes, Commands
      <4>2. pc[p] \in {"copy", "finish"} /\ \E payload : disk'["archive"] = ArchiveOf(p, payload)
        BY <3>2, <3>4, <4>1 DEF Made
      <4>3. PICK payload : disk'.archive = ArchiveOf(p, payload)
        BY <1>3, <4>2
      <4>4. \A n \in Paths : seen[p][n] \in ever'[n]
        BY <1>2, <4>1, <4>2 DEF SeenWasThere
      <4>5. VerifiedWasRead'
        BY <4>3, <4>4 DEF VerifiedWasRead, Verifies, ArchiveOf
      <4>6. cmd[p] = "seal" => key[p] = ident[p].public
        BY <4>2 DEF SealedByIssuer, Typed, StepFits, StepOf
      <4>7. IssuerNamesSigner'
        BY <4>3, <4>6 DEF IssuerNamesSigner, ArchiveOf
      <4> QED BY <4>5, <4>7
    <3> QED BY <3>3, <3>4
  <2> QED BY <2>1, <2>2
<1>5. GrantedVerified'
  <2>1. CASE disk'["capability"] = disk["capability"]
    BY <1>2, <1>3, <2>1 DEF FilesHold, GrantedVerified
  <2>2. CASE disk'["capability"] # disk["capability"]
    <3>1. "capability" \in Targets
      BY DEF Targets
    <3>2. PICK p \in Procs :
            /\ Target(cmd[p]) = "capability" /\ pc[p] \in HasKey
            /\ \/ disk'["capability"] \in {Empty, Torn}
               \/ /\ Finish(p) /\ pc[p] \in {"copy", "finish"} /\ disk'["capability"] = Made(p)
               \/ /\ Copy(p) /\ pc[p] = "copy" /\ cmd[p] = "pack"
                  /\ \E payload \in Payload : disk'["capability"] = ArchiveOf(p, payload)
      BY <2>2, <3>1, WhatIsWritten
    <3>3. CASE disk'["capability"] \in {Empty, Torn}
      BY <1>3, <3>3, MarkersAssumption DEF GrantedVerified
    <3>4. CASE disk'["capability"] \notin {Empty, Torn}
      <4>1. cmd[p] = "grant"
        BY <3>2 DEF Target, Typed, CommandTypes, Commands
      <4>2. disk'.capability = [root |-> seen[p], signer |-> key[p]]
        BY <1>3, <3>2, <3>4, <4>1 DEF Made
      <4>3. seen[p] \in verified
        BY <3>2, <4>1 DEF SeenWasThere, HasKey
      <4> QED BY <1>2, <4>2, <4>3 DEF GrantedVerified
    <3> QED BY <3>3, <3>4
  <2> QED BY <2>1, <2>2
<1> QED BY <1>4, <1>5 DEF FilesHold

\* The invariant the three properties of the files rest on.
FInv == Typed /\ Clean /\ SeenWasThere /\ SealedByIssuer /\ FilesHold

LEMMA FInvInit == Init => FInv
<1> SUFFICES ASSUME Init PROVE FInv
  OBVIOUS
<1>1. Typed
  BY TypedInit
<1>2. Clean /\ SealedByIssuer
  BY DEF Init, Clean, SealedByIssuer
<1>3. SeenWasThere
  BY DEF Init, SeenWasThere, Contents
<1>4. PICK a \in Before : disk.archive = a /\ disk.capability = Absent
  BY DEF Init
<1>5. VerifiedWasRead
  BY <1>1, <1>3, <1>4, MarkersAssumption
     DEF Before, VerifiedWasRead, Verifies, SeenWasThere, Contents
<1>6. IssuerNamesSigner /\ GrantedVerified
  BY <1>4, MarkersAssumption DEF Before, IssuerNamesSigner, GrantedVerified
<1> QED BY <1>1, <1>2, <1>3, <1>5, <1>6 DEF FInv, FilesHold

LEMMA FInvStep == FInv /\ [Next]_vars => FInv'
BY TypedStep, CleanStep, SeenStep, SealedStep, FilesStep DEF FInv

\* An archive that verifies holds what the directory has held.
THEOREM ArchivesWereThere == Spec => []VerifiedWasRead
<1>1. FInv => VerifiedWasRead
  BY DEF FInv, FilesHold
<1> QED BY <1>1, FInvInit, FInvStep, PTL DEF Spec

\* The issuer of an archive is its signer.
THEOREM IssuersSign == Spec => []IssuerNamesSigner
<1>1. FInv => IssuerNamesSigner
  BY DEF FInv, FilesHold
<1> QED BY <1>1, FInvInit, FInvStep, PTL DEF Spec

\* Capabilities are for archives that have verified.
THEOREM GrantsVerified == Spec => []GrantedVerified
<1>1. FInv => GrantedVerified
  BY DEF FInv, FilesHold
<1> QED BY <1>1, FInvInit, FInvStep, PTL DEF Spec

-----------------------------------------------------------------------------
(* Success.                                                                *)

RInv == Typed /\ Clean /\ Agreement

LEMMA RInvInit == Init => RInv
<1>1. Init => Clean /\ Agreement
  BY DEF Init, Clean, Agreement
<1> QED BY <1>1, TypedInit DEF RInv

LEMMA RInvStep == RInv /\ [Next]_vars => RInv'
BY TypedStep, CleanStep, AgreementStep DEF RInv

\* A step that ends a command with success is its Finish.
LEMMA OnlyFinishReports ==
    ASSUME Typed, [Next]_vars, NEW p \in Procs, pc[p] # "done", pc'[p] = "done"
    PROVE  Finish(p)
<1> USE DEF Typed, CommandTypes, Step, locals
<1>1. ASSUME NEW q \in Procs, Fail(q) PROVE FALSE
  BY <1>1 DEF Fail, End
<1>2. ASSUME NEW q \in Procs, Begin(q) PROVE FALSE
  <2>1. PICK c \in Commands : pc' = [pc EXCEPT ![q] = FirstStep(c)]
    BY <1>2 DEF Begin
  <2>2. FirstStep(c) # "done"
    BY DEF FirstStep, Commands
  <2> QED BY <2>1, <2>2
<1>3. ASSUME NEW q \in Procs,
             VerifyFirst(q) \/ List(q) \/ Relist(q) \/ Chmod(q) \/ Overwrite(q)
      PROVE  FALSE
  BY <1>3 DEF VerifyFirst, List, Relist, Chmod, Overwrite
<1>4. ASSUME NEW q \in Procs, VerifyFails(q) \/ Kill(q) PROVE FALSE
  BY <1>1, <1>4 DEF VerifyFails, Kill
<1>5. ASSUME NEW q \in Procs, LoadIdentity(q) PROVE FALSE
  BY <1>1, <1>5 DEF LoadIdentity
<1>6. ASSUME NEW q \in Procs, Read(q) \/ Copy(q) PROVE FALSE
  BY <1>1, <1>6 DEF Read, Copy
<1>7. ASSUME NEW q \in Procs, Unlock(q) PROVE FALSE
  BY <1>1, <1>7 DEF Unlock
<1>8. ASSUME NEW q \in Procs, Create(q) PROVE FALSE
  BY <1>8 DEF Create, AfterCreate
<1>9. ASSUME NEW q \in Procs, Finish(q) PROVE q = p
  BY <1>9 DEF Finish, End
<1>10. ChangeTree \/ UNCHANGED vars => FALSE
  BY DEF ChangeTree, vars
<1> QED BY <1>2, <1>3, <1>4, <1>5, <1>6, <1>7, <1>8, <1>9, <1>10 DEF Next

\* What a command that succeeds leaves verifies.
THEOREM SuccessVerifies == Spec => ReportedVerifies
<1>1. RInv /\ [Next]_vars =>
        [\A p \in Procs :
            /\ pc[p] # "done" /\ pc'[p] = "done" /\ ~ shared[p]
            /\ \/ cmd[p] = "seal"
               \/ cmd[p] = "pack" /\ steady[p]
            => Verifies(disk'.archive)]_vars
  <2> SUFFICES ASSUME RInv, [Next]_vars, NEW p \in Procs,
                      /\ pc[p] # "done" /\ pc'[p] = "done" /\ ~ shared[p]
                      /\ \/ cmd[p] = "seal"
                         \/ cmd[p] = "pack" /\ steady[p]
               PROVE  Verifies(disk'.archive)
    BY Zenon
  <2>1. /\ pc[p] \in {"copy", "finish"} /\ (pc[p] = "copy" => left[p] = {})
        /\ Save(p, Made(p))
    BY OnlyFinishReports DEF Finish, RInv
  <2>2. Typed /\ Target(cmd[p]) = "archive" /\ Made(p) \in At(Target(cmd[p]))
    BY <2>1, MadeType DEF RInv, Target
  <2>3. disk' \in Disk /\ disk'["archive"] = Made(p)
    BY <2>1, <2>2, SaveEffect
  <2>4. disk'.archive = ArchiveOf(p, copied[p])
    BY <2>3, DiskFields DEF Made
  <2>5. copied[p] = seen[p]
    <3>1. CASE cmd[p] = "seal"
      BY <2>1, <2>2, <3>1 DEF RInv, Agreement, Typed, StepFits, StepOf
    <3>2. CASE cmd[p] = "pack"
      <4>1. pc[p] = "copy" /\ left[p] = {} /\ steady[p]
        BY <2>1, <2>2, <3>2 DEF Typed, StepFits, StepOf
      <4>2. \A n \in Paths : copied[p][n] = seen[p][n]
        BY <3>2, <4>1 DEF RInv, Agreement
      <4>3. copied[p] \in Payload /\ seen[p] \in Payload
        BY <2>2 DEF Typed, CommandTypes
      <4> QED BY <4>2, <4>3 DEF Payload
    <3> QED BY <3>1, <3>2
  <2>6. ArchiveOf(p, copied[p]) \in Archive
    BY <2>1, <2>2, ArchiveType DEF Typed, CommandTypes
  <2> QED BY <2>4, <2>5, <2>6 DEF Verifies, ArchiveOf
<1> QED BY <1>1, RInvInit, RInvStep, PTL DEF Spec, ReportedVerifies

-----------------------------------------------------------------------------
(* Identities.                                                             *)

\* A keyfile changes to a marker, or to what an init that finishes has made.
LEMMA KeyfileWritten ==
    ASSUME Typed, [Next]_vars
    PROVE  \/ disk'.keyfile = disk.keyfile
           \/ disk'.keyfile \notin Identity
           \/ \E p \in Procs :
                  /\ cmd[p] = "init" /\ pc[p] = "finish" /\ Finish(p)
                  /\ disk'.keyfile = Generated(key[p], ReadPassphrase(given[p]))
<1>1. disk["keyfile"] = disk.keyfile /\ disk'["keyfile"] = disk'.keyfile
  BY TypedStep, DiskFields DEF Typed, WorldTypes
<1>2. SUFFICES ASSUME disk'["keyfile"] # disk["keyfile"], disk'.keyfile \in Identity
               PROVE  \E p \in Procs :
                          /\ cmd[p] = "init" /\ pc[p] = "finish" /\ Finish(p)
                          /\ disk'.keyfile = Generated(key[p], ReadPassphrase(given[p]))
  BY <1>1
<1>3. "keyfile" \in Targets /\ disk'["keyfile"] \notin {Empty, Torn}
  BY <1>1, <1>2, MarkersAssumption DEF Targets
<1>4. PICK p \in Procs :
        /\ Target(cmd[p]) = "keyfile" /\ pc[p] \in HasKey
        /\ \/ disk'["keyfile"] \in {Empty, Torn}
           \/ /\ Finish(p) /\ pc[p] \in {"copy", "finish"} /\ disk'["keyfile"] = Made(p)
           \/ /\ Copy(p) /\ pc[p] = "copy" /\ cmd[p] = "pack"
              /\ \E payload \in Payload : disk'["keyfile"] = ArchiveOf(p, payload)
  BY <1>2, <1>3, WhatIsWritten
<1>5. cmd[p] = "init"
  BY <1>4 DEF Target, Typed, CommandTypes, Commands
<1>6. Finish(p) /\ pc[p] = "finish" /\ disk'["keyfile"] = Made(p)
  BY <1>3, <1>4, <1>5 DEF Typed, StepFits, StepOf
<1> QED BY <1>1, <1>5, <1>6 DEF Made

\* The file has been made private by the time its secrets are written.
ModeFits == \A p \in Procs : cmd[p] = "init" /\ pc[p] = "finish" => mode = "private"

LEMMA ModeStep == Typed /\ ModeFits /\ [Next]_vars => ModeFits' /\ mode' \in {mode, "private"}
<1> SUFFICES ASSUME Typed, ModeFits, [Next]_vars PROVE ModeFits' /\ mode' \in {mode, "private"}
  OBVIOUS
<1> USE DEF Typed, CommandTypes, ModeFits, Unwritten, Step, locals
<1> DEFINE Goal == ModeFits' /\ mode' \in {mode, "private"}
<1>1. ASSUME NEW p \in Procs, Begin(p) PROVE Goal
  <2>1. PICK c \in Commands : pc' = [pc EXCEPT ![p] = FirstStep(c)] /\ cmd' = [cmd EXCEPT ![p] = c]
    BY <1>1 DEF Begin
  <2>2. FirstStep(c) # "finish"
    BY DEF FirstStep, Commands
  <2> QED BY <1>1, <2>1, <2>2 DEF Begin
<1>2. ASSUME NEW p \in Procs,
             VerifyFirst(p) \/ List(p) \/ Relist(p) \/ Chmod(p) \/ Overwrite(p)
      PROVE  Goal
  BY <1>2 DEF VerifyFirst, List, Relist, Chmod, ModeAfter, Overwrite
<1>3. ASSUME NEW p \in Procs, Fail(p), UNCHANGED mode PROVE Goal
  BY <1>3 DEF Fail, End
<1>4. ASSUME NEW p \in Procs, VerifyFails(p) \/ Kill(p) PROVE Goal
  BY <1>3, <1>4 DEF VerifyFails, Kill
<1>5. ASSUME NEW p \in Procs, LoadIdentity(p) PROVE Goal
  BY <1>3, <1>5 DEF LoadIdentity
<1>6. ASSUME NEW p \in Procs, Read(p) \/ Copy(p) PROVE Goal
  BY <1>3, <1>6 DEF Read, Copy
<1>7. ASSUME NEW p \in Procs, Unlock(p) PROVE Goal
  BY <1>3, <1>7 DEF Unlock
<1>8. ASSUME NEW p \in Procs, Create(p) PROVE Goal
  <2>1. cmd[p] = "init" => AfterCreate(cmd[p]) = "chmod"
    BY DEF AfterCreate
  <2> QED BY <1>8, <2>1 DEF Create
<1>9. ASSUME NEW p \in Procs, Finish(p) PROVE Goal
  BY <1>9 DEF Finish, End
<1>10. CASE ChangeTree \/ UNCHANGED vars
  BY <1>10 DEF ChangeTree, vars
<1> QED BY <1>1, <1>2, <1>4, <1>5, <1>6, <1>7, <1>8, <1>9, <1>10 DEF Next

\* The private keys of a generated identity are for its owner alone.
THEOREM SecretsStayPrivate == Spec => []SecretsPrivate
<1> DEFINE PInv == Typed /\ ModeFits /\ SecretsPrivate
<1>1. Init => PInv
  <2>1. Init => ModeFits /\ SecretsPrivate
    BY DEF Init, ModeFits, SecretsPrivate
  <2> QED BY <2>1, TypedInit
<1>2. PInv /\ [Next]_vars => PInv'
  <2> SUFFICES ASSUME Typed, ModeFits, SecretsPrivate, [Next]_vars PROVE SecretsPrivate'
    BY TypedStep, ModeStep
  <2>1. mode' \in {mode, "private"}
    BY ModeStep
  <2>2. CASE disk'.keyfile = disk.keyfile
    BY <2>1, <2>2 DEF SecretsPrivate
  <2>3. CASE disk'.keyfile \notin Identity
    BY <2>3 DEF SecretsPrivate
  <2>4. CASE \E p \in Procs : cmd[p] = "init" /\ pc[p] = "finish"
    BY <2>1, <2>4 DEF ModeFits, SecretsPrivate
  <2> QED BY <2>2, <2>3, <2>4, KeyfileWritten
<1>3. PInv => SecretsPrivate
  OBVIOUS
<1> QED BY <1>1, <1>2, <1>3, PTL DEF Spec

\* The command is an init that has generated its keys.
Minted(p) == cmd[p] = "init" /\ key[p] # Absent

\* Every init has keys of its own, which no keyfile has before it is done.
OwnKeys ==
    /\ \A p \in Procs : Minted(p) => key[p] \in used
    /\ \A p, q \in Procs : Minted(p) /\ Minted(q) /\ key[p] = key[q] => p = q
    /\ disk.keyfile \in Identity => disk.keyfile.public \in used
    /\ \A p \in Procs :
        Minted(p) /\ disk.keyfile \in Identity /\ disk.keyfile.public = key[p] =>
            /\ pc[p] = "done"
            /\ disk.keyfile = Generated(key[p], ReadPassphrase(given[p]))

\* How a command comes to be an init with keys.
LEMMA MintedStep ==
    ASSUME Typed, [Next]_vars, NEW q \in Procs, Minted(q)'
    PROVE  \/ /\ Minted(q) /\ key'[q] = key[q] /\ given'[q] = given[q]
              /\ pc[q] = "done" => pc'[q] = "done"
           \/ /\ key'[q] \in used' \ used /\ UNCHANGED disk
              /\ \A p \in Procs \ {q} : (Minted(p)' <=> Minted(p)) /\ key'[p] = key[p]
<1> USE DEF Typed, CommandTypes, Minted, Unwritten, Step, locals
<1> DEFINE Goal == /\ Minted(q) /\ key'[q] = key[q] /\ given'[q] = given[q]
                   /\ pc[q] = "done" => pc'[q] = "done"
<1>1. ASSUME NEW p \in Procs, Begin(p)
      PROVE  \/ Goal
             \/ /\ key'[q] \in used' \ used /\ UNCHANGED disk
                /\ \A r \in Procs \ {q} : (Minted(r)' <=> Minted(r)) /\ key'[r] = key[r]
  <2>1. PICK c \in Commands, g \in Givens :
          /\ pc' = [pc EXCEPT ![p] = FirstStep(c)] /\ cmd' = [cmd EXCEPT ![p] = c]
          /\ given' = [given EXCEPT ![p] = g]
          /\ \/ /\ c = "init"
                /\ \E k \in Keys \ used : key' = [key EXCEPT ![p] = k] /\ used' = used \cup {k}
             \/ c # "init" /\ key' = [key EXCEPT ![p] = Absent] /\ UNCHANGED used
    BY <1>1 DEF Begin
  <2>2. UNCHANGED disk
    BY <1>1 DEF Begin
  <2> QED BY <2>1, <2>2
<1>2. ASSUME NEW p \in Procs,
             VerifyFirst(p) \/ List(p) \/ Relist(p) \/ Chmod(p) \/ Overwrite(p) \/ Create(p)
      PROVE  Goal
  BY <1>2 DEF VerifyFirst, List, Relist, Chmod, Overwrite, Create
<1>3. ASSUME NEW p \in Procs, Fail(p) PROVE Goal
  BY <1>3 DEF Fail, End, Ended
<1>4. ASSUME NEW p \in Procs, VerifyFails(p) \/ Kill(p) PROVE Goal
  BY <1>3, <1>4 DEF VerifyFails, Kill
<1>5. ASSUME NEW p \in Procs, LoadIdentity(p) PROVE Goal
  BY <1>3, <1>5 DEF LoadIdentity
<1>6. ASSUME NEW p \in Procs, Read(p) \/ Copy(p) PROVE Goal
  BY <1>3, <1>6 DEF Read, Copy
<1>7. ASSUME NEW p \in Procs, Unlock(p) PROVE Goal
  BY <1>3, <1>7 DEF Unlock, StepFits, StepOf
<1>8. ASSUME NEW p \in Procs, Finish(p) PROVE Goal
  <2>1. /\ pc[p] \in {"copy", "finish"}
        /\ End(p, "done", IF cmd[p] = "init" THEN [given |-> given[p], key |-> key[p]] ELSE Ended)
    BY <1>8 DEF Finish
  <2>2. CASE cmd[p] = "init"
    BY <2>1, <2>2 DEF End
  <2>3. CASE cmd[p] # "init"
    BY <2>1, <2>3 DEF End, Ended
  <2> QED BY <2>2, <2>3
<1>9. CASE ChangeTree \/ UNCHANGED vars
  BY <1>9 DEF ChangeTree, vars
<1> QED BY <1>1, <1>2, <1>4, <1>5, <1>6, <1>7, <1>8, <1>9 DEF Next

LEMMA UsedGrows == [Next]_vars => used \subseteq used'
BY DEF Next, Begin, VerifyFirst, VerifyFails, LoadIdentity, List, Read, Unlock, Unwritten,
   Create, Chmod, Relist, Copy, Finish, Overwrite, Kill, ChangeTree, vars

LEMMA OwnKeysInit == Init => OwnKeys
<1> SUFFICES ASSUME Init PROVE OwnKeys
  OBVIOUS
<1>0. PICK k \in Keyfiles, a \in Before :
        /\ disk = [keyfile |-> k.file, archive |-> a, capability |-> Absent]
        /\ used = IF k.file \in Identity THEN {k.file.public, k.file.secret, k.file.bound} ELSE {}
  BY DEF Init
<1>1. disk.keyfile = k.file
  BY <1>0
<1>2. \A p \in Procs : ~ Minted(p)
  BY DEF Init, Minted
<1> QED BY <1>0, <1>1, <1>2 DEF OwnKeys

LEMMA OwnKeysStep == Typed /\ OwnKeys /\ [Next]_vars => OwnKeys'
<1> SUFFICES ASSUME Typed, OwnKeys, [Next]_vars PROVE OwnKeys'
  OBVIOUS
<1> DEFINE Kept(q) == /\ Minted(q) /\ key'[q] = key[q] /\ given'[q] = given[q]
                      /\ pc[q] = "done" => pc'[q] = "done"
           Fresh(q) == /\ key'[q] \in used' \ used /\ UNCHANGED disk
                       /\ \A p \in Procs \ {q} : (Minted(p)' <=> Minted(p)) /\ key'[p] = key[p]
<1>1. \A q \in Procs : Minted(q)' => Kept(q) \/ Fresh(q)
  BY MintedStep
<1>2. used \subseteq used'
  BY UsedGrows
<1>3. /\ \A p \in Procs : Minted(p) => key[p] \in used
      /\ \A p, q \in Procs : Minted(p) /\ Minted(q) /\ key[p] = key[q] => p = q
      /\ disk.keyfile \in Identity => disk.keyfile.public \in used
      /\ \A p \in Procs :
          Minted(p) /\ disk.keyfile \in Identity /\ disk.keyfile.public = key[p] =>
              /\ pc[p] = "done"
              /\ disk.keyfile = Generated(key[p], ReadPassphrase(given[p]))
  BY DEF OwnKeys
<1>4. \A p \in Procs : Minted(p)' => key'[p] \in used'
  BY <1>1, <1>2, <1>3
<1>5. \A p, q \in Procs : Minted(p)' /\ Minted(q)' /\ key'[p] = key'[q] => p = q
  BY <1>1, <1>3
<1>6. ASSUME disk'.keyfile = disk.keyfile
      PROVE  /\ disk'.keyfile \in Identity => disk'.keyfile.public \in used'
             /\ \A p \in Procs :
                 Minted(p)' /\ disk'.keyfile \in Identity /\ disk'.keyfile.public = key'[p] =>
                     /\ pc'[p] = "done"
                     /\ disk'.keyfile = Generated(key'[p], ReadPassphrase(given'[p]))
  BY <1>1, <1>2, <1>3, <1>6
<1>7. ASSUME NEW r \in Procs, cmd[r] = "init", pc[r] = "finish", Finish(r),
             disk'.keyfile = Generated(key[r], ReadPassphrase(given[r]))
      PROVE  /\ disk'.keyfile \in Identity => disk'.keyfile.public \in used'
             /\ \A p \in Procs :
                 Minted(p)' /\ disk'.keyfile \in Identity /\ disk'.keyfile.public = key'[p] =>
                     /\ pc'[p] = "done"
                     /\ disk'.keyfile = Generated(key'[p], ReadPassphrase(given'[p]))
  <2>1. Minted(r) /\ disk'.keyfile.public = key[r]
    BY <1>7 DEF Minted, Typed, KeyFits, Generated
  <2>2. /\ key'[r] = key[r] /\ given'[r] = given[r] /\ pc'[r] = "done" /\ Minted(r)'
    BY <1>7, <2>1 DEF Finish, End, Minted, Typed, CommandTypes
  <2>3. key[r] \in used'
    BY <1>2, <1>3, <2>1
  <2>4. \A p \in Procs : Minted(p)' /\ key'[p] = key[r] => p = r
    BY <1>5, <2>2
  <2> QED BY <1>7, <2>1, <2>2, <2>3, <2>4
<1>8. /\ disk'.keyfile \in Identity => disk'.keyfile.public \in used'
      /\ \A p \in Procs :
          Minted(p)' /\ disk'.keyfile \in Identity /\ disk'.keyfile.public = key'[p] =>
              /\ pc'[p] = "done"
              /\ disk'.keyfile = Generated(key'[p], ReadPassphrase(given'[p]))
  BY <1>6, <1>7, KeyfileWritten
<1> QED BY <1>4, <1>5, <1>8 DEF OwnKeys

\* What opens a generated identity: what it was given, as it was meant.
LEMMA GeneratedOpens ==
    ASSUME NEW k \in Keys, NEW g \in Givens, NEW h \in Givens,
           ReadPassphrase(h) \in Passphrase
    PROVE  SigningKey(Generated(k, ReadPassphrase(h)), g) =
               IF Intended(g) = Intended(h) THEN k ELSE Absent
<1>1. Absent \notin Passphrase
  BY MarkersAssumption
<1>2. SigningKey(Generated(k, ReadPassphrase(h)), g) =
        IF ReadPassphrase(g) = ReadPassphrase(h) THEN k ELSE Absent
  BY DEF SigningKey, Generated, Unlocks, Derives, Bound, Matching
<1>3. ReadPassphrase(h) = Intended(h)
  BY <1>1 DEF ReadPassphrase, Intended
<1>4. ReadPassphrase(g) = ReadPassphrase(h) <=> Intended(g) = Intended(h)
  BY <1>1, <1>3 DEF ReadPassphrase, Intended
<1> QED BY <1>2, <1>4

\* An identity opens with the passphrase it was created with, and no other.
THEOREM CreatedOpens == Spec => []CreatedUnlocks
<1> DEFINE UInv == Typed /\ OwnKeys
<1>1. Init => UInv
  BY TypedInit, OwnKeysInit
<1>2. UInv /\ [Next]_vars => UInv'
  BY TypedStep, OwnKeysStep
<1>3. UInv => CreatedUnlocks
  <2> SUFFICES ASSUME Typed, OwnKeys, NEW p \in Procs, NEW g \in Givens,
                      pc[p] = "done", key[p] # Absent,
                      disk.keyfile \in Identity, disk.keyfile.public = key[p]
               PROVE  SigningKey(disk.keyfile, g) =
                          IF Intended(g) = Intended(given[p]) THEN key[p] ELSE Absent
    BY DEF CreatedUnlocks
  <2>1. cmd[p] = "init" /\ key[p] \in Keys
    BY DEF Typed, StepFits, StepOf, CommandTypes
  <2>2. given[p] \in Givens /\ ReadPassphrase(given[p]) \in Passphrase
    BY <2>1 DEF Typed, KeyFits
  <2>3. disk.keyfile = Generated(key[p], ReadPassphrase(given[p]))
    BY <2>1 DEF OwnKeys, Minted
  <2> QED BY <2>1, <2>2, <2>3, GeneratedOpens
<1> QED BY <1>1, <1>2, <1>3, PTL DEF Spec
=============================================================================
