------------------------------ MODULE Payload ------------------------------
(***************************************************************************)
(* A payload from the directory it is packed or sealed from to the files a *)
(* recipient exports: its names, its order and its Merkle root             *)
(* (compute_payload_merkle_root, seal, create_qcap_archive_with_signature, *)
(* verify_archive, open_plain, open_encrypted) and the entry checks of the *)
(* registry (validateQcapArchive).                                         *)
(*                                                                         *)
(* Nothing changes while it happens: that is what Issuing and OpenArchive  *)
(* are about.  Signatures and keys are theirs too: the content of a file   *)
(* is that of the host path it comes from, encrypted or not.               *)
(***************************************************************************)
EXTENDS PayloadPath

CONSTANTS
    Directories,       \* sets of host paths, the directories that may be packed
    Patterns,          \* path patterns a capability may carry
    Content(_),        \* the bytes of the file at a host path
    DigestLength,      \* the length of a digest
    Blake3Byte(_, _)   \* the n-th byte of the BLAKE3 digest of a string

Files == UNION Directories
Contents == {Content(p) : p \in Files}

\* A directory has finitely many files, with names a host allows, and no file
\* below a file.
ASSUME DirectoriesAssumption ==
    \A files \in Directories :
        /\ IsFiniteSet(files)
        /\ \A p \in files :
              /\ p \in Path /\ p # <<>>
              /\ \A k \in DOMAIN p :
                    p[k] \notin {<<>>, Dot, DotDot} /\ ~ Has(p[k], Slash) /\ ~ Has(p[k], 0)
        /\ \A p, q \in files : ~ IsStrictPrefix(p, q)
ASSUME PatternsAssumption == Patterns \subseteq Bytes
ASSUME ContentAssumption == \A p \in Files : Content(p) \in Bytes
ASSUME DigestAssumption == DigestLength \in Nat \ {0}

VARIABLES
    command,   \* "pack" or "seal"
    dir,       \* the input directory
    pattern,   \* the pattern of the capability it is opened with, if it has been
    phase,     \* "write" or, with the archive written, "verify"
    pc,        \* what happens next
    payload,   \* [host path -> content]: the directory being hashed
    level,     \* the level of the tree, left to right
    next,      \* the level above it, as far as it is built
    i,         \* the first node of the level not yet used (from 1)
    root,      \* the root computed in this phase
    signed,    \* merkle_root of the signed manifest
    listed,    \* files of the manifest of a sealed archive
    entries,   \* the entries below payload/, less that prefix
    accepted,  \* the registry takes the archive
    exported   \* [host path -> content], below the output directory

treeVars == <<level, next, i, root>>
archiveVars == <<signed, listed, entries, accepted>>
vars == <<command, dir, pattern, phase, pc, payload, treeVars, archiveVars, exported>>

NoFiles == <<>>
NoPattern == <<>>

Init ==
    /\ command \in {"pack", "seal"}
    /\ dir \in Directories
    /\ pattern = NoPattern
    /\ phase = "write"
    /\ pc = IF command = "seal" THEN "stage" ELSE "hash"
    /\ payload = [p \in dir |-> Content(p)]
    /\ level = <<>> /\ next = <<>> /\ i = 1 /\ root = <<>>
    /\ signed = <<>> /\ listed = <<>> /\ entries = <<>>
    /\ accepted = FALSE
    /\ exported = NoFiles

-----------------------------------------------------------------------------
(* Writing files: write_safe, and seal's own writing of its ciphertexts.   *)

\* All files of a sequence can be written below one directory.  create_dir_all
\* fails on a file, fs::write on a directory.
AllWritten(files) ==
    /\ \A k \in DOMAIN files : ValidRelative(files[k].name) /\ CanBeFile(files[k].name)
    /\ \A j, k \in DOMAIN files : ~ IsStrictPrefix(Names(files[j].name), Names(files[k].name))

\* What the directory holds then: of files of one name, the last.
Written(files) ==
    [path \in {Names(files[k].name) : k \in DOMAIN files} |->
        LET same == {k \in DOMAIN files : Names(files[k].name) = path}
        IN  files[CHOOSE k \in same : \A j \in same : j <= k].content]

File(name, content) == [name |-> name, content |-> content]
InOrder(files) ==
    LET paths == Sorted(DOMAIN files)
    IN  [k \in DOMAIN paths |-> File(EntryName(paths[k]), files[paths[k]])]

\* Mutant of Stage: the input directory itself is hashed and archived.
StageInPlace ==
    /\ pc = "stage"
    /\ listed' = InOrder(payload)
    /\ pc' = "hash"
    /\ UNCHANGED <<command, dir, pattern, phase, payload, treeVars, signed, entries, accepted, exported>>

\* Mutant of Stage: the manifest lists the names as the host has them.
StageHostNames ==
    /\ pc = "stage"
    /\ listed' = [k \in DOMAIN InOrder(payload) |->
                     File(Joined(Sorted(dir)[k]), InOrder(payload)[k].content)]
    /\ IF (\A p \in dir : Writable(p)) /\ AllWritten(InOrder(payload))
       THEN payload' = Written(InOrder(payload)) /\ pc' = "hash"
       ELSE pc' = "failed" /\ UNCHANGED payload
    /\ UNCHANGED <<command, dir, pattern, phase, treeVars, signed, entries, accepted, exported>>

\* seal encrypts every file into a directory of its own, under the name the
\* entry will have.
Stage ==
    /\ pc = "stage"
    /\ listed' = InOrder(payload)
    /\ IF (\A p \in dir : Writable(p)) /\ AllWritten(listed')
       THEN payload' = Written(listed') /\ pc' = "hash"
       ELSE pc' = "failed" /\ UNCHANGED payload
    /\ UNCHANGED <<command, dir, pattern, phase, treeVars, signed, entries, accepted, exported>>

-----------------------------------------------------------------------------
(* compute_payload_merkle_root.                                            *)

Blake3(string) == [n \in 1 .. DigestLength |-> Blake3Byte(string, n)]

\* No two strings have one digest: the premise, here and in the theorems, of
\* what a root says of a payload.
NoCollisions == \A x, y : Blake3(x) = Blake3(y) => x = y

\* A name ends at the zero byte, and nothing tells a leaf from a node: the
\* string of a leaf may be as long as two digests, and be two digests.
LeafString(name, content) == name \o <<0>> \o content
Leaf(name, content) == Blake3(LeafString(name, content))
Node(left, right) == Blake3(left \o right)
EmptyRoot == Blake3(<<>>)

Leaves ==
    LET paths == Sorted(DOMAIN payload)
    IN  [k \in DOMAIN paths |-> Leaf(LeafName(paths[k]), payload[paths[k]])]

Hash ==
    /\ pc = "hash"
    /\ level' = Leaves /\ next' = <<>> /\ i' = 1
    /\ IF payload = NoFiles
       THEN pc' = "rooted" /\ root' = EmptyRoot
       ELSE pc' = "tree" /\ UNCHANGED root
    /\ UNCHANGED <<command, dir, pattern, phase, payload, archiveVars, exported>>

treeRest == <<command, dir, pattern, phase, payload, archiveVars, exported>>

\* Mutant of Pair: the right node is used again.
PairOverlapping ==
    /\ pc = "tree" /\ Len(level) > 1 /\ i < Len(level)
    /\ next' = Append(next, Node(level[i], level[i + 1]))
    /\ i' = i + 1
    /\ UNCHANGED <<pc, level, root, treeRest>>

\* Two neighbours are hashed together.
Pair ==
    /\ pc = "tree" /\ Len(level) > 1 /\ i < Len(level)
    /\ next' = Append(next, Node(level[i], level[i + 1]))
    /\ i' = i + 2
    /\ UNCHANGED <<pc, level, root, treeRest>>

\* Mutants of Promote: the odd node is hashed with itself; it is not passed.
PromoteDouble ==
    /\ pc = "tree" /\ Len(level) > 1 /\ i = Len(level)
    /\ next' = Append(next, Node(level[i], level[i]))
    /\ i' = i + 1
    /\ UNCHANGED <<pc, level, root, treeRest>>
PromoteAgain ==
    /\ pc = "tree" /\ Len(level) > 1 /\ i = Len(level)
    /\ next' = <<level[i]>>
    /\ UNCHANGED <<i, pc, level, root, treeRest>>

\* The odd node at the end of a level goes up as it is.
Promote ==
    /\ pc = "tree" /\ Len(level) > 1 /\ i = Len(level)
    /\ next' = Append(next, level[i])
    /\ i' = i + 1
    /\ UNCHANGED <<pc, level, root, treeRest>>

NextLevel ==
    /\ pc = "tree" /\ Len(level) > 1 /\ i > Len(level)
    /\ level' = next /\ next' = <<>> /\ i' = 1
    /\ UNCHANGED <<pc, root, treeRest>>

Root ==
    /\ pc = "tree" /\ Len(level) = 1
    /\ root' = level[1]
    /\ pc' = "rooted"
    /\ UNCHANGED <<level, next, i, treeRest>>

-----------------------------------------------------------------------------
(* The archive and what becomes of it.                                     *)

\* create_qcap_archive_with_signature fails at a name that is not UTF-8.
Archive ==
    /\ pc = "rooted" /\ phase = "write"
    /\ signed' = root
    /\ IF \A p \in DOMAIN payload : Writable(p)
       THEN entries' = InOrder(payload) /\ pc' = "register"
       ELSE pc' = "failed" /\ UNCHANGED entries
    /\ UNCHANGED <<command, dir, pattern, phase, payload, treeVars, listed, accepted, exported>>

\* validateQcapArchive: safe names, each but once.
Register ==
    /\ pc = "register"
    /\ accepted' =
         /\ \A k \in DOMAIN entries : SafeEntry(entries[k].name)
         /\ \A j, k \in DOMAIN entries :
                CleanName(entries[j].name) = CleanName(entries[k].name) => j = k
    /\ pc' = "extract"
    /\ UNCHANGED <<command, dir, pattern, phase, payload, treeVars, signed, listed, entries, exported>>

FileEntries == Picked(entries, {k \in DOMAIN entries : ~ IsDirEntry(entries[k].name)})

\* verify_archive writes the entries to a directory of its own and hashes it.
Extract ==
    /\ pc = "extract"
    /\ phase' = "verify"
    /\ \E files \in {FileEntries} :
          IF AllWritten(files)
          THEN payload' = Written(files) /\ pc' = "hash"
          ELSE pc' = "failed" /\ UNCHANGED payload
    /\ UNCHANGED <<command, dir, pattern, treeVars, archiveVars, exported>>

\* Mutant of Compare: the roots are not compared.
CompareNothing ==
    /\ pc = "rooted" /\ phase = "verify"
    /\ pc' = "verified"
    /\ UNCHANGED <<command, dir, pattern, phase, payload, treeVars, archiveVars, exported>>

Compare ==
    /\ pc = "rooted" /\ phase = "verify"
    /\ pc' = IF root = signed THEN "verified" ELSE "failed"
    /\ UNCHANGED <<command, dir, pattern, phase, payload, treeVars, archiveVars, exported>>

\* open_plain goes through the entries, open_encrypted through the list of the
\* manifest, whose ciphertext hash the entry of that name must have.
Source == IF command = "seal" THEN listed ELSE FileEntries
Allowed(p) == Picked(Source, {k \in DOMAIN Source : GlobMatch(p, Source[k].name)})
Intact(f) == \E k \in DOMAIN entries : entries[k] = f

\* The files the pattern allows are written; none is an error.
Export ==
    /\ pc = "verified"
    /\ \E p \in Patterns : \E files \in {Allowed(p)} :
          /\ pattern' = p
          /\ IF files # <<>> /\ AllWritten(files) /\ \A k \in DOMAIN files : Intact(files[k])
             THEN exported' = Written(files) /\ pc' = "opened"
             ELSE pc' = "refused" /\ UNCHANGED exported
    /\ UNCHANGED <<command, dir, phase, payload, treeVars, archiveVars>>

Next ==
    \/ Stage
    \/ Hash \/ Pair \/ Promote \/ NextLevel \/ Root
    \/ Archive \/ Register \/ Extract \/ Compare \/ Export

\* A command computes until it ends.
Spec == Init /\ [][Next]_vars /\ WF_vars(Next)

-----------------------------------------------------------------------------
(* Properties.                                                             *)

\* The types of the variables.
TypeOK ==
    /\ command \in {"pack", "seal"} /\ dir \in Directories /\ pattern \in Patterns \cup {NoPattern}
    /\ phase \in {"write", "verify"}
    /\ pc \in {"stage", "hash", "tree", "rooted", "register", "extract", "verified",
               "opened", "refused", "failed"}
    /\ \A p \in DOMAIN payload : payload[p] \in Contents /\ Len(p) > 0
    /\ i \in 1 .. Len(level) + 1 /\ 2 * Len(next) <= Len(level) + 1
    /\ \A k \in DOMAIN entries : entries[k].content \in Contents
    /\ \A k \in DOMAIN listed : listed[k].content \in Contents
    /\ accepted \in BOOLEAN
    /\ \A p \in DOMAIN exported : exported[p] \in Contents

\* A tree by recursion from the top: the left half of n leaves holds the
\* largest power of two below n.  tree[n][lo] is the root of the n leaves from
\* leaves[lo] on.
Power[e \in Nat] == IF e = 0 THEN 1 ELSE 2 * Power[e - 1]
LeftHalf(n) == CHOOSE k \in {Power[e] : e \in 0 .. n} : k < n /\ n <= 2 * k
TreeOf(leaves) ==
    LET tree[n \in 1 .. Len(leaves)] ==
            [lo \in 1 .. Len(leaves) - n + 1 |->
                IF n = 1 THEN leaves[lo]
                ELSE Node(tree[LeftHalf(n)][lo], tree[n - LeftHalf(n)][lo + LeftHalf(n)])]
    IN  IF leaves = <<>> THEN EmptyRoot ELSE tree[Len(leaves)][1]

\* The level-by-level loop of compute_payload_merkle_root, with its odd nodes
\* promoted, computes the tree of the recursion.
RootIsTree == pc = "rooted" => root = TreeOf(Leaves)

\* Whatever pack or seal writes, root and archive are computed in finitely
\* many steps, and so is its verification.
Terminates == <>(pc \in {"opened", "refused", "failed"})

\* How far a command is from its end: the steps it has before it, and in a tree
\* a bound on the nodes to go through.
StepsLeft ==
    LET steps == [stage |-> 5, hash |-> 4, tree |-> 3, rooted |-> 2, register |-> 1,
                  extract |-> 0, verified |-> 1]
    IN  IF pc \in DOMAIN steps THEN steps[pc] + (IF phase = "write" THEN 5 ELSE 0) ELSE 0
NodesLeft == IF pc = "tree" THEN 4 * Len(level) - i ELSE 0

Nearer ==
    \/ StepsLeft' < StepsLeft
    \/ StepsLeft' = StepsLeft /\ NodesLeft' \in Nat /\ NodesLeft' < NodesLeft

\* Every step brings a command nearer to its end, for a payload of any size:
\* no level of the tree is gone through twice, odd or even, and none is as long
\* as the one below it.
Advances == [][Nearer]_vars

\* A directory whose names follow the grammar of docs/spec.md, section 3.1, is
\* packed and sealed, accepted by the registry and verified: host paths on
\* the one side and entry names on the other sort its leaves alike.
PortableAccepted ==
    (\A p \in dir : Portable(p)) =>
        /\ pc # "failed"
        /\ phase = "verify" => accepted

\* seal writes only archives that verify, whatever the names: it hashes the
\* names it will archive.
SealVerifies == command = "seal" /\ phase = "verify" => pc # "failed"

\* What a recipient finds in a sealed archive is what its signed manifest lists:
\* every file under a listed name, with the ciphertext listed for it, and no
\* listed name without its file, though seal lists host names and archives what
\* the host made of them.
SealedIsListed ==
    (command = "seal" /\ phase = "verify") =>
        /\ DOMAIN payload = {Names(listed[k].name) : k \in DOMAIN listed}
        /\ \A path \in DOMAIN payload : \E k \in DOMAIN listed :
              Names(listed[k].name) = path /\ listed[k].content = payload[path]

\* Payloads a root tells apart: of as many files, or of more or fewer files,
\* packed and extracted, none of which has a leaf that may be taken for a node.
RootTells ==
    \/ Cardinality(DOMAIN payload) = Cardinality(dir)
    \/ /\ \A p \in dir : Len(LeafString(LeafName(p), Content(p))) # 2 * DigestLength
       /\ \A p \in DOMAIN payload : Len(LeafString(LeafName(p), payload[p])) # 2 * DigestLength

\* A packed archive that verifies holds every file of the directory, with its
\* content, under its name with "/" for separators: names that collide, cannot
\* be written or sort differently are found by the comparison of the roots.
\* That of payloads the root tells apart: pack and verify_archive compare a
\* root and no number of files.
VerifiedIsWhole ==
    (command = "pack" /\ pc = "verified" /\ RootTells) =>
        {<<Joined(p), payload[p]>> : p \in DOMAIN payload}
            = {<<EntryName(p), Content(p)>> : p \in dir}

\* docs/spec.md, section 8.1, as a definition: the bytes around one star.
Matches(p, name) ==
    \/ p = name
    \/ \E k \in 0 .. Len(name) :
          LET head == SubSeq(name, 1, k)
              tail == SubSeq(name, k + 1, Len(name))
          IN  \/ p = head \o <<Star>>
              \/ p = <<Star>> \o tail /\ tail # <<>> /\ Last(tail) # Star

\* An archive that is opened exports the files the pattern stands for, no
\* more and no fewer.  open_encrypted goes by the names seal has listed: a host
\* name with a backslash may be listed as "a/./b" and archived as "a/b", and
\* then no pattern exports the file.  open_plain goes by the entries, of which a
\* packed archive that verifies has one for each file if the root tells.
ExportsMatched ==
    LET named == {Source[k].name : k \in DOMAIN Source}
    IN  (pc = "opened" /\ (command = "pack" => RootTells)) =>
            exported = [path \in {p \in DOMAIN payload :
                                    Joined(p) \in named /\ Matches(pattern, Joined(p))}
                           |-> payload[path]]

\* "ASCII names satisfy this on supported hosts": the host-path order of
\* portable ASCII names is the bytewise order of the names that are hashed
\* (docs/spec.md:264-266).
LeavesBytewise ==
    (pc = "tree" /\ level = Leaves
        /\ \A p \in dir : Portable(p) /\ \A n \in DOMAIN Joined(p) : Joined(p)[n] < 128) =>
        LET paths == Sorted(DOMAIN payload)
        IN  \A j, k \in DOMAIN paths : j < k => BytesLess(LeafName(paths[j]), LeafName(paths[k]))
=============================================================================
