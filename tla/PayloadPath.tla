---------------------------- MODULE PayloadPath ----------------------------
(***************************************************************************)
(* The names of payload files, from the host directory they are read from  *)
(* to the archive entries and back: core/qcap-core/src/payload_merkle.rs   *)
(* and archive.rs, core/qcap-cli/src/main.rs, and the checks of            *)
(* services/qcap-registry/main.go.                                         *)
(*                                                                         *)
(* A string is the sequence of its bytes.  A host path, below the          *)
(* directory that is packed, is the sequence of its components, on a host  *)
(* where any byte but "/" and NUL may be in a file name.                   *)
(***************************************************************************)
EXTENDS Integers, Sequences, FiniteSets, SequencesExt

Byte == 0 .. 255
Bytes == Seq(Byte)
Path == Seq(Bytes)

Slash == 47
Backslash == 92
Colon == 58
Star == 42
Dot == <<46>>
DotDot == <<46, 46>>
Invalid == 255                    \* stands for bytes that are not UTF-8
Replacement == <<239, 191, 189>>  \* U+FFFD, what to_string_lossy writes instead

Has(s, byte) == \E k \in DOMAIN s : s[k] = byte
Utf8(s) == ~ Has(s, Invalid)

\* The n-th smallest number of S, and the elements of s at the positions in S.
Nth(S, n) == CHOOSE k \in S : Cardinality({j \in S : j < k}) = n - 1
Picked(s, S) == [n \in 1 .. Cardinality(S) |-> s[Nth(S, n)]]

\* "a/b/" has the segments "a", "b" and "": what is between two slashes, or
\* between a slash and an end.
Segments(s) ==
    LET cuts == {0, Len(s) + 1} \cup {k \in DOMAIN s : s[k] = Slash}
    IN  [n \in 1 .. Cardinality(cuts) - 1 |->
            SubSeq(s, Nth(cuts, n) + 1, Nth(cuts, n + 1) - 1)]

Joined(path) == Tail(FlattenSeq([k \in DOMAIN path |-> <<Slash>> \o path[k]]))

Normalized(s) == [k \in DOMAIN s |-> IF s[k] = Backslash THEN Slash ELSE s[k]]

LossyUtf8(s) ==
    FlattenSeq([k \in DOMAIN s |-> IF s[k] = Invalid THEN Replacement ELSE <<s[k]>>])

\* What a leaf of the Merkle tree hashes for the path.
LeafName(path) == Normalized(LossyUtf8(Joined(path)))

\* path_to_string and rel_path fail with a name that is not UTF-8.
Writable(path) == Utf8(Joined(path))

\* The entry name, less "payload/".
EntryName(path) == Normalized(Joined(path))

-----------------------------------------------------------------------------
(* Orders.                                                                 *)

LexLess(s, t, Less(_, _)) ==
    \E n \in DOMAIN t :
        /\ \A k \in 1 .. n - 1 : k \in DOMAIN s /\ s[k] = t[k]
        /\ n \in DOMAIN s => Less(s[n], t[n])

BytesLess(s, t) == LexLess(s, t, LAMBDA a, b : a < b)

\* Ord for PathBuf compares component by component.
HostLess(p, q) == LexLess(p, q, BytesLess)

\* list_files, walk_files: sorted by host path.
Sorted(paths) ==
    LET rank == [p \in paths |-> Cardinality({q \in paths : HostLess(q, p)})]
    IN  [n \in 1 .. Cardinality(paths) |-> CHOOSE p \in paths : rank[p] = n - 1]

-----------------------------------------------------------------------------
(* Checks.                                                                 *)

\* validate_relative_path: Path::components drops empty and "." segments.
ValidRelative(rel) ==
    /\ rel # <<>> /\ rel[1] # Slash
    /\ \A k \in DOMAIN Segments(rel) : Segments(rel)[k] # DotDot

\* Mutant of Names: only the file name is kept.
NamesFlat(rel) == <<Last(Segments(rel))>>

\* Where a file of that name is written below a directory; a name that ends
\* in "/" or "/." can only be that of a directory.
Names(rel) ==
    LET segments == Segments(rel)
    IN  Picked(segments, {k \in DOMAIN segments : segments[k] \notin {<<>>, Dot}})
CanBeFile(rel) == Last(Segments(rel)) \notin {<<>>, Dot}

IsDirEntry(rel) == rel # <<>> /\ Last(rel) = Slash

\* An entry "payload/" \o rel under validateQcapArchive: path.Clean leaves a
\* name as it is if no segment of it is empty, "." or "..".
CleanName(rel) == IF IsDirEntry(rel) THEN Front(rel) ELSE rel
SafeEntry(rel) ==
    /\ ~ Has(rel, Backslash) /\ ~ Has(rel, Colon)
    /\ \A k \in DOMAIN Segments(CleanName(rel)) :
           Segments(CleanName(rel))[k] \notin {<<>>, Dot, DotDot}

\* segment-char in the grammar of docs/spec.md, section 3.1; a byte above 127
\* that is not Invalid is part of a multibyte character.
SegmentChar == (33 .. 126 \cup 128 .. 254) \ {Slash, Colon, Backslash}
Portable(path) ==
    \A k \in DOMAIN path :
        /\ path[k] \notin {<<>>, Dot, DotDot}
        /\ \A n \in DOMAIN path[k] : path[k][n] \in SegmentChar

-----------------------------------------------------------------------------
(* Patterns of capabilities.                                               *)

\* Mutant of GlobMatch: "*" is looked for in front first.
GlobSuffixFirst(pattern, candidate) ==
    \/ pattern \in {<<Star>>, candidate}
    \/ /\ pattern # <<>> /\ Head(pattern) = Star
       /\ IsSuffix(Tail(pattern), candidate)
    \/ /\ pattern # <<>> /\ Head(pattern) # Star /\ Last(pattern) = Star
       /\ IsPrefix(Front(pattern), candidate)

\* glob_match.
GlobMatch(pattern, candidate) ==
    \/ pattern \in {<<Star>>, candidate}
    \/ /\ pattern # <<>> /\ Last(pattern) = Star
       /\ IsPrefix(Front(pattern), candidate)
    \/ /\ pattern # <<>> /\ Last(pattern) # Star /\ Head(pattern) = Star
       /\ IsSuffix(Tail(pattern), candidate)
=============================================================================
