----------------------------- MODULE Revocation -----------------------------
(***************************************************************************)
(* The life of revocation lists: qcap revoke, publish-revocations and      *)
(* fetch-revocations (core/qcap-cli/src/main.rs), run by several           *)
(* processes over the same files and one registry.                         *)
(*                                                                         *)
(* None of the commands takes a lock.  revoke reads the list, adds to it   *)
(* in memory and writes it back with fs::write, which truncates the file   *)
(* first; publish-revocations reads the file twice, once to verify it and  *)
(* once for the bytes it sends.  A process may be killed, or fail, between *)
(* any two steps; a request it had sent may still reach the registry.      *)
(*                                                                         *)
(* The registry is its slot per issuer, read and written atomically: that  *)
(* is what ArtifactStore promises and Registry implements.  Its token is   *)
(* left out; a request may be refused as lost (Drop).                      *)
(***************************************************************************)
EXTENDS RevocationList

CONSTANTS
    Procs,        \* qcap processes that may run at the same time
    Lists,        \* files given to revoke as --out
    Copies,       \* files given to fetch-revocations as --out
    Publishable,  \* files given to publish-revocations
    Published,    \* the one of them that an orderly user publishes
    Nobody,       \* the sender of a request whose process has gone
    MaxAsked,     \* bound on the capabilities revoke is asked to revoke
    MaxKills      \* bound on processes that are killed or fail

ASSUME FilesAssumption ==
    /\ Lists \cap Copies = {}
    /\ Publishable \subseteq Lists \cup Copies /\ Published \in Lists
ASSUME ProcsAssumption == Nobody \notin Procs
ASSUME BoundsAssumption == MaxAsked \in Nat /\ MaxKills \in Nat
ASSUME ContentAssumption ==
    /\ {Absent, Empty, Torn} \cap List = {}
    /\ Absent # Empty /\ Absent # Torn /\ Empty # Torn

Paths == Lists \cup Copies

VARIABLES
    file,      \* [Paths -> Content]
    slot,      \* slot[i]: the list the registry serves for issuer i
    net,       \* upload requests on their way to the registry
    pc,        \* pc[p]: the next step of the command p runs
    cmd,       \* cmd[p]: its arguments
    list,      \* list[p]: the list it has in memory
    kills,     \* processes killed so far
    orderly,   \* history: so far every command was alone when it started, and
               \* one file of revoke was published, no other
    asked,     \* history: capabilities some revoke was asked to revoke
    reported,  \* history: reported[f], those revoke has reported in f
    published, \* history: capabilities in lists reported as published
    copyOf     \* history: copyOf[f], the issuer last fetched into f

progVars == <<pc, cmd, list>>
runVars == <<kills, orderly>>
histVars == <<asked, reported, published, copyOf>>
vars == <<file, slot, net, progVars, runVars, histVars>>

Forged(i) == [public_key |-> i, signed |-> FALSE, revoked |-> Capability]

\* A list file does not exist yet, or was edited by hand so that its signature
\* does not verify: what an edit that it still covers puts into a list was asked
\* of nobody, and is in OpenArchive.
Init ==
    /\ file \in [Paths -> {Absent} \cup {Forged(i) : i \in Issuers}]
    /\ \A f \in Copies : file[f] = Absent
    /\ slot = [i \in Issuers |-> Absent]
    /\ net = {}
    /\ pc = [p \in Procs |-> "idle"]
    /\ cmd = [p \in Procs |-> Absent]
    /\ list = [p \in Procs |-> Absent]
    /\ kills = 0 /\ orderly = TRUE
    /\ asked = {} /\ published = {}
    /\ reported = [f \in Lists |-> {}]
    /\ copyOf = [f \in Copies |-> Absent]

----------------------------------------------------------------------------

Goto(p, step) == pc' = [pc EXCEPT ![p] = step]

\* The command returns, with an error or with its report.
Exit(p) ==
    /\ Goto(p, "idle")
    /\ cmd' = [cmd EXCEPT ![p] = Absent]
    /\ list' = [list EXCEPT ![p] = Absent]

\* A command is alone if it starts with no other at work and no request of a
\* killed one on its way.
Alone == net = {} /\ \A p \in Procs : pc[p] = "idle"

Start(p, step, args) ==
    /\ pc[p] = "idle"
    /\ Goto(p, step)
    /\ cmd' = [cmd EXCEPT ![p] = args]
    /\ orderly' = (orderly /\ Alone /\ (step = "verifyList" => args.path = Published))
    /\ UNCHANGED <<file, slot, net, list, kills>>

\* revoke goes on only with a capability that verifies and that the issuer
\* has signed; with another it fails before it touches the list.
StartRevoke(p) ==
    \E i \in Issuers, f \in Lists, c \in Capability :
        /\ c.genuine /\ c.public_key = i
        /\ Cardinality(asked \cup {c}) <= MaxAsked
        /\ Start(p, "readList", [issuer |-> i, path |-> f, cap |-> c])
        /\ asked' = asked \cup {c}
        /\ UNCHANGED <<reported, published, copyOf>>

\* Mutant of Fresh: a truncated file counts as no file.
FreshIfEmpty(content) == content \in {Absent, Empty}

\* out.exists(): without a file, revoke begins a list.
Fresh(content) == content = Absent

\* Mutant of Base: what the file held is forgotten.
BaseForgotten(content, i) == NewList(i)

\* The list the capability is added to.
Base(content, i) == IF Fresh(content) THEN NewList(i) ELSE content

\* Mutant of Extends: the signature of the list is not checked.
ExtendsUnverified(content, i) == content \in List /\ content.public_key = i

\* The existing list must verify and be the issuer's own.
Extends(content, i) == Verifies(content) /\ content.public_key = i

\* The list is read, or begun, the capability added to it, and it is signed
\* again.
ReadList(p) ==
    LET c == cmd[p].cap
        i == cmd[p].issuer
        old == file[cmd[p].path]
        base == Base(old, i)
    IN  /\ pc[p] = "readList"
        /\ \/ /\ Fresh(old) \/ Extends(old, i)
              /\ list' = [list EXCEPT ![p] =
                    [base EXCEPT !.revoked = @ \cup {c}, !.signed = TRUE]]
              /\ Goto(p, "truncate")
              /\ UNCHANGED cmd
           \/ /\ ~ Fresh(old) /\ ~ Extends(old, i)
              /\ Exit(p)
        /\ UNCHANGED <<file, slot, net, runVars, histVars>>

\* write_json, first half: fs::write opens the file and truncates it.
Truncate(p) ==
    /\ pc[p] = "truncate"
    /\ file' = [file EXCEPT ![cmd[p].path] = Empty]
    /\ Goto(p, "write")
    /\ UNCHANGED <<slot, net, cmd, list, runVars, histVars>>

\* write_json, second half, and the report of the command.
Write(p) ==
    LET f == cmd[p].path IN
    /\ pc[p] = "write"
    /\ \E content \in Overwritten(file[f], list[p]) :
           file' = [file EXCEPT ![f] = content]
    /\ IF f \in Lists
       THEN /\ reported' = [reported EXCEPT ![f] = @ \cup {cmd[p].cap}]
            /\ UNCHANGED copyOf
       ELSE /\ copyOf' = [copyOf EXCEPT ![f] = cmd[p].issuer]
            /\ UNCHANGED reported
    /\ Exit(p)
    /\ UNCHANGED <<slot, net, runVars, asked, published>>

----------------------------------------------------------------------------

\* publish-revocations, with --issuer or without (Absent).
StartPublish(p) ==
    \E f \in Publishable, i \in Issuers \cup {Absent} :
        /\ Start(p, "verifyList", [issuer |-> i, path |-> f])
        /\ UNCHANGED histVars

\* The file is read and verified, and must be signed by the issuer named.
VerifyList(p) ==
    LET content == file[cmd[p].path]
        i == IF cmd[p].issuer = Absent THEN content.public_key ELSE cmd[p].issuer
    IN  /\ pc[p] = "verifyList"
        /\ \/ /\ Verifies(content) /\ i = content.public_key
              /\ cmd' = [cmd EXCEPT ![p].issuer = i]
              /\ Goto(p, "post")
              /\ UNCHANGED list
           \/ /\ ~ (Verifies(content) /\ i = content.public_key)
              /\ Exit(p)
        /\ UNCHANGED <<file, slot, net, runVars, histVars>>

\* The file is read again, and those bytes are sent.
Post(p) ==
    /\ pc[p] = "post"
    /\ net' = net \cup {[from |-> p, issuer |-> cmd[p].issuer, bytes |-> file[cmd[p].path]]}
    /\ list' = [list EXCEPT ![p] = file[cmd[p].path]]
    /\ Goto(p, "wait")
    /\ UNCHANGED <<file, slot, cmd, runVars, histVars>>

\* Mutants of Accepts: nothing is checked, or not the issuer of the path.
AcceptsAnything(m) == TRUE
AcceptsAnyIssuer(m) == Verifies(m.bytes)

\* publishRevocations of the registry: the list must verify and name the
\* issuer of the path it is filed under.
Accepts(m) == Verifies(m.bytes) /\ m.bytes.public_key = m.issuer

\* The registry answers a request; whoever waits for the answer reads it.
Answered(m, step) ==
    /\ net' = net \ {m}
    /\ pc' = [p \in Procs |-> IF p = m.from THEN step ELSE pc[p]]
    /\ UNCHANGED <<file, cmd, list, runVars, histVars>>

Store(m) ==
    /\ Accepts(m)
    /\ slot' = [slot EXCEPT ![m.issuer] = m.bytes]
    /\ Answered(m, "stored")

Refuse(m) == ~ Accepts(m) /\ Answered(m, "refused") /\ UNCHANGED slot

\* The request is lost, or the registry refuses it for another reason.
Drop(m) == Answered(m, "refused") /\ UNCHANGED slot

\* Mutant of EndPublish: an answer is taken for success whatever it says.
EndPublishAlways(p) ==
    /\ pc[p] \in {"stored", "refused"}
    /\ published' = published \cup (IF list[p] \in List THEN list[p].revoked ELSE {})
    /\ Exit(p)
    /\ UNCHANGED <<file, slot, net, runVars, asked, reported, copyOf>>

\* The command reports the publication, or fails.
EndPublish(p) ==
    /\ pc[p] \in {"stored", "refused"}
    /\ published' = published \cup (IF pc[p] = "stored" THEN list[p].revoked ELSE {})
    /\ Exit(p)
    /\ UNCHANGED <<file, slot, net, runVars, asked, reported, copyOf>>

----------------------------------------------------------------------------

StartFetch(p) ==
    \E i \in Issuers, f \in Copies :
        /\ Start(p, "get", [issuer |-> i, path |-> f])
        /\ UNCHANGED histVars

\* fetch_revocations_from_url: what the registry serves is verified before
\* it is written; that it is the list of the issuer asked for is not checked.
Get(p) ==
    LET content == slot[cmd[p].issuer] IN
    /\ pc[p] = "get"
    /\ \/ /\ Verifies(content)
          /\ list' = [list EXCEPT ![p] = content]
          /\ Goto(p, "truncate")
          /\ UNCHANGED cmd
       \/ /\ ~ Verifies(content)
          /\ Exit(p)
    /\ UNCHANGED <<file, slot, net, runVars, histVars>>

\* The process is killed, or a system call of it fails: what it has sent
\* is still on its way.
Kill(p) ==
    /\ kills < MaxKills /\ pc[p] # "idle"
    /\ kills' = kills + 1
    /\ net' = {IF m.from = p THEN [m EXCEPT !.from = Nobody] ELSE m : m \in net}
    /\ Exit(p)
    /\ UNCHANGED <<file, slot, orderly, histVars>>

Command(p) ==
    \/ StartRevoke(p) \/ ReadList(p) \/ Truncate(p) \/ Write(p)
    \/ StartPublish(p) \/ VerifyList(p) \/ Post(p) \/ EndPublish(p)
    \/ StartFetch(p) \/ Get(p)

Server == \E m \in net : Store(m) \/ Refuse(m) \/ Drop(m)

Next == \/ \E p \in Procs : Command(p) \/ Kill(p)
        \/ Server

Spec == Init /\ [][Next]_vars

----------------------------------------------------------------------------

Requests == [from : Procs \cup {Nobody}, issuer : Issuers, bytes : Content]

\* The types of the variables.
TypeOK ==
    /\ file \in [Paths -> Content]
    /\ slot \in [Issuers -> List \cup {Absent}]
    /\ net \subseteq Requests
    /\ pc \in [Procs -> {"idle", "readList", "truncate", "write", "verifyList",
                         "post", "wait", "stored", "refused", "get"}]
    /\ \A p \in Procs : list[p] \in Content
    /\ kills \in 0 .. MaxKills /\ orderly \in BOOLEAN
    /\ asked \subseteq Capability /\ published \subseteq Capability
    /\ reported \in [Lists -> SUBSET Capability]
    /\ copyOf \in [Copies -> Issuers \cup {Absent}]

\* A list that verifies, wherever it has got to, revokes only capabilities
\* its own issuer was asked to revoke: revoke never signs entries it found
\* in a list that does not verify or that is another issuer's.
OnlyAskedRevoked ==
    \A content \in {file[f] : f \in Paths} \cup {slot[i] : i \in Issuers}
                     \cup {m.bytes : m \in net} :
        Verifies(content) =>
            /\ content.revoked \subseteq asked
            /\ \A c \in content.revoked : c.public_key = content.public_key

\* A copy that can be read is the list of the issuer it was fetched for,
\* although fetch-revocations checks only its signature and although a file
\* may change between the two times publish-revocations reads it.
CopiesFromIssuer ==
    \A f \in Copies : Verifies(file[f]) => file[f].public_key = copyOf[f]

\* qcap open with the file revoke wrote refuses every capability that
\* revoke has reported as revoked in it: the file revokes it or cannot be
\* read.  With commands that overlap this fails: an addition is lost.
ReportedRefused ==
    \A f \in Lists : \A c \in reported[f] : ~ Admits(file[f], c.public_key, c)

\* As long as every command was alone when it started, killed later or not,
\* a capability reported as revoked stays refused.
OrderlyReportedRefused == orderly => ReportedRefused

\* As long as every command was alone and one file was published, qcap open
\* with the registry's list refuses every capability in a list that was
\* reported as published.
OrderlyPublishedRefused ==
    orderly => \A c \in published : ~ Admits(slot[c.public_key], c.public_key, c)

\* As long as every command was alone and one file was published, a list
\* the registry has stored is never replaced by one that revokes less.
OrderlySlotsGrow ==
    [][orderly' => \A i \in Issuers :
                      slot[i] # Absent => slot[i].revoked \subseteq slot'[i].revoked]_vars
=============================================================================
