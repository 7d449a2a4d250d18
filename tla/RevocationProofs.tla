-------------------------- MODULE RevocationProofs --------------------------
(***************************************************************************)
(* What the revocation commands guarantee, for every value of the          *)
(* constants: any number of processes, of files and of issuers, and any    *)
(* number of processes killed.                                             *)
(***************************************************************************)
EXTENDS Revocation, TLAPS

Revoking == [issuer : Issuers, path : Lists, cap : Capability]
Naming == [issuer : Issuers \cup {Absent}, path : Publishable]
Publishing == [issuer : Issuers, path : Publishable]
Fetching == [issuer : Issuers, path : Copies]

\* The arguments of a command are those of the command that runs.
CmdFits ==
    /\ list \in [Procs -> Content]
    /\ cmd \in [Procs -> {Absent} \cup Revoking \cup Naming \cup Fetching]
    /\ \A p \in Procs :
        /\ pc[p] = "readList" => cmd[p] \in Revoking
        /\ pc[p] \in {"truncate", "write"} =>
              cmd[p] \in Revoking \cup Fetching /\ Verifies(list[p])
        /\ pc[p] = "verifyList" => cmd[p] \in Naming
        /\ pc[p] \in {"post", "wait", "stored", "refused"} => cmd[p] \in Publishing
        /\ pc[p] = "get" => cmd[p] \in Fetching

\* A request on its way is the one its sender waits for, if it has not gone.
SentFits ==
    /\ \A m \in net : m.from \in Procs =>
          /\ pc[m.from] = "wait" /\ list[m.from] = m.bytes
          /\ cmd[m.from].issuer = m.issuer
    /\ \A p \in Procs : pc[p] = "stored" => Verifies(list[p])

Typed == TypeOK /\ CmdFits /\ SentFits

LEMMA OverwrittenBy ==
    ASSUME NEW old, NEW l, NEW content \in Overwritten(old, l)
    PROVE  content = l \/ content = Torn
BY DEF Overwritten

\* A list that verifies is a list; the marks of a file are not lists.
LEMMA VerifiesIsList ==
    /\ \A content : Verifies(content) => content \in List
    /\ ~ Verifies(Absent) /\ ~ Verifies(Empty) /\ ~ Verifies(Torn)
    /\ Absent \notin List
BY ContentAssumption DEF Verifies

LEMMA PathsCovered ==
    /\ Paths = Lists \cup Copies /\ Publishable \subseteq Paths
    /\ Published \in Lists /\ Published \in Paths
    /\ \A f \in Lists : f \notin Copies
BY FilesAssumption DEF Paths

\* The list revoke signs: what the file held, and one capability more.
Extended(old, i, c) == [Base(old, i) EXCEPT !.revoked = @ \cup {c}, !.signed = TRUE]

LEMMA ExtendedList ==
    ASSUME NEW old \in Content, NEW i \in Issuers, NEW c \in Capability,
           Fresh(old) \/ Extends(old, i)
    PROVE  /\ Extended(old, i, c) \in List /\ Verifies(Extended(old, i, c))
           /\ Extended(old, i, c).public_key = i
           /\ Extended(old, i, c).revoked =
                 (IF Fresh(old) THEN {} ELSE old.revoked) \cup {c}
<1> DEFINE base == Base(old, i)
<1>1. base \in List /\ base.public_key = i
      /\ base.revoked = (IF Fresh(old) THEN {} ELSE old.revoked)
  BY DEF Base, Extends, Verifies, NewList, List
<1> HIDE DEF base
<1> DEFINE new == [base EXCEPT !.revoked = @ \cup {c}, !.signed = TRUE]
<1>2. /\ new \in List /\ new.signed /\ new.public_key = base.public_key
      /\ new.revoked = base.revoked \cup {c}
  BY <1>1 DEF List
<1>3. Verifies(new)
  BY <1>2 DEF Verifies
<1>4. Extended(old, i, c) = new
  BY DEF Extended, base
<1> QED BY <1>1, <1>2, <1>3, <1>4

\* The two ways ReadList goes.
LEMMA ReadListCases ==
    ASSUME Typed, NEW p \in Procs, ReadList(p)
    PROVE  /\ cmd[p] \in Revoking /\ pc[p] = "readList"
           /\ cmd[p].path \in Lists /\ cmd[p].cap \in Capability
           /\ cmd[p].issuer \in Issuers /\ file[cmd[p].path] \in Content
           /\ UNCHANGED <<file, slot, net, runVars, histVars>>
           /\ \/ /\ Fresh(file[cmd[p].path]) \/ Extends(file[cmd[p].path], cmd[p].issuer)
                 /\ list' = [list EXCEPT ![p] =
                       Extended(file[cmd[p].path], cmd[p].issuer, cmd[p].cap)]
                 /\ Goto(p, "truncate") /\ UNCHANGED cmd
              \/ Exit(p)
<1>1. /\ cmd[p] \in Revoking /\ pc[p] = "readList"
      /\ cmd[p].path \in Lists /\ cmd[p].cap \in Capability
      /\ cmd[p].issuer \in Issuers
  BY DEF ReadList, Typed, CmdFits, Revoking
<1>2. file[cmd[p].path] \in Content
  BY <1>1, PathsCovered DEF Typed, TypeOK
<1> QED BY <1>1, <1>2 DEF ReadList, Extended

-----------------------------------------------------------------------------
(* Types.                                                                  *)

LEMMA TypedInit == Init => Typed
<1> SUFFICES ASSUME Init PROVE Typed
  OBVIOUS
<1>1. TypeOK
  <2>1. file \in [Paths -> Content]
    <3>1. \A i \in Issuers : Forged(i) \in Content
      BY DEF Content, List, Forged
    <3>2. Absent \in Content
      BY DEF Content
    <3> QED BY <3>1, <3>2 DEF Init
  <2> QED BY <2>1, BoundsAssumption DEF Init, TypeOK, Content
<1>2. CmdFits
  BY DEF Init, CmdFits, Content
<1>3. SentFits
  BY DEF Init, SentFits
<1> QED BY <1>1, <1>2, <1>3 DEF Typed

\* What the three commands do when they start.
Started(p, step, args) ==
    /\ pc[p] = "idle" /\ pc' = [pc EXCEPT ![p] = step]
    /\ cmd' = [cmd EXCEPT ![p] = args]
    /\ orderly' = (orderly /\ Alone /\ (step = "verifyList" => args.path = Published))
    /\ UNCHANGED <<file, slot, net, list, kills, reported, published, copyOf>>
    /\ asked' \subseteq Capability
    /\ \/ step = "readList" /\ args \in Revoking
       \/ step = "verifyList" /\ args \in Naming
       \/ step = "get" /\ args \in Fetching

LEMMA Starts ==
    ASSUME Typed, NEW p \in Procs, StartRevoke(p) \/ StartPublish(p) \/ StartFetch(p)
    PROVE  \E step, args : Started(p, step, args)
<1> USE DEF Typed, histVars, Start, Goto
<1>1. CASE StartRevoke(p)
  <2>1. PICK i \in Issuers, f \in Lists, c \in Capability :
          /\ Start(p, "readList", [issuer |-> i, path |-> f, cap |-> c])
          /\ asked' = asked \cup {c} /\ UNCHANGED <<reported, published, copyOf>>
    BY <1>1 DEF StartRevoke
  <2>2. [issuer |-> i, path |-> f, cap |-> c] \in Revoking
    BY DEF Revoking
  <2>3. Started(p, "readList", [issuer |-> i, path |-> f, cap |-> c])
    BY <2>1, <2>2 DEF Started, TypeOK
  <2> QED BY <2>3
<1>2. CASE StartPublish(p)
  <2>1. PICK f \in Publishable, i \in Issuers \cup {Absent} :
          Start(p, "verifyList", [issuer |-> i, path |-> f]) /\ UNCHANGED histVars
    BY <1>2 DEF StartPublish
  <2>2. [issuer |-> i, path |-> f] \in Naming
    BY DEF Naming
  <2>3. Started(p, "verifyList", [issuer |-> i, path |-> f])
    BY <2>1, <2>2 DEF Started, TypeOK
  <2> QED BY <2>3
<1>3. CASE StartFetch(p)
  <2>1. PICK i \in Issuers, f \in Copies :
          Start(p, "get", [issuer |-> i, path |-> f]) /\ UNCHANGED histVars
    BY <1>3 DEF StartFetch
  <2>2. [issuer |-> i, path |-> f] \in Fetching
    BY DEF Fetching
  <2>3. Started(p, "get", [issuer |-> i, path |-> f])
    BY <2>1, <2>2 DEF Started, TypeOK
  <2> QED BY <2>3
<1> QED BY <1>1, <1>2, <1>3

LEMMA StartTyped ==
    ASSUME Typed, NEW p \in Procs, StartRevoke(p) \/ StartPublish(p) \/ StartFetch(p)
    PROVE  Typed'
<1> USE DEF Typed
<1> USE DEF Started
<1>1. PICK step, args : Started(p, step, args)
  BY Starts
<1>2. TypeOK'
  <2>1. orderly' \in BOOLEAN
    BY <1>1
  <2> QED BY <1>1, <2>1 DEF TypeOK
<1>3. CmdFits'
  BY <1>1 DEF CmdFits, TypeOK
<1>4. SentFits'
  BY <1>1 DEF SentFits, TypeOK, CmdFits
<1> QED BY <1>2, <1>3, <1>4

\* A command that is over leaves the rest as it is.
LEMMA ExitTyped ==
    ASSUME Typed, NEW p \in Procs, Exit(p),
           \A m \in net' : m.from \in Procs => m \in net /\ m.from # p
    PROVE  pc' \in [Procs -> {"idle", "readList", "truncate", "write", "verifyList",
                              "post", "wait", "stored", "refused", "get"}]
           /\ (\A q \in Procs : list'[q] \in Content) /\ CmdFits' /\ SentFits'
<1> USE DEF Typed, Exit, Goto
<1>1. pc' \in [Procs -> {"idle", "readList", "truncate", "write", "verifyList",
                         "post", "wait", "stored", "refused", "get"}]
  BY DEF TypeOK
<1>2. list' \in [Procs -> Content]
  BY DEF CmdFits, Content
<1>3. CmdFits'
  BY <1>2 DEF CmdFits, TypeOK
<1>4. SentFits'
  BY DEF SentFits, TypeOK, CmdFits
<1> QED BY <1>1, <1>2, <1>3, <1>4

LEMMA ReadListTyped == ASSUME Typed, NEW p \in Procs, ReadList(p) PROVE Typed'
<1> USE ReadListCases DEF Typed, histVars, runVars
<1> DEFINE new == Extended(file[cmd[p].path], cmd[p].issuer, cmd[p].cap)
<1>1. CASE Exit(p)
  <2>1. \A m \in net' : m.from \in Procs => m \in net /\ m.from # p
    BY DEF SentFits
  <2> QED BY <1>1, <2>1, ExitTyped DEF TypeOK
<1>2. CASE ~ Exit(p)
  <2>1. /\ new \in List /\ Verifies(new) /\ list' = [list EXCEPT ![p] = new]
        /\ Goto(p, "truncate") /\ UNCHANGED cmd
    BY <1>2, ExtendedList
  <2> HIDE DEF new
  <2>2. TypeOK'
    BY <2>1 DEF TypeOK, CmdFits, Content, Goto
  <2>3. CmdFits'
    BY <2>1 DEF CmdFits, TypeOK, Content, Goto
  <2>4. SentFits'
    BY <2>1 DEF SentFits, CmdFits, TypeOK, Goto
  <2> QED BY <2>2, <2>3, <2>4
<1> QED BY <1>1, <1>2

LEMMA WriteTyped ==
    ASSUME Typed, NEW p \in Procs, Truncate(p) \/ Write(p)
    PROVE  Typed'
<1> USE DEF Typed, histVars, runVars
<1>0. /\ cmd[p] \in Revoking \cup Fetching /\ cmd[p].path \in Paths
      /\ Verifies(list[p]) /\ list[p] \in List
  BY PathsCovered, VerifiesIsList
  DEF Truncate, Write, CmdFits, Revoking, Fetching
<1>1. \A m \in net : m.from \in Procs => m.from # p
  BY DEF SentFits, Truncate, Write
<1>2. CASE Truncate(p)
  <2>1. TypeOK'
    BY <1>0, <1>2 DEF Truncate, TypeOK, Goto, Content
  <2>2. CmdFits'
    BY <1>0, <1>2 DEF Truncate, CmdFits, TypeOK, Goto
  <2>3. SentFits'
    BY <1>1, <1>2 DEF Truncate, SentFits, TypeOK, Goto
  <2> QED BY <2>1, <2>2, <2>3
<1>3. CASE Write(p)
  <2>1. Exit(p) /\ UNCHANGED <<slot, net, kills, orderly, asked, published>>
    BY <1>3 DEF Write
  <2>2. PICK content : /\ content \in Overwritten(file[cmd[p].path], list[p])
                       /\ file' = [file EXCEPT ![cmd[p].path] = content]
    BY <1>3 DEF Write
  <2>3. content \in Content
    BY <1>0, <2>2, OverwrittenBy DEF Content
  <2>4. reported' \in [Lists -> SUBSET Capability] /\ copyOf' \in [Copies -> Issuers \cup {Absent}]
    <3>1. CASE cmd[p].path \in Lists
      <4>1. cmd[p].cap \in Capability
        BY <1>0, <3>1, PathsCovered DEF Revoking, Fetching
      <4> QED BY <1>3, <3>1, <4>1 DEF Write, TypeOK
    <3>2. CASE cmd[p].path \notin Lists
      <4>1. cmd[p].issuer \in Issuers
        BY <1>0 DEF Revoking, Fetching
      <4> QED BY <1>3, <3>2, <4>1 DEF Write, TypeOK
    <3> QED BY <3>1, <3>2
  <2>5. \A m \in net' : m.from \in Procs => m \in net /\ m.from # p
    BY <1>1, <2>1
  <2>6. file' \in [Paths -> Content]
    BY <2>2, <2>3 DEF TypeOK
  <2> QED BY <2>1, <2>4, <2>5, <2>6, ExitTyped DEF TypeOK
<1> QED BY <1>2, <1>3

LEMMA PublishTyped ==
    ASSUME Typed, NEW p \in Procs, VerifyList(p) \/ Post(p) \/ EndPublish(p)
    PROVE  Typed'
<1> USE DEF Typed, histVars, runVars
<1>1. CASE VerifyList(p)
  <2>0. /\ cmd[p] \in Naming /\ pc[p] = "verifyList"
        /\ UNCHANGED <<file, slot, net, runVars, histVars>>
    BY <1>1 DEF VerifyList, CmdFits
  <2>1. CASE Exit(p)
    <3>1. \A m \in net' : m.from \in Procs => m \in net /\ m.from # p
      BY <2>0 DEF SentFits
    <3> QED BY <2>0, <2>1, <3>1, ExitTyped DEF TypeOK
  <2>2. CASE ~ Exit(p)
    <3>1. PICK i \in Issuers :
            /\ cmd' = [cmd EXCEPT ![p] = [cmd[p] EXCEPT !.issuer = i]]
            /\ Goto(p, "post") /\ UNCHANGED list
      <4>1. /\ Verifies(file[cmd[p].path])
            /\ cmd' = [cmd EXCEPT ![p].issuer = file[cmd[p].path].public_key]
            /\ Goto(p, "post") /\ UNCHANGED list
        BY <1>1, <2>2 DEF VerifyList
      <4>2. file[cmd[p].path].public_key \in Issuers
        BY <4>1 DEF Verifies, List
      <4> QED BY <4>1, <4>2
    <3>2. [cmd[p] EXCEPT !.issuer = i] \in Publishing
      BY <2>0 DEF Naming, Publishing
    <3>3. Publishing \subseteq Naming
      BY DEF Naming, Publishing
    <3>4. TypeOK'
      BY <2>0, <3>1 DEF TypeOK, Goto
    <3>5. CmdFits'
      BY <3>1, <3>2, <3>3 DEF CmdFits, TypeOK, Goto
    <3>6. SentFits'
      BY <2>0, <3>1 DEF SentFits, TypeOK, CmdFits, Goto
    <3> QED BY <3>4, <3>5, <3>6
  <2> QED BY <2>1, <2>2
<1>2. CASE Post(p)
  <2>0. /\ cmd[p] \in Publishing /\ pc[p] = "post"
        /\ cmd[p].path \in Paths /\ cmd[p].issuer \in Issuers
    BY <1>2, PathsCovered DEF Post, CmdFits, Publishing
  <2> DEFINE content == file[cmd[p].path]
             m == [from |-> p, issuer |-> cmd[p].issuer, bytes |-> content]
  <2>1. /\ net' = net \cup {m} /\ list' = [list EXCEPT ![p] = content]
        /\ Goto(p, "wait") /\ UNCHANGED <<file, slot, cmd, runVars, histVars>>
    BY <1>2 DEF Post
  <2>2. content \in Content
    BY <2>0 DEF TypeOK
  <2>3. m \in Requests /\ m.from = p /\ m.issuer = cmd[p].issuer /\ m.bytes = content
    BY <2>0, <2>2 DEF Requests
  <2> HIDE DEF content, m
  <2>4. TypeOK'
    BY <2>1, <2>2, <2>3 DEF TypeOK, CmdFits, Goto
  <2>5. CmdFits'
    BY <2>0, <2>1, <2>2 DEF CmdFits, TypeOK, Goto
  <2>6. SentFits'
    BY <2>0, <2>1, <2>3 DEF SentFits, CmdFits, TypeOK, Goto
  <2> QED BY <2>4, <2>5, <2>6
<1>3. CASE EndPublish(p)
  <2>1. \A m \in net' : m.from \in Procs => m \in net /\ m.from # p
    BY <1>3 DEF EndPublish, SentFits
  <2>2. pc[p] = "stored" => list[p].revoked \subseteq Capability
    BY VerifiesIsList DEF SentFits, List
  <2>3. published' \subseteq Capability
    BY <1>3, <2>2 DEF EndPublish, TypeOK
  <2> QED BY <1>3, <2>1, <2>3, ExitTyped DEF EndPublish, TypeOK
<1> QED BY <1>1, <1>2, <1>3

LEMMA AnsweredTyped ==
    ASSUME Typed, NEW m \in net, NEW step \in {"stored", "refused"}, Answered(m, step),
           step = "stored" => Verifies(m.bytes)
    PROVE  /\ net' \subseteq Requests /\ CmdFits' /\ SentFits'
           /\ pc' \in [Procs -> {"idle", "readList", "truncate", "write", "verifyList",
                                 "post", "wait", "stored", "refused", "get"}]
           /\ UNCHANGED <<file, cmd, list, kills, orderly, asked, reported, published, copyOf>>
<1> USE DEF Typed, histVars, runVars, Answered
<1>1. /\ net' \subseteq Requests
      /\ pc' \in [Procs -> {"idle", "readList", "truncate", "write", "verifyList",
                            "post", "wait", "stored", "refused", "get"}]
  BY DEF TypeOK
<1>2. CmdFits'
  BY DEF CmdFits, SentFits
<1>3. \A m2 \in net' : m2.from \in Procs => m2.from # m.from
  <2> SUFFICES ASSUME NEW m2 \in net', m2.from \in Procs, m2.from = m.from
               PROVE  FALSE
    OBVIOUS
  <2>1. m \in Requests /\ m2 \in Requests
    BY DEF TypeOK
  <2>2. m2.bytes = m.bytes /\ m2.issuer = m.issuer
    BY DEF SentFits
  <2>3. m2 = m
    BY <2>1, <2>2 DEF Requests
  <2> QED BY <2>3
<1>4. SentFits'
  BY <1>3 DEF SentFits
<1> QED BY <1>1, <1>2, <1>4

LEMMA ServerTyped == ASSUME Typed, Server PROVE Typed'
<1>1. PICK m \in net : Store(m) \/ Refuse(m) \/ Drop(m)
  BY DEF Server
<1>2. m \in Requests
  BY DEF Typed, TypeOK
<1>3. CASE Store(m)
  <2>1. Verifies(m.bytes) /\ m.bytes \in List /\ m.issuer \in Issuers
    BY <1>2, <1>3, VerifiesIsList DEF Store, Accepts, Requests
  <2>2. Answered(m, "stored") /\ slot' = [slot EXCEPT ![m.issuer] = m.bytes]
    BY <1>3 DEF Store
  <2> QED BY <2>1, <2>2, AnsweredTyped DEF Typed, TypeOK
<1>4. CASE Refuse(m) \/ Drop(m)
  <2>1. Answered(m, "refused") /\ UNCHANGED slot
    BY <1>4 DEF Refuse, Drop
  <2> QED BY <2>1, AnsweredTyped DEF Typed, TypeOK
<1> QED BY <1>1, <1>3, <1>4

LEMMA GetTyped == ASSUME Typed, NEW p \in Procs, Get(p) PROVE Typed'
<1> USE DEF Typed, histVars, runVars
<1>0. /\ cmd[p] \in Fetching /\ pc[p] = "get"
      /\ UNCHANGED <<file, slot, net, runVars, histVars>>
  BY DEF Get, CmdFits
<1>1. CASE Exit(p)
  <2>1. \A m \in net' : m.from \in Procs => m \in net /\ m.from # p
    BY <1>0 DEF SentFits
  <2> QED BY <1>0, <1>1, <2>1, ExitTyped DEF TypeOK
<1>2. CASE ~ Exit(p)
  <2>1. PICK l \in List : /\ Verifies(l) /\ list' = [list EXCEPT ![p] = l]
                          /\ Goto(p, "truncate") /\ UNCHANGED cmd
    BY <1>2, VerifiesIsList DEF Get
  <2>2. TypeOK'
    BY <1>0, <2>1 DEF TypeOK, CmdFits, Content, Goto
  <2>3. CmdFits'
    BY <1>0, <2>1 DEF CmdFits, TypeOK, Content, Goto
  <2>4. SentFits'
    BY <1>0, <2>1 DEF SentFits, CmdFits, TypeOK, Goto
  <2> QED BY <2>2, <2>3, <2>4
<1> QED BY <1>1, <1>2

\* What a kill does to the requests on their way.
LEMMA Orphaned ==
    ASSUME Typed, NEW p \in Procs, Kill(p)
    PROVE  /\ net' \subseteq Requests
           /\ \A m \in net' : m.from \in Procs => m \in net /\ m.from # p
           /\ \A m \in net' : \E n \in net : m.bytes = n.bytes /\ m.issuer = n.issuer
           /\ (\A m, n \in net : m = n) => \A m, n \in net' : m = n
<1> DEFINE G(m) == IF m.from = p THEN [m EXCEPT !.from = Nobody] ELSE m
<1>1. net' = {G(m) : m \in net} /\ net \subseteq Requests
  BY DEF Kill, Typed, TypeOK
<1>2. \A m \in Requests :
        /\ G(m) \in Requests /\ G(m).bytes = m.bytes /\ G(m).issuer = m.issuer
        /\ G(m).from \in Procs => G(m) = m /\ m.from # p
  BY ProcsAssumption DEF Requests
<1> HIDE DEF G
<1> QED BY <1>1, <1>2

LEMMA KillTyped == ASSUME Typed, NEW p \in Procs, Kill(p) PROVE Typed'
<1>1. kills' \in 0 .. MaxKills
  BY BoundsAssumption DEF Kill, Typed, TypeOK
<1>2. Exit(p) /\ UNCHANGED <<file, slot, orderly, histVars>>
  BY DEF Kill
<1> QED BY <1>1, <1>2, Orphaned, ExitTyped DEF Typed, TypeOK, histVars

LEMMA TypedStep == Typed /\ [Next]_vars => Typed'
<1> SUFFICES ASSUME Typed, [Next]_vars PROVE Typed'
  OBVIOUS
<1>1. ASSUME NEW p \in Procs, Command(p) \/ Kill(p) PROVE Typed'
  BY <1>1, StartTyped, ReadListTyped, WriteTyped, PublishTyped, GetTyped, KillTyped
  DEF Command
<1>2. CASE Server
  BY <1>2, ServerTyped
<1>3. CASE UNCHANGED vars
  BY <1>3 DEF vars, progVars, runVars, histVars, Typed, TypeOK, CmdFits, SentFits
<1> QED BY <1>1, <1>2, <1>3 DEF Next

\* The types of the variables of the revocation commands.
THEOREM TypesHold == Spec => []TypeOK
<1>1. Typed => TypeOK
  BY DEF Typed
<1> QED BY <1>1, TypedInit, TypedStep, PTL DEF Spec

-----------------------------------------------------------------------------
(* What a list revokes, wherever it has got to.                            *)

\* Every content some file, slot, request or process holds.
InPlay ==
    {file[f] : f \in Paths} \cup {slot[i] : i \in Issuers}
        \cup {m.bytes : m \in net} \cup {list[p] : p \in Procs}

Honest(content) ==
    Verifies(content) =>
        /\ content.revoked \subseteq asked
        /\ \A c \in content.revoked : c.public_key = content.public_key

HonestLists ==
    /\ \A content \in InPlay : Honest(content)
    /\ \A p \in Procs : pc[p] = "readList" =>
          cmd[p].cap \in asked /\ cmd[p].cap.public_key = cmd[p].issuer

\* Only revoke makes a list: the other steps hand on, destroy or lose what
\* there is.
LEMMA NothingAppears ==
    ASSUME Typed, [Next]_vars, \A p \in Procs : ~ ReadList(p)
    PROVE  InPlay' \subseteq InPlay \cup {Absent, Empty, Torn}
<1> USE DEF Typed, TypeOK, CmdFits, progVars, runVars, histVars, Goto
<1>1. ASSUME NEW p \in Procs, StartRevoke(p) \/ StartPublish(p) \/ StartFetch(p)
      PROVE  InPlay' \subseteq InPlay
  <2>1. UNCHANGED <<file, slot, net, list>>
    BY <1>1, Starts DEF Started
  <2> QED BY <2>1 DEF InPlay
<1>2. ASSUME NEW p \in Procs, VerifyList(p) \/ EndPublish(p)
      PROVE  InPlay' \subseteq InPlay \cup {Absent}
  BY <1>2 DEF VerifyList, EndPublish, Exit, InPlay
<1>3. ASSUME NEW p \in Procs, Truncate(p)
      PROVE  InPlay' \subseteq InPlay \cup {Empty}
  BY <1>3 DEF Truncate, InPlay
<1>4. ASSUME NEW p \in Procs, Write(p)
      PROVE  InPlay' \subseteq InPlay \cup {Absent, Torn}
  <2>1. PICK content \in Overwritten(file[cmd[p].path], list[p]) :
            file' = [file EXCEPT ![cmd[p].path] = content]
    BY <1>4 DEF Write
  <2>2. content \in {list[p], Torn}
    BY OverwrittenBy
  <2>3. UNCHANGED <<slot, net>> /\ list' = [list EXCEPT ![p] = Absent]
    BY <1>4 DEF Write, Exit
  <2> QED BY <2>1, <2>2, <2>3 DEF InPlay
<1>5. ASSUME NEW p \in Procs, Post(p)
      PROVE  InPlay' \subseteq InPlay
  <2>1. cmd[p].path \in Paths
    BY <1>5, PathsCovered DEF Post, Publishing
  <2> QED BY <1>5, <2>1 DEF Post, InPlay
<1>6. ASSUME NEW p \in Procs, Get(p)
      PROVE  InPlay' \subseteq InPlay \cup {Absent}
  <2>1. cmd[p].issuer \in Issuers
    BY <1>6 DEF Get, Fetching
  <2> QED BY <1>6, <2>1 DEF Get, Exit, InPlay
<1>7. ASSUME NEW p \in Procs, Kill(p)
      PROVE  InPlay' \subseteq InPlay \cup {Absent}
  <2>1. {m.bytes : m \in net'} \subseteq {m.bytes : m \in net}
    BY <1>7, Orphaned
  <2>2. UNCHANGED <<file, slot>> /\ list' = [list EXCEPT ![p] = Absent]
    BY <1>7 DEF Kill, Exit
  <2> QED BY <2>1, <2>2 DEF InPlay
<1>8. ASSUME Server PROVE InPlay' \subseteq InPlay
  <2>1. PICK m \in net : Store(m) \/ Refuse(m) \/ Drop(m)
    BY <1>8 DEF Server
  <2>2. m.issuer \in Issuers
    BY DEF Requests
  <2> QED BY <2>1, <2>2 DEF Store, Refuse, Drop, Answered, InPlay
<1>9. CASE UNCHANGED vars
  BY <1>9 DEF vars, InPlay
<1> QED BY <1>1, <1>2, <1>3, <1>4, <1>5, <1>6, <1>7, <1>8, <1>9 DEF Next, Command

LEMMA AskedGrows == [Next]_vars => asked \subseteq asked'
BY DEF Next, Command, StartRevoke, StartPublish, StartFetch, ReadList, Truncate, Write,
   VerifyList, Post, EndPublish, Get, Kill, Server, Store, Refuse, Drop, Answered,
   vars, histVars

LEMMA HonestInit == Init => HonestLists
<1> SUFFICES ASSUME Init PROVE HonestLists
  OBVIOUS
<1>1. ASSUME NEW content \in InPlay PROVE ~ Verifies(content)
  BY <1>1, VerifiesIsList DEF Init, InPlay, Forged, Verifies
<1> QED BY <1>1 DEF Init, HonestLists, Honest

LEMMA HonestStep == Typed /\ HonestLists /\ [Next]_vars => HonestLists'
<1> SUFFICES ASSUME Typed, HonestLists, [Next]_vars PROVE HonestLists'
  OBVIOUS
<1> USE AskedGrows
<1>1. ASSUME NEW content \in InPlay \cup {Absent, Empty, Torn} PROVE Honest(content)'
  BY VerifiesIsList DEF HonestLists, Honest
<1>2. \A content \in InPlay' : Honest(content)'
  <2>1. CASE \A p \in Procs : ~ ReadList(p)
    BY <1>1, <2>1, NothingAppears
  <2>2. ASSUME NEW p \in Procs, ReadList(p)
        PROVE  \A content \in InPlay' : Honest(content)'
    <3>1. CASE Exit(p)
      <4>1. InPlay' \subseteq InPlay \cup {Absent}
        BY <2>2, <3>1, ReadListCases DEF Exit, InPlay, Typed, CmdFits
      <4> QED BY <1>1, <4>1
    <3>2. CASE ~ Exit(p)
      <4> DEFINE old == file[cmd[p].path]
      <4>0. PICK new : new = Extended(old, cmd[p].issuer, cmd[p].cap)
        OBVIOUS
      <4>1. /\ Fresh(old) \/ Extends(old, cmd[p].issuer)
            /\ UNCHANGED <<file, slot, net>> /\ list' = [list EXCEPT ![p] = new]
        BY <2>2, <3>2, <4>0, ReadListCases
      <4>2. /\ new.public_key = cmd[p].issuer
            /\ new.revoked = (IF Fresh(old) THEN {} ELSE old.revoked) \cup {cmd[p].cap}
        BY <2>2, <4>0, <4>1, ReadListCases, ExtendedList
      <4>3. old \in InPlay
        BY <2>2, ReadListCases, PathsCovered DEF InPlay
      <4>4. cmd[p].cap \in asked' /\ cmd[p].cap.public_key = cmd[p].issuer
        BY <2>2 DEF HonestLists, ReadList
      <4>5. ~ Fresh(old) => /\ old.revoked \subseteq asked'
                            /\ \A c \in old.revoked : c.public_key = cmd[p].issuer
        BY <4>1, <4>3 DEF Extends, HonestLists, Honest
      <4> HIDE DEF old
      <4>6. Honest(new)'
        BY <4>2, <4>4, <4>5 DEF Honest
      <4>7. InPlay' \subseteq InPlay \cup {new}
        BY <4>1 DEF InPlay, Typed, CmdFits
      <4> QED BY <1>1, <4>6, <4>7
    <3> QED BY <3>1, <3>2
  <2> QED BY <2>1, <2>2
<1>3. ASSUME NEW p \in Procs, pc'[p] = "readList"
      PROVE  cmd'[p].cap \in asked' /\ cmd'[p].cap.public_key = cmd'[p].issuer
  <2>1. CASE pc[p] = "readList" /\ cmd'[p] = cmd[p]
    BY <2>1 DEF HonestLists
  <2>2. CASE StartRevoke(p)
    BY <2>2 DEF StartRevoke, Start, Typed, CmdFits
  <2>3. (pc[p] = "readList" /\ cmd'[p] = cmd[p]) \/ StartRevoke(p)
    <3> USE <1>3 DEF Typed, TypeOK, CmdFits, Goto
    <3>1. ASSUME NEW q \in Procs, Command(q) \/ Kill(q)
          PROVE  (pc[p] = "readList" /\ cmd'[p] = cmd[p]) \/ StartRevoke(p)
      <4>1. CASE StartPublish(q) \/ StartFetch(q)
        BY <4>1 DEF StartPublish, StartFetch, Start
      <4>2. CASE StartRevoke(q)
        <5>1. PICK args : /\ pc' = [pc EXCEPT ![q] = "readList"]
                          /\ cmd' = [cmd EXCEPT ![q] = args]
          BY <4>2 DEF StartRevoke, Start
        <5>2. q # p => pc'[p] = pc[p] /\ cmd'[p] = cmd[p]
          BY <5>1
        <5> QED BY <4>2, <5>2
      <4>3. CASE Exit(q)
        BY <4>3 DEF Exit
      <4>4. CASE ReadList(q) \/ Get(q)
        BY <4>3, <4>4 DEF ReadList, Get
      <4>5. CASE Truncate(q)
        BY <4>5 DEF Truncate
      <4>6. CASE Write(q) \/ Kill(q)
        BY <4>3, <4>6 DEF Write, Kill
      <4>7. CASE VerifyList(q) \/ Post(q)
        BY <4>3, <4>7 DEF VerifyList, Post
      <4>8. CASE EndPublish(q)
        BY <4>3, <4>8 DEF EndPublish
      <4> QED BY <3>1, <4>1, <4>2, <4>4, <4>5, <4>6, <4>7, <4>8 DEF Command
    <3>2. CASE Server
      BY <3>2 DEF Server, Store, Refuse, Drop, Answered
    <3>3. CASE UNCHANGED vars
      BY <3>3 DEF vars, progVars
    <3> QED BY <3>1, <3>2, <3>3 DEF Next
  <2> QED BY <2>1, <2>2, <2>3
<1> QED BY <1>2, <1>3 DEF HonestLists

\* Whatever list anyone can verify, in a file, in the registry or on its way
\* there, revokes only what its own issuer was asked to revoke.
THEOREM OnlyAskedIsRevoked == Spec => []OnlyAskedRevoked
<1>1. HonestLists => OnlyAskedRevoked
  BY DEF HonestLists, Honest, InPlay, OnlyAskedRevoked
<1> QED BY <1>1, TypedInit, TypedStep, HonestInit, HonestStep, PTL DEF Spec

-----------------------------------------------------------------------------
(* Whose list a copy is.                                                   *)

\* The slots hold lists of their issuers, and what is about to be written to
\* a copy is the list of the issuer asked for.
CopiesHeld ==
    /\ \A i \in Issuers : slot[i] # Absent => Verifies(slot[i]) /\ slot[i].public_key = i
    /\ \A p \in Procs : pc[p] \in {"truncate", "write"} /\ cmd[p].path \in Copies =>
          list[p].public_key = cmd[p].issuer
    /\ CopiesFromIssuer

LEMMA CopiesStep == Typed /\ CopiesHeld /\ [Next]_vars => CopiesHeld'
<1> SUFFICES ASSUME Typed, CopiesHeld, [Next]_vars PROVE CopiesHeld'
  OBVIOUS
<1> USE DEF Typed, TypeOK, CmdFits, runVars, histVars, Goto
<1>1. ASSUME NEW p \in Procs, StartRevoke(p) \/ StartPublish(p) \/ StartFetch(p)
      PROVE  CopiesHeld'
  <2>1. PICK step, args :
            /\ pc' = [pc EXCEPT ![p] = step] /\ step \notin {"truncate", "write"}
            /\ cmd' = [cmd EXCEPT ![p] = args]
            /\ UNCHANGED <<file, slot, list, copyOf>>
    BY <1>1, Starts DEF Started
  <2> QED BY <2>1 DEF CopiesHeld, CopiesFromIssuer
<1>2. ASSUME NEW p \in Procs, ReadList(p)
      PROVE  CopiesHeld'
  BY <1>2, ReadListCases, PathsCovered DEF Exit, CopiesHeld, CopiesFromIssuer
<1>3. ASSUME NEW p \in Procs, VerifyList(p) \/ Post(p) \/ EndPublish(p)
      PROVE  CopiesHeld'
  BY <1>3 DEF VerifyList, Post, EndPublish, Exit, CopiesHeld, CopiesFromIssuer
<1>4. ASSUME NEW p \in Procs, Truncate(p)
      PROVE  CopiesHeld'
  BY <1>4, VerifiesIsList, PathsCovered DEF Truncate, CopiesHeld, CopiesFromIssuer
<1>5. ASSUME NEW p \in Procs, Write(p)
      PROVE  CopiesHeld'
  <2>1. PICK content \in Overwritten(file[cmd[p].path], list[p]) :
            file' = [file EXCEPT ![cmd[p].path] = content]
    BY <1>5 DEF Write
  <2>2. content \in {list[p], Torn}
    BY OverwrittenBy
  <2>3. UNCHANGED slot /\ Exit(p)
    BY <1>5 DEF Write
  <2>4. cmd[p].path \in Copies =>
            list[p].public_key = cmd[p].issuer /\ copyOf' = [copyOf EXCEPT ![cmd[p].path] = cmd[p].issuer]
    BY <1>5, PathsCovered DEF Write, CopiesHeld
  <2>5. cmd[p].path \notin Copies => cmd[p].path \in Lists /\ UNCHANGED copyOf
    BY <1>5, PathsCovered DEF Write, Revoking, Fetching
  <2>6. CopiesFromIssuer'
    BY <2>1, <2>2, <2>4, <2>5, VerifiesIsList, PathsCovered DEF CopiesFromIssuer, CopiesHeld
  <2> QED BY <2>3, <2>6 DEF Exit, CopiesHeld
<1>6. ASSUME NEW p \in Procs, Get(p)
      PROVE  CopiesHeld'
  <2>1. cmd[p].issuer \in Issuers
    BY <1>6 DEF Get, Fetching
  <2> QED BY <1>6, <2>1, VerifiesIsList DEF Get, Exit, CopiesHeld, CopiesFromIssuer
<1>7. ASSUME NEW p \in Procs, Kill(p)
      PROVE  CopiesHeld'
  BY <1>7 DEF Kill, Exit, CopiesHeld, CopiesFromIssuer
<1>8. ASSUME Server PROVE CopiesHeld'
  <2>1. PICK m \in net : Store(m) \/ Refuse(m) \/ Drop(m)
    BY <1>8 DEF Server
  <2>2. m.issuer \in Issuers
    BY DEF Requests
  <2> QED BY <2>1, <2>2 DEF Store, Refuse, Drop, Answered, Accepts, CopiesHeld, CopiesFromIssuer
<1>9. CASE UNCHANGED vars
  BY <1>9 DEF vars, progVars, CopiesHeld, CopiesFromIssuer
<1> QED BY <1>1, <1>2, <1>3, <1>4, <1>5, <1>6, <1>7, <1>8, <1>9 DEF Next, Command

\* A copy that can be read is the list of the issuer it was fetched for: the
\* registry's check of the path makes up for the one the client leaves out.
THEOREM CopiesAreTheIssuers == Spec => []CopiesFromIssuer
<1>1. Init => CopiesHeld
  BY VerifiesIsList DEF Init, CopiesHeld, CopiesFromIssuer
<1>2. CopiesHeld => CopiesFromIssuer
  BY DEF CopiesHeld
<1> QED BY <1>1, <1>2, TypedInit, TypedStep, CopiesStep, PTL DEF Spec

-----------------------------------------------------------------------------
(* Commands that are alone.                                                *)

\* What revoke reports in a file is in it, or is about to be.
Refuses(content, caps) == \A c \in caps : ~ Admits(content, c.public_key, c)

\* Nothing is reported in a file that is not there.
ReportsInFiles == \A f \in Lists : file[f] = Absent => reported[f] = {}

\* At most one command is at work.
OneAtWork == \A p, q \in Procs : pc[p] # "idle" /\ pc[q] # "idle" => p = q

Writing(p, f) == pc[p] \in {"truncate", "write"} /\ cmd[p].path = f

\* The list about to be written revokes what the file is reported to.
ReportsKept ==
    /\ \A f \in Lists : Refuses(file[f], reported[f])
    /\ \A p \in Procs, f \in Lists : Writing(p, f) =>
          /\ Refuses(list[p], reported[f])
          /\ cmd[p].cap \in list[p].revoked

\* The request on its way holds what is in the published file.
RequestCurrent ==
    /\ \A m \in net : m.bytes = file[Published]
    /\ \A m, n \in net : m = n
    /\ net # {} => \A p \in Procs : pc[p] \in {"idle", "wait"}
    /\ \A p \in Procs :
          pc[p] \in {"verifyList", "post", "wait", "stored", "refused"} =>
              cmd[p].path = Published

Below(i, content) ==
    slot[i] # Absent /\ Verifies(content) /\ content.public_key = i =>
        slot[i].revoked \subseteq content.revoked

\* The registry's lists are behind the published file, and behind the list
\* about to be written to it.
SlotsBehind ==
    \A i \in Issuers :
        /\ slot[i] # Absent => file[Published] # Absent
        /\ Below(i, file[Published])
        /\ \A p \in Procs : Writing(p, Published) => Below(i, list[p])

\* What was reported as published is in the registry.
PublishedStored ==
    /\ \A c \in published : slot[c.public_key] # Absent /\ c \in slot[c.public_key].revoked
    /\ \A p \in Procs : pc[p] = "stored" => slot[list[p].public_key] = list[p]

Orderly ==
    OneAtWork /\ ReportsKept /\ RequestCurrent /\ SlotsBehind /\ PublishedStored

OInv ==
    /\ Typed /\ HonestLists /\ CopiesHeld /\ ReportsInFiles
    /\ orderly => Orderly

LEMMA ReportsStep == Typed /\ ReportsInFiles /\ [Next]_vars => ReportsInFiles'
<1> SUFFICES ASSUME Typed, ReportsInFiles, [Next]_vars PROVE ReportsInFiles'
  OBVIOUS
<1> USE DEF Typed, TypeOK, CmdFits, runVars, histVars
<1>1. ASSUME NEW p \in Procs, StartRevoke(p) \/ StartPublish(p) \/ StartFetch(p)
      PROVE  ReportsInFiles'
  <2>1. UNCHANGED <<file, reported>>
    BY <1>1, Starts DEF Started
  <2> QED BY <2>1 DEF ReportsInFiles
<1>2. ASSUME NEW p \in Procs,
             ReadList(p) \/ VerifyList(p) \/ Post(p) \/ EndPublish(p) \/ Get(p) \/ Kill(p)
      PROVE  ReportsInFiles'
  BY <1>2 DEF ReadList, VerifyList, Post, EndPublish, Get, Kill, ReportsInFiles
<1>3. ASSUME NEW p \in Procs, Truncate(p)
      PROVE  ReportsInFiles'
  BY <1>3, ContentAssumption DEF Truncate, ReportsInFiles
<1>4. ASSUME NEW p \in Procs, Write(p)
      PROVE  ReportsInFiles'
  <2>1. PICK content \in Overwritten(file[cmd[p].path], list[p]) :
            file' = [file EXCEPT ![cmd[p].path] = content]
    BY <1>4 DEF Write
  <2>2. content # Absent
    BY <1>4, OverwrittenBy, VerifiesIsList, ContentAssumption DEF Write
  <2>3. cmd[p].path \in Paths
    BY <1>4, PathsCovered DEF Write, Revoking, Fetching
  <2>4. \A f \in Lists : f # cmd[p].path => reported'[f] = reported[f]
    BY <1>4 DEF Write
  <2> QED BY <2>1, <2>2, <2>3, <2>4, PathsCovered DEF ReportsInFiles
<1>5. CASE Server
  BY <1>5 DEF Server, Store, Refuse, Drop, Answered, ReportsInFiles
<1>6. CASE UNCHANGED vars
  BY <1>6 DEF vars, ReportsInFiles
<1> QED BY <1>1, <1>2, <1>3, <1>4, <1>5, <1>6 DEF Next, Command

LEMMA OrderlyStart ==
    ASSUME OInv, orderly', NEW p \in Procs,
           StartRevoke(p) \/ StartPublish(p) \/ StartFetch(p)
    PROVE  Orderly'
<1>1. PICK step, args : Started(p, step, args)
  BY Starts DEF OInv
<1>2. /\ Orderly /\ net = {} /\ \A q \in Procs : pc[q] = "idle"
      /\ step = "verifyList" => args.path = Published
      /\ step \in {"readList", "verifyList", "get"}
  BY <1>1 DEF Started, Alone, OInv
<1> USE <1>1, <1>2 DEF OInv, Typed, TypeOK, CmdFits, Started, Orderly
<1>3. OneAtWork'
  BY DEF OneAtWork
<1>4. ReportsKept'
  BY DEF ReportsKept, Writing, Refuses
<1>5. RequestCurrent'
  BY DEF RequestCurrent
<1>6. SlotsBehind'
  BY DEF SlotsBehind, Writing, Below
<1>7. PublishedStored'
  BY DEF PublishedStored
<1> QED BY <1>3, <1>4, <1>5, <1>6, <1>7

\* Steps that only the command of p is concerned with, and that end it.
LEMMA OrderlyExit ==
    ASSUME Typed, Orderly, NEW p \in Procs, Exit(p), pc[p] # "idle",
           UNCHANGED <<file, slot, reported, published>>,
           \A m \in net' : \E n \in net : m.bytes = n.bytes,
           \A m, n \in net' : m = n,
           net' # {} => net # {}
    PROVE  Orderly'
<1> USE DEF Typed, TypeOK, CmdFits, Exit, Goto, Orderly
<1>1. OneAtWork'
  BY DEF OneAtWork
<1>2. ReportsKept'
  BY DEF ReportsKept, Writing, Refuses
<1>3. RequestCurrent'
  BY DEF RequestCurrent
<1>4. SlotsBehind'
  BY DEF SlotsBehind, Writing, Below
<1>5. PublishedStored'
  BY DEF PublishedStored
<1> QED BY <1>1, <1>2, <1>3, <1>4, <1>5

LEMMA OrderlyReadList ==
    ASSUME Typed, ReportsInFiles, Orderly, NEW p \in Procs, ReadList(p)
    PROVE  Orderly'
<1> USE DEF Typed, TypeOK, CmdFits, histVars, runVars, Goto, Orderly
<1>1. CASE Exit(p)
  <2>1. /\ UNCHANGED <<file, slot, reported, published, net>> /\ pc[p] # "idle"
    BY ReadListCases
  <2> QED BY <1>1, <2>1, OrderlyExit DEF RequestCurrent
<1>2. CASE ~ Exit(p)
  <2> DEFINE f == cmd[p].path
             old == file[f]
             i == cmd[p].issuer
  <2>1. PICK new : new = Extended(old, i, cmd[p].cap)
    OBVIOUS
  <2>2. /\ pc[p] = "readList" /\ f \in Lists /\ cmd[p].cap \in Capability /\ i \in Issuers
        /\ old \in Content /\ UNCHANGED <<file, slot, net, reported, published, cmd>>
        /\ Fresh(old) \/ Extends(old, i)
        /\ list' = [list EXCEPT ![p] = new] /\ pc' = [pc EXCEPT ![p] = "truncate"]
    BY <1>2, <2>1, ReadListCases
  <2>3. /\ new \in List /\ Verifies(new) /\ new.public_key = i
        /\ new.revoked = (IF Fresh(old) THEN {} ELSE old.revoked) \cup {cmd[p].cap}
    BY <2>1, <2>2, ExtendedList
  <2>4. \A q \in Procs : q # p => pc[q] = "idle"
    BY <2>2 DEF OneAtWork
  <2>5. OneAtWork'
    BY <2>2 DEF OneAtWork
  <2>6. ReportsKept'
    <3>1. Refuses(new, reported[f])
      <4>1. CASE Fresh(old)
        BY <2>2, <4>1 DEF Fresh, ReportsInFiles, Refuses
      <4>2. CASE ~ Fresh(old)
        <5>1. Verifies(old) /\ old.public_key = i /\ old.revoked \subseteq new.revoked
          BY <2>2, <2>3, <4>2 DEF Extends
        <5>2. Refuses(old, reported[f])
          BY <2>2 DEF ReportsKept
        <5> QED BY <2>3, <5>1, <5>2 DEF Refuses, Admits, Revokes
      <4> QED BY <4>1, <4>2
    <3>2. cmd[p].cap \in new.revoked
      BY <2>3
    <3> QED BY <2>2, <2>4, <3>1, <3>2 DEF ReportsKept, Writing, Refuses
  <2>7. RequestCurrent'
    BY <2>2 DEF RequestCurrent
  <2>8. SlotsBehind'
    <3>1. ASSUME f = Published, NEW j \in Issuers PROVE Below(j, new)
      <4>1. CASE Fresh(old)
        BY <3>1, <4>1 DEF Fresh, SlotsBehind, Below
      <4>2. CASE ~ Fresh(old)
        BY <2>2, <2>3, <3>1, <4>2 DEF Extends, SlotsBehind, Below
      <4> QED BY <4>1, <4>2
    <3>2. \A j \in Issuers : \A c : Below(j, c)' <=> Below(j, c)
      BY <2>2 DEF Below
    <3> QED BY <2>2, <2>4, <3>1, <3>2 DEF SlotsBehind, Writing
  <2>9. PublishedStored'
    BY <2>2 DEF PublishedStored
  <2> QED BY <2>5, <2>6, <2>7, <2>8, <2>9
<1> QED BY <1>1, <1>2

LEMMA OrderlyWriting ==
    ASSUME Typed, Orderly, NEW p \in Procs, Truncate(p) \/ Write(p)
    PROVE  Orderly'
<1> USE DEF Typed, TypeOK, CmdFits, histVars, runVars, Goto, Orderly
<1> DEFINE f == cmd[p].path
<1>1. /\ cmd[p] \in Revoking \cup Fetching /\ f \in Paths /\ Verifies(list[p])
      /\ pc[p] \in {"truncate", "write"} /\ UNCHANGED <<slot, net, published>>
  BY PathsCovered DEF Truncate, Write, Revoking, Fetching
<1>2. net = {} /\ \A q \in Procs : q # p => pc[q] = "idle"
  BY <1>1 DEF RequestCurrent, OneAtWork
<1>3. \A g \in Lists : g = f =>
          Refuses(list[p], reported[g]) /\ cmd[p].cap \in list[p].revoked
  BY <1>1 DEF ReportsKept, Writing
<1>4. f = Published => \A i \in Issuers : Below(i, list[p])
  BY <1>1 DEF SlotsBehind, Writing
<1>5. \A i \in Issuers : \A c : Below(i, c)' <=> Below(i, c)
  BY <1>1 DEF Below
<1>6. CASE Truncate(p)
  <2>1. /\ file' = [file EXCEPT ![f] = Empty] /\ UNCHANGED <<cmd, list, reported>>
        /\ pc' = [pc EXCEPT ![p] = "write"] /\ pc[p] = "truncate"
    BY <1>6 DEF Truncate
  <2>2. OneAtWork'
    BY <2>1 DEF OneAtWork
  <2>3. ReportsKept'
    <3>1. \A g \in Lists : Refuses(file'[g], reported[g])
      BY <1>1, <2>1, VerifiesIsList, PathsCovered DEF ReportsKept, Refuses, Admits
    <3>2. \A q \in Procs, g \in Lists : Writing(q, g)' => Writing(q, g)
      BY <2>1 DEF Writing
    <3> QED BY <2>1, <3>1, <3>2 DEF ReportsKept, Refuses
  <2>4. RequestCurrent'
    BY <1>1, <1>2, <2>1 DEF RequestCurrent
  <2>5. SlotsBehind'
    <3>1. \A i \in Issuers : Below(i, file'[Published])
      BY <1>1, <2>1, VerifiesIsList, PathsCovered DEF SlotsBehind, Below
    <3>2. \A q \in Procs : Writing(q, Published)' => Writing(q, Published)
      BY <2>1 DEF Writing
    <3>3. \A i \in Issuers : slot[i] # Absent => file'[Published] # Absent
      BY <1>1, <2>1, ContentAssumption, PathsCovered DEF SlotsBehind
    <3> QED BY <1>1, <1>5, <2>1, <3>1, <3>2, <3>3 DEF SlotsBehind
  <2>6. PublishedStored'
    BY <1>1, <2>1 DEF PublishedStored
  <2> QED BY <2>2, <2>3, <2>4, <2>5, <2>6
<1>7. CASE Write(p)
  <2>1. PICK content \in Overwritten(file[f], list[p]) :
            file' = [file EXCEPT ![f] = content]
    BY <1>7 DEF Write
  <2>2. content \in {list[p], Torn} /\ content # Absent
    BY <1>1, <2>1, OverwrittenBy, VerifiesIsList, ContentAssumption
  <2>3. /\ pc' = [pc EXCEPT ![p] = "idle"] /\ list' = [list EXCEPT ![p] = Absent]
        /\ \A q \in Procs : pc'[q] = "idle"
    BY <1>2, <1>7 DEF Write, Exit
  <2>4. OneAtWork'
    BY <2>3 DEF OneAtWork
  <2>5. ReportsKept'
    <3>1. ASSUME NEW g \in Lists PROVE Refuses(file'[g], reported'[g])
      <4>1. CASE g = f
        <5>1. reported'[g] = reported[g] \cup {cmd[p].cap}
          BY <1>7, <4>1 DEF Write
        <5>2. CASE content = list[p]
          BY <1>1, <1>3, <2>1, <4>1, <5>1, <5>2 DEF Refuses, Admits, Revokes
        <5>3. CASE content = Torn
          BY <1>1, <2>1, <4>1, <5>3, VerifiesIsList DEF Refuses, Admits
        <5> QED BY <2>2, <5>2, <5>3
      <4>2. CASE g # f
        <5>1. reported'[g] = reported[g] /\ file'[g] = file[g]
          BY <1>7, <2>1, <4>2, PathsCovered DEF Write
        <5> QED BY <5>1 DEF ReportsKept, Refuses
      <4> QED BY <4>1, <4>2
    <3> QED BY <2>3, <3>1 DEF ReportsKept, Writing, Refuses
  <2>6. RequestCurrent'
    BY <1>1, <1>2, <2>3 DEF RequestCurrent
  <2>7. SlotsBehind'
    <3>1. \A i \in Issuers : Below(i, file'[Published])
      BY <1>1, <1>4, <2>1, <2>2, VerifiesIsList, PathsCovered DEF SlotsBehind, Below
    <3>2. \A i \in Issuers : slot[i] # Absent => file'[Published] # Absent
      BY <1>1, <2>1, <2>2, PathsCovered DEF SlotsBehind
    <3> QED BY <1>1, <1>5, <2>3, <3>1, <3>2 DEF SlotsBehind, Writing
  <2>8. PublishedStored'
    BY <1>1, <2>3 DEF PublishedStored
  <2> QED BY <2>4, <2>5, <2>6, <2>7, <2>8
<1> QED BY <1>6, <1>7

LEMMA OrderlyPublishing ==
    ASSUME Typed, HonestLists, Orderly, NEW p \in Procs,
           VerifyList(p) \/ Post(p) \/ EndPublish(p)
    PROVE  Orderly'
<1> USE DEF Typed, TypeOK, CmdFits, histVars, runVars, Goto, Orderly
<1>1. CASE VerifyList(p)
  <2>1. CASE Exit(p)
    BY <1>1, <2>1, OrderlyExit DEF VerifyList, RequestCurrent
  <2>2. CASE ~ Exit(p)
    <3>1. /\ cmd[p] \in Naming /\ pc[p] = "verifyList"
          /\ UNCHANGED <<file, slot, net, list, reported, published>>
          /\ pc' = [pc EXCEPT ![p] = "post"]
          /\ cmd' = [cmd EXCEPT ![p].issuer = file[cmd[p].path].public_key]
      BY <1>1, <2>2 DEF VerifyList
    <3>2. cmd'[p].path = cmd[p].path /\ \A q \in Procs : q # p => cmd'[q] = cmd[q]
      BY <3>1 DEF Naming
    <3>3. OneAtWork' /\ PublishedStored'
      BY <3>1 DEF OneAtWork, PublishedStored
    <3>4. RequestCurrent'
      BY <3>1, <3>2 DEF RequestCurrent
    <3>5. \A q \in Procs, f \in Paths : Writing(q, f)' => q # p /\ Writing(q, f)
      BY <3>1, <3>2 DEF Writing
    <3>6. ReportsKept'
      BY <3>1, <3>2, <3>5, PathsCovered DEF ReportsKept, Refuses
    <3>7. SlotsBehind'
      BY <3>1, <3>2, <3>5, PathsCovered DEF SlotsBehind, Below
    <3> QED BY <3>3, <3>4, <3>6, <3>7
  <2> QED BY <2>1, <2>2
<1>2. CASE Post(p)
  <2> DEFINE m == [from |-> p, issuer |-> cmd[p].issuer, bytes |-> file[cmd[p].path]]
  <2>1. net' = net \cup {m} /\ m.bytes = file[cmd[p].path]
    BY <1>2 DEF Post
  <2> HIDE DEF m
  <2>2. /\ pc[p] = "post" /\ pc' = [pc EXCEPT ![p] = "wait"]
        /\ list' = [list EXCEPT ![p] = file[cmd[p].path]]
        /\ UNCHANGED <<file, slot, cmd, reported, published>>
    BY <1>2 DEF Post
  <2>3. net = {} /\ cmd[p].path = Published /\ \A q \in Procs : q # p => pc[q] = "idle"
    BY <2>2 DEF RequestCurrent, OneAtWork
  <2>4. OneAtWork' /\ PublishedStored'
    BY <2>2, <2>3 DEF OneAtWork, PublishedStored
  <2>5. RequestCurrent'
    BY <2>1, <2>2, <2>3 DEF RequestCurrent
  <2>6. ReportsKept'
    BY <2>2, <2>3 DEF ReportsKept, Writing, Refuses
  <2>7. SlotsBehind'
    BY <2>2, <2>3 DEF SlotsBehind, Writing, Below
  <2> QED BY <2>4, <2>5, <2>6, <2>7
<1>3. CASE EndPublish(p)
  <2>1. /\ Exit(p) /\ pc[p] \in {"stored", "refused"}
        /\ UNCHANGED <<file, slot, net, reported>>
    BY <1>3 DEF EndPublish
  <2>2. OneAtWork'
    BY <2>1 DEF OneAtWork, Exit
  <2>3. ReportsKept'
    BY <2>1 DEF ReportsKept, Writing, Refuses, Exit
  <2>4. RequestCurrent'
    BY <2>1 DEF RequestCurrent, Exit
  <2>5. SlotsBehind'
    BY <2>1 DEF SlotsBehind, Writing, Below, Exit
  <2>6. ASSUME NEW c \in published'
        PROVE  slot[c.public_key] # Absent /\ c \in slot[c.public_key].revoked
    <3>1. CASE c \in published
      BY <3>1 DEF PublishedStored
    <3>2. CASE c \notin published
      <4>1. pc[p] = "stored" /\ c \in list[p].revoked
        BY <1>3, <3>2 DEF EndPublish
      <4>2. Verifies(list[p]) /\ list[p] \in InPlay
        BY <4>1 DEF SentFits, InPlay
      <4>3. c.public_key = list[p].public_key
        BY <4>1, <4>2 DEF HonestLists, Honest
      <4> QED BY <4>1, <4>2, <4>3, VerifiesIsList DEF PublishedStored
    <3> QED BY <3>1, <3>2
  <2>7. PublishedStored'
    BY <2>1, <2>6 DEF PublishedStored, Exit
  <2> QED BY <2>2, <2>3, <2>4, <2>5, <2>7
<1> QED BY <1>1, <1>2, <1>3

LEMMA OrderlyGet ==
    ASSUME Typed, Orderly, NEW p \in Procs, Get(p)
    PROVE  Orderly'
<1> USE DEF Typed, TypeOK, CmdFits, histVars, runVars, Goto, Orderly
<1>1. CASE Exit(p)
  BY <1>1, OrderlyExit DEF Get, RequestCurrent
<1>2. CASE ~ Exit(p)
  <2>1. /\ pc[p] = "get" /\ pc' = [pc EXCEPT ![p] = "truncate"]
        /\ list' = [list EXCEPT ![p] = slot[cmd[p].issuer]]
        /\ UNCHANGED <<file, slot, net, cmd, reported, published>>
    BY <1>2 DEF Get
  <2>2. cmd[p].path \in Copies /\ \A q \in Procs : q # p => pc[q] = "idle"
    BY <2>1 DEF OneAtWork, Fetching
  <2>3. OneAtWork' /\ PublishedStored'
    BY <2>1, <2>2 DEF OneAtWork, PublishedStored
  <2>4. \A q \in Procs, f \in Lists : ~ Writing(q, f)'
    BY <2>1, <2>2, PathsCovered DEF Writing
  <2>5. ReportsKept'
    BY <2>1, <2>4 DEF ReportsKept, Refuses
  <2>6. RequestCurrent'
    BY <2>1 DEF RequestCurrent
  <2>7. SlotsBehind'
    BY <2>1, <2>4, PathsCovered DEF SlotsBehind, Below
  <2> QED BY <2>3, <2>5, <2>6, <2>7
<1> QED BY <1>1, <1>2

LEMMA OrderlyKill ==
    ASSUME Typed, Orderly, NEW p \in Procs, Kill(p)
    PROVE  Orderly'
<1>1. /\ Exit(p) /\ pc[p] # "idle" /\ UNCHANGED <<file, slot, reported, published>>
  BY DEF Kill, histVars
<1>2. \A m, n \in net : m = n
  BY DEF Orderly, RequestCurrent
<1>3. /\ \A m \in net' : \E n \in net : m.bytes = n.bytes
      /\ \A m, n \in net' : m = n
  BY <1>2, Orphaned
<1> QED BY <1>1, <1>3, OrderlyExit

\* A request the registry stores takes the slot of its issuer to what the
\* published file holds, which is no less than was there.
LEMMA OrderlyStore ==
    ASSUME Typed, CopiesHeld, Orderly, NEW m \in net, Store(m)
    PROVE  /\ Orderly'
           /\ \A i \in Issuers : slot[i] # Absent => slot[i].revoked \subseteq slot'[i].revoked
<1> USE DEF Typed, TypeOK, CmdFits, histVars, runVars, Orderly
<1>1. /\ m \in Requests /\ m.issuer \in Issuers
      /\ Verifies(m.bytes) /\ m.bytes \in List /\ m.bytes.public_key = m.issuer
      /\ slot' = [slot EXCEPT ![m.issuer] = m.bytes] /\ net' = net \ {m}
      /\ pc' = [p \in Procs |-> IF p = m.from THEN "stored" ELSE pc[p]]
      /\ UNCHANGED <<file, cmd, list, reported, published>>
  BY VerifiesIsList DEF Store, Accepts, Answered, Requests
<1>2. m.bytes = file[Published] /\ net' = {} /\ \A p \in Procs : pc[p] \in {"idle", "wait"}
  BY <1>1 DEF RequestCurrent
<1>3. slot[m.issuer] # Absent => slot[m.issuer].revoked \subseteq m.bytes.revoked
  BY <1>1, <1>2 DEF SlotsBehind, Below
<1>4. \A i \in Issuers : slot[i] # Absent => slot[i].revoked \subseteq slot'[i].revoked
  BY <1>1, <1>3
<1>5. \A p \in Procs : p = m.from => pc[p] = "wait" /\ list[p] = m.bytes
  BY <1>1 DEF SentFits
<1>6. OneAtWork'
  BY <1>1, <1>5 DEF OneAtWork
<1>7. \A p \in Procs, f \in Paths : ~ Writing(p, f)'
  BY <1>1, <1>2 DEF Writing
<1>8. ReportsKept'
  BY <1>1, <1>7, PathsCovered DEF ReportsKept, Refuses
<1>9. RequestCurrent'
  BY <1>1, <1>2, <1>5 DEF RequestCurrent
<1>10. SlotsBehind'
  <2>1. \A i \in Issuers : slot'[i] # Absent => file[Published] # Absent
    BY <1>1, <1>2, VerifiesIsList DEF SlotsBehind
  <2>2. \A i \in Issuers : Below(i, file[Published])'
    BY <1>1, <1>2 DEF SlotsBehind, Below
  <2> QED BY <1>1, <1>7, <2>1, <2>2, PathsCovered DEF SlotsBehind
<1>11. PublishedStored'
  <2>1. ASSUME NEW c \in published
        PROVE  slot'[c.public_key] # Absent /\ c \in slot'[c.public_key].revoked
    <3>1. c.public_key \in Issuers
      BY DEF Capability
    <3>2. slot[c.public_key] # Absent /\ c \in slot[c.public_key].revoked
      BY DEF PublishedStored
    <3> QED BY <1>1, <1>3, <3>1, <3>2, VerifiesIsList
  <2>2. ASSUME NEW p \in Procs, pc'[p] = "stored" PROVE slot'[list[p].public_key] = list[p]
    BY <1>1, <1>2, <1>5, <2>2
  <2> QED BY <1>1, <2>1, <2>2 DEF PublishedStored
<1> QED BY <1>4, <1>6, <1>8, <1>9, <1>10, <1>11

LEMMA OrderlyServer == ASSUME Typed, CopiesHeld, Orderly, Server PROVE Orderly'
<1>1. PICK m \in net : Store(m) \/ Refuse(m) \/ Drop(m)
  BY DEF Server
<1>2. CASE Refuse(m) \/ Drop(m)
  <2> USE DEF Typed, TypeOK, CmdFits, histVars, runVars, Orderly
  <2>1. /\ net' = net \ {m} /\ UNCHANGED <<slot, file, cmd, list, reported, published>>
        /\ pc' = [p \in Procs |-> IF p = m.from THEN "refused" ELSE pc[p]]
    BY <1>2 DEF Refuse, Drop, Answered
  <2>2. \A p \in Procs : p = m.from => pc[p] = "wait"
    BY DEF SentFits
  <2>3. OneAtWork' /\ PublishedStored'
    BY <2>1, <2>2 DEF OneAtWork, PublishedStored
  <2>4. RequestCurrent'
    BY <2>1, <2>2 DEF RequestCurrent
  <2>5. \A p \in Procs, f \in Paths : Writing(p, f)' => Writing(p, f)
    BY <2>1 DEF Writing
  <2>6. ReportsKept'
    BY <2>1, <2>5, PathsCovered DEF ReportsKept, Refuses
  <2>7. SlotsBehind'
    BY <2>1, <2>5, PathsCovered DEF SlotsBehind, Below
  <2> QED BY <2>3, <2>4, <2>6, <2>7
<1> QED BY <1>1, <1>2, OrderlyStore

LEMMA OrderlyInit == Init => OInv
<1> SUFFICES ASSUME Init PROVE OInv
  OBVIOUS
<1>1. CopiesHeld /\ ReportsInFiles
  BY VerifiesIsList DEF Init, CopiesHeld, CopiesFromIssuer, ReportsInFiles
<1>2. Orderly
  <2>1. \A f \in Paths : ~ Verifies(file[f])
    BY VerifiesIsList DEF Init, Forged, Verifies
  <2>2. OneAtWork /\ RequestCurrent /\ PublishedStored
    BY DEF Init, OneAtWork, RequestCurrent, PublishedStored
  <2>3. ReportsKept
    BY <2>1 DEF Init, ReportsKept, Refuses, Writing
  <2>4. SlotsBehind
    BY <2>1 DEF Init, SlotsBehind, Below, Writing
  <2> QED BY <2>2, <2>3, <2>4 DEF Orderly
<1> QED BY <1>1, <1>2, TypedInit, HonestInit DEF OInv

LEMMA OrderlyStep == OInv /\ [Next]_vars => OInv'
<1> SUFFICES ASSUME OInv, [Next]_vars PROVE OInv'
  OBVIOUS
<1>1. Typed' /\ HonestLists' /\ CopiesHeld' /\ ReportsInFiles'
  BY TypedStep, HonestStep, CopiesStep, ReportsStep DEF OInv
<1>2. ASSUME orderly' PROVE Orderly'
  <2>1. ASSUME NEW p \in Procs, StartRevoke(p) \/ StartPublish(p) \/ StartFetch(p)
        PROVE  Orderly'
    BY <1>2, <2>1, OrderlyStart
  <2>2. ASSUME NEW p \in Procs,
               \/ ReadList(p) \/ Truncate(p) \/ Write(p)
               \/ VerifyList(p) \/ Post(p) \/ EndPublish(p) \/ Get(p) \/ Kill(p)
        PROVE  Orderly'
    <3>1. UNCHANGED orderly
      BY <2>2 DEF ReadList, Truncate, Write, VerifyList, Post, EndPublish, Get, Kill, runVars
    <3>2. Orderly
      BY <1>2, <3>1 DEF OInv
    <3> QED BY <2>2, <3>2, OrderlyReadList, OrderlyWriting, OrderlyPublishing, OrderlyGet,
            OrderlyKill DEF OInv
  <2>3. CASE Server
    <3>1. UNCHANGED orderly
      BY <2>3 DEF Server, Store, Refuse, Drop, Answered, runVars
    <3> QED BY <1>2, <2>3, <3>1, OrderlyServer DEF OInv
  <2>4. CASE UNCHANGED vars
    <3>1. Orderly
      BY <1>2, <2>4 DEF OInv, vars, runVars
    <3> QED BY <2>4, <3>1 DEF vars, progVars, histVars, Orderly, OneAtWork, ReportsKept,
            RequestCurrent, SlotsBehind, PublishedStored, Writing, Refuses, Below
  <2> QED BY <2>1, <2>2, <2>3, <2>4 DEF Next, Command
<1> QED BY <1>1, <1>2 DEF OInv

\* Commands that overlap lose revocations (the finding on revoke); commands
\* that were alone do not, whichever of them were killed.
THEOREM AloneNothingIsLost == Spec => []OrderlyReportedRefused
<1>1. OInv => OrderlyReportedRefused
  BY DEF OInv, Orderly, ReportsKept, Refuses, OrderlyReportedRefused, ReportedRefused
<1> QED BY <1>1, OrderlyInit, OrderlyStep, PTL DEF Spec

\* What was reported as published is refused by whoever asks the registry.
THEOREM AloneThePublishedIsServed == Spec => []OrderlyPublishedRefused
<1>1. OInv => OrderlyPublishedRefused
  BY DEF OInv, Orderly, PublishedStored, OrderlyPublishedRefused, Admits, Revokes
<1> QED BY <1>1, OrderlyInit, OrderlyStep, PTL DEF Spec

\* No upload, late or repeated, takes back what the registry has revoked.
THEOREM AloneSlotsGrow == Spec => OrderlySlotsGrow
<1>1. OInv /\ OInv' /\ [Next]_vars =>
        [orderly' => \A i \in Issuers :
             slot[i] # Absent => slot[i].revoked \subseteq slot'[i].revoked]_vars
  <2> SUFFICES ASSUME OInv, [Next]_vars, orderly'
               PROVE  \A i \in Issuers :
                          slot[i] # Absent => slot[i].revoked \subseteq slot'[i].revoked
    OBVIOUS
  <2>1. CASE UNCHANGED slot
    BY <2>1
  <2>2. ASSUME NEW m \in net, Store(m)
        PROVE  \A i \in Issuers :
                   slot[i] # Absent => slot[i].revoked \subseteq slot'[i].revoked
    <3>1. UNCHANGED orderly
      BY <2>2 DEF Store, Answered, runVars
    <3> QED BY <2>2, <3>1, OrderlyStore DEF OInv
  <2>3. UNCHANGED slot \/ \E m \in net : Store(m)
    BY Starts DEF OInv, Started, Next, Command, ReadList, Truncate, Write, VerifyList, Post,
       EndPublish, Get, Kill, Server, Refuse, Drop, vars
  <2> QED BY <2>1, <2>2, <2>3
<1> QED BY <1>1, OrderlyInit, OrderlyStep, PTL DEF Spec, OrderlySlotsGrow

=============================================================================
