----------------------------- MODULE MCIssuing ------------------------------
(***************************************************************************)
(* Instances of the issuing commands for TLC: two at a time, two files, a  *)
(* directory that is there or not, and keyfiles that are encrypted, kept   *)
(* from before encryption, edited by hand, a bare seed, torn or missing.   *)
(***************************************************************************)
EXTENDS Issuing, TLC

CONSTANTS p1, p2, k1, k2, k3, x, a

Full == [n \in Paths |-> x]
MCTrees == {Full}

Encrypted == Generated(k1, Plain(a))
Legacy == [Encrypted EXCEPT !.format = "legacy"]
Edited(file) == [file EXCEPT !.public = k2]
Kept(file, mode0) == [file |-> file, mode |-> mode0]
MCKeyfiles ==
    {Kept(Encrypted, "private"), Kept(Edited(Encrypted), "private"),
     Kept(Absent, "open")}
    \cup {Kept(file, "open") :
            file \in {Legacy, Edited(Legacy), [Legacy EXCEPT !.format = "seed"], Torn}}

\* A passphrase file with a line end, the environment with the same
\* passphrase, and with the line end too; no passphrase.
MCGivens == {[source |-> "file", text |-> a, newline |-> TRUE],
             [source |-> "env", text |-> a, newline |-> FALSE],
             [source |-> "env", text |-> a, newline |-> TRUE],
             [source |-> "none", text |-> NoText, newline |-> FALSE]}

ProcSymmetry == Permutations(Procs)
=============================================================================
