--------------------------- MODULE ArtifactStore ---------------------------
(***************************************************************************)
(* What the registry promises its clients: a store of named values on      *)
(* which every call takes effect once, at one instant between its          *)
(* invocation and its answer.  An upload answered with success has taken   *)
(* effect, one that is refused has not and never will; a download returns  *)
(* what the name held at some instant of the call, a listing all the names *)
(* and their values at one instant.  A crash forgets calls, never values.  *)
(***************************************************************************)
EXTENDS Integers, FiniteSets

CONSTANTS
    Clients,        \* callers, one call each at a time
    Names,          \* names of artifacts
    Issuers,        \* names of revocation lists
    Values,         \* what a client may upload
    Storable(_, _), \* Storable(v, x): the store accepts v under the name x
    Absent,         \* no value, no call, no answer
    Success, Found, Missing, Refused  \* codes; Refused is a set of them

VARIABLES
    store,   \* [Names \cup Issuers -> value or Absent]
    call,    \* call[c]: the call under way, or Absent
    answer   \* answer[c]: code and payload of the last answer, or Absent

vars == <<store, call, answer>>

Listed == [n \in Names |-> store[n]]

Init ==
    /\ \A i \in Issuers : store[i] = Absent
    /\ call = [c \in Clients |-> Absent]
    /\ answer = [c \in Clients |-> Absent]

\* done becomes TRUE when an upload or a download takes effect; content is
\* what the one stores and the other has found.
Calls ==
    [kind : {"publish", "revput"}, path : Names \cup Issuers,
     content : Values, done : {FALSE}]
    \cup [kind : {"get", "revget"}, path : Names \cup Issuers,
          content : {Absent}, done : {FALSE}]
    \cup [kind : {"list", "health"}, path : {Absent},
          content : {Absent}, done : {FALSE}]

Invoke(c) ==
    /\ call[c] = Absent
    /\ \E new \in Calls : call' = [call EXCEPT ![c] = new]
    /\ answer' = [answer EXCEPT ![c] = Absent]
    /\ UNCHANGED store

\* The call of c takes effect, on value v.
Effect(c, v) ==
    call' = [call EXCEPT ![c] = [kind |-> call[c].kind, path |-> call[c].path,
                                 content |-> v, done |-> TRUE]]

\* An upload takes effect.
Put(c) ==
    /\ call[c] # Absent /\ ~ call[c].done
    /\ call[c].kind \in {"publish", "revput"}
    /\ Storable(call[c].content, call[c].path)
    /\ store' = [store EXCEPT ![call[c].path] = call[c].content]
    /\ Effect(c, call[c].content)
    /\ UNCHANGED answer

\* A download reads a value that is there.
Read(c) ==
    /\ call[c] # Absent /\ ~ call[c].done
    /\ call[c].kind \in {"get", "revget"}
    /\ store[call[c].path] # Absent
    /\ Effect(c, store[call[c].path])
    /\ UNCHANGED <<store, answer>>

Return(c, code, payload) ==
    /\ call' = [call EXCEPT ![c] = Absent]
    /\ answer' = [answer EXCEPT ![c] = [code |-> code, payload |-> payload]]
    /\ UNCHANGED store

\* An upload or a download that has taken effect is answered.
Complete(c) ==
    /\ call[c] # Absent /\ call[c].done
    /\ IF call[c].kind \in {"publish", "revput"}
       THEN Return(c, Success, Absent)
       ELSE Return(c, Found, call[c].content)

\* A download finds nothing.
Miss(c) ==
    /\ call[c] # Absent /\ ~ call[c].done
    /\ call[c].kind \in {"get", "revget"}
    /\ store[call[c].path] = Absent
    /\ Return(c, Missing, Absent)

\* A listing shows the store as it is, a health check counts its artifacts.
Query(c) ==
    /\ call[c] # Absent
    /\ \/ call[c].kind = "list" /\ Return(c, Found, [artifacts |-> Listed])
       \/ /\ call[c].kind = "health"
          /\ Return(c, Found, [count |-> Cardinality({n \in Names : store[n] # Absent})])

\* An upload is refused: it has not taken effect.
Refuse(c) ==
    /\ call[c] # Absent /\ ~ call[c].done
    /\ call[c].kind \in {"publish", "revput"}
    /\ \E code \in Refused : Return(c, code, Absent)

\* A call is refused as it arrives.
Reject(c) ==
    /\ call[c] = Absent
    /\ \E code \in Refused \cup {Missing} : Return(c, code, Absent)

Crash ==
    /\ call' = [c \in Clients |-> Absent]
    /\ answer' = [c \in Clients |-> Absent]
    /\ UNCHANGED store

Next ==
    \/ \E c \in Clients :
          \/ Invoke(c) \/ Put(c) \/ Read(c) \/ Complete(c) \/ Miss(c)
          \/ Query(c) \/ Refuse(c) \/ Reject(c)
    \/ Crash

Spec == Init /\ [][Next]_vars
=============================================================================
