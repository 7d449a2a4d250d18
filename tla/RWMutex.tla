------------------------------ MODULE RWMutex ------------------------------
(***************************************************************************)
(* The reader/writer lock the registry takes (Go's sync.RWMutex), as a     *)
(* value with one operator per method.  The lock belongs to Go's standard  *)
(* library, so it is modelled from how services/qcap-registry/main.go      *)
(* uses it:                                                                *)
(*                                                                         *)
(*   - writers queue in the order they called Lock; the first of them owns *)
(*     the lock as soon as the readers admitted before it have left;       *)
(*   - a reader that calls RLock while a writer owns the lock or waits for *)
(*     it is parked, and admitted when that writer calls Unlock.  A waiting *)
(*     writer therefore holds back every later reader.                     *)
(***************************************************************************)
EXTENDS Sequences, FiniteSets

\* The lock nobody holds or waits for.
Free == [writers |-> <<>>, readers |-> {}, parked |-> {}]

\* Lock: p joins the queue of writers.
Lock(m, p) == [m EXCEPT !.writers = Append(@, p)]

\* The call of Lock by p has returned and p has not called Unlock.
WriteLocked(m, p) == m.readers = {} /\ m.writers # <<>> /\ Head(m.writers) = p

\* Unlock: the owner leaves and the parked readers are admitted.
Unlock(m) == [writers |-> Tail(m.writers),
              readers |-> m.readers \cup m.parked,
              parked  |-> {}]

\* RLock: p is admitted unless a writer owns the lock or waits for it.
RLock(m, p) == IF m.writers = <<>>
               THEN [m EXCEPT !.readers = @ \cup {p}]
               ELSE [m EXCEPT !.parked = @ \cup {p}]

\* The call of RLock by p has returned and p has not called RUnlock.
ReadLocked(m, p) == p \in m.readers

\* RUnlock: p leaves.
RUnlock(m, p) == [m EXCEPT !.readers = @ \ {p}]
=============================================================================
