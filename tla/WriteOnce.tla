------------------------------ MODULE WriteOnce ------------------------------
(***************************************************************************)
(* What the store of src/store.rs promises to those who read it, without   *)
(* mutexes, clones or an order of exchanges: facts are written once, by    *)
(* anyone at any time, and a read that takes its time returns one record   *)
(* that existed or could have existed while it ran.  It holds all that was *)
(* known when the read began, nothing that is not known when it ends, and  *)
(* everything that any finished read has returned.                         *)
(*                                                                         *)
(* Recorder implements this specification (see Recorder!ImplementsStore).  *)
(***************************************************************************)
CONSTANTS
  Key,      \* what can be known
  Absent,   \* not known
  Reader    \* reads, each done once

VARIABLES
  known,    \* the value of each key, once written
  floor,    \* what was known when a read began
  view,     \* what a finished read has returned
  reader    \* whether a read is idle, reading or done

vars == <<known, floor, view, reader>>

Nothing == [k \in Key |-> Absent]

\* Record f says nothing that g does not say.
Below(f, g) == \A k \in Key : f[k] \in {Absent, g[k]}

Init ==
  /\ known = Nothing
  /\ floor = [r \in Reader |-> Nothing]
  /\ view = [r \in Reader |-> Nothing]
  /\ reader = [r \in Reader |-> "idle"]

\* A key gets its value, whatever it is, and keeps it.
Write(k) ==
  /\ known[k] = Absent
  /\ known'[k] # Absent
  /\ known' = [known EXCEPT ![k] = known'[k]]
  /\ UNCHANGED <<floor, view, reader>>

Begin(r) ==
  /\ reader[r] = "idle"
  /\ reader' = [reader EXCEPT ![r] = "reading"]
  /\ floor' = [floor EXCEPT ![r] = known]
  /\ UNCHANGED <<known, view>>

Finish(r) ==
  /\ reader[r] = "reading"
  /\ reader' = [reader EXCEPT ![r] = "done"]
  /\ view' = [view EXCEPT ![r] = view'[r]]
  /\ Below(floor[r], view'[r])
  /\ Below(view'[r], known)
  /\ \A q \in Reader : reader[q] = "done" => Below(view[q], view'[r])
  /\ UNCHANGED <<known, floor>>

Next ==
  \/ \E k \in Key : Write(k)
  \/ \E r \in Reader : Begin(r) \/ Finish(r)

Spec == Init /\ [][Next]_vars
=============================================================================
