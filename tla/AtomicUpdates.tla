---------------------------- MODULE AtomicUpdates ----------------------------
(***************************************************************************)
(* What the writers of a Node object may rely on: a write takes effect at  *)
(* one moment, is never undone by another writer, and took effect before   *)
(* its caller hears of success.  A caller who hears of an error knows      *)
(* nothing: the write may have been made, or may yet be.                   *)
(***************************************************************************)
CONSTANTS Writers, Calls    \* Calls: the writers whose result is looked at

VARIABLES
    written,    \* the writers whose write is in the object
    result      \* what each call has returned

Init == written = {} /\ result = [c \in Calls |-> "none"]

Write(w) ==
    /\ w \in Calls => result[w] # "ok"
    /\ written' = written \cup {w}
    /\ \/ UNCHANGED result
       \/ w \in Calls /\ result[w] = "none" /\ result' = [result EXCEPT ![w] = "ok"]

Fail(c) ==
    /\ result[c] = "none"
    /\ result' = [result EXCEPT ![c] = "error"]
    /\ UNCHANGED written

Next == (\E w \in Writers : Write(w)) \/ (\E c \in Calls : Fail(c))

Spec == Init /\ [][Next]_<<written, result>>

=============================================================================
