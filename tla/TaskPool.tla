------------------------------ MODULE TaskPool ------------------------------
(***************************************************************************)
(* What the task runtime promises to those who submit tasks and to those    *)
(* who watch them, with no lock, driver or notification in sight:           *)
(*                                                                         *)
(*   - a root of a capped class waits in line for one of the places of its  *)
(*     scope, and places are taken in the order of submission;              *)
(*   - a task is shown Queued, then Running, then perhaps Cancelling, and   *)
(*     ends once;                                                           *)
(*   - a task ends only when every child it started has ended, with its     *)
(*     place given back.                                                    *)
(***************************************************************************)
EXTENDS Integers, FiniteSets

CONSTANTS
  RootTask, ChildTask,  \* the ids of root tasks and of children
  Scopes,     \* what places are counted in
  Places,     \* how many places a scope has
  Unbounded,  \* the number of places of a scope that needs no line
  NoTask

Task == RootTask \cup ChildTask

VARIABLES
  phase,     \* what an observer is shown, "None" before submission
  parent,    \* who started a child
  scope,     \* the scope a task was submitted in
  line,      \* the roots waiting for a place
  earlier,   \* the roots submitted before a root
  holders    \* the roots that hold a place

vars == <<phase, parent, scope, line, earlier, holders>>

Ended == {"Succeeded", "Failed", "Cancelled"}
NeedsPlace(t) == t \in RootTask /\ Places[scope[t]] # Unbounded

Init ==
  /\ phase = [t \in Task |-> "None"]
  /\ parent = [t \in Task |-> NoTask]
  /\ scope \in [Task -> Scopes]
  /\ line = {}
  /\ earlier = [t \in RootTask |-> {}]
  /\ holders = {}

(* One task is shown something new, and no other. *)
Become(t, from, to) ==
  /\ phase[t] \in from /\ phase'[t] \in to
  /\ phase' = [phase EXCEPT ![t] = phase'[t]]

Submit(t, s) ==
  /\ t \in RootTask
  /\ Become(t, {"None"}, {"Queued"})
  /\ scope' = [scope EXCEPT ![t] = s]
  /\ line' = IF Places[s] = Unbounded THEN line ELSE line \cup {t}
  /\ earlier' = [earlier EXCEPT ![t] = {u \in RootTask : phase[u] # "None"}]
  /\ UNCHANGED <<parent, holders>>

Spawn(t, s) ==
  /\ t \in ChildTask
  /\ Become(t, {"None"}, {"Queued"})
  /\ \E p \in Task : /\ phase[p] \in {"Running", "Cancelling"}
                    /\ parent' = [parent EXCEPT ![t] = p]
  /\ scope' = [scope EXCEPT ![t] = s]
  /\ UNCHANGED <<line, earlier, holders>>

(* A root gives up its place in the line. *)
Leave(t) == t \in line /\ line' = line \ {t}

TakePlace(t) ==
  /\ Leave(t)
  /\ \A u \in line \cap earlier[t] : scope[u] # scope[t]
  /\ Cardinality({u \in holders : scope[u] = scope[t]}) < Places[scope[t]]
  /\ holders' = holders \cup {t}
  /\ UNCHANGED <<phase, parent, scope, earlier>>

LeaveLine(t) ==
  /\ Leave(t)
  /\ UNCHANGED <<phase, parent, scope, earlier, holders>>

Start(t) ==
  /\ Become(t, {"Queued"}, {"Running"})
  /\ NeedsPlace(t) => t \in holders
  /\ UNCHANGED <<parent, scope, line, earlier, holders>>

BeginCancelling(t) ==
  /\ Become(t, {"Running"}, {"Cancelling"})
  /\ UNCHANGED <<parent, scope, line, earlier, holders>>

GiveBack(t) ==
  /\ t \in holders
  /\ holders' = holders \ {t}
  /\ phase[t] \in {"Running", "Cancelling"}
  /\ UNCHANGED <<phase, parent, scope, line, earlier>>

End(t) ==
  /\ \/ Become(t, {"Running", "Cancelling"}, Ended)
     \/ Become(t, {"Queued"}, Ended \ {"Succeeded"})
  /\ t \notin line \cup holders
  /\ \A c \in ChildTask : parent[c] = t => phase[c] \in Ended
  /\ UNCHANGED <<parent, scope, line, earlier, holders>>

Next ==
  \E t \in Task :
    \/ \E s \in Scopes : Submit(t, s) \/ Spawn(t, s)
    \/ TakePlace(t) \/ LeaveLine(t) \/ Start(t) \/ BeginCancelling(t)
    \/ GiveBack(t) \/ End(t)

Spec == Init /\ [][Next]_vars
==============================================================================
