--------------------------- MODULE MCTaskRuntime ---------------------------
(* Small instances of the task runtime for TLC. *)
EXTENDS TaskRuntime, TLC

CONSTANTS r1, r2, r3, c1, c2, i1, res1

(* The caps of Config::default(). *)
MCCap == [Interactive |-> Unbounded, Transfer |-> 2, Background |-> 1]

CappedAtOne == {[class |-> "Background", requires |-> <<>>]}
CappedNeedsResource == {[class |-> "Background", requires |-> <<res1>>]}

(* Either roots that queue, or one root with its children and theirs. *)
QueueOrTree ==
  {S \in SUBSET Task : S \cap ChildTask = {} \/ Cardinality(S \cap RootTask) <= 1}
(* One root, and beside it a second that comes after it, its child, or a call   *)
(* of idle().                                                              *)
RootAndOneMore == {{r1}, {r1, r2}, {r1, c1}, {i1}, {r1, i1}}

SymTasks == Permutations(RootTask) \cup Permutations(ChildTask)

(***************************************************************************)
(* What the documentation says and the code does not keep.                  *)
(***************************************************************************)
(* docs/task-architecture.md:209: a task cancelled while it is queued       *)
(* settles Cancelled, and its body never runs.                              *)
CancelledQueuedNeverRuns ==
  [][\A t \in Task : Submitted(t) /\ state[t] = "Queued" /\ token[t]
       => state'[t] # "Running"]_vars
==============================================================================
