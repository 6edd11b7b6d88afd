----------------------------- MODULE TaskRuntime -----------------------------
(***************************************************************************)
(* The task runtime of src/task/runtime.rs: one registry behind a lock, and *)
(* one driver per task that admits the task, runs its body, waits for its   *)
(* children and settles it.                                                 *)
(*                                                                         *)
(* Each action is one critical section of the registry lock, or one call of *)
(* Notify::notify_waiters made after the lock was released: between the two *)
(* every other driver, body and caller may take steps, which is where a     *)
(* wakeup could be lost.  `pc` is where a driver stands in drive() and in    *)
(* the functions it calls.                                                  *)
(***************************************************************************)
EXTENDS Integers, Sequences, FiniteSets

CONSTANTS
  RootTask,       \* ids that submit() hands out
  ChildTask,      \* ids that TaskContext::spawn() hands out
  Idler,          \* callers of idle()
  Resource,       \* ids that add_resource() hands out
  Kind,           \* what describe() and requires() say: [class, requires]
  Cap,            \* Config::cap: the places of a class in one scope
  RetainedRoots,  \* Config::retained_roots
  Together,       \* bound: the tasks and idle() calls one run may have
  NoTask, NoResource, Unbounded   \* the three uses of Option::None

Class == {"Interactive", "Transfer", "Background"}
Task == RootTask \cup ChildTask

ASSUME TasksAssumption ==
  /\ IsFiniteSet(Task)
  /\ RootTask \cap ChildTask = {}
  /\ Task \cap Idler = {}
  /\ NoTask \notin Task
  /\ NoResource \notin Resource

ASSUME PolicyAssumption ==
  /\ Kind # {}
  /\ Kind \subseteq [class : Class, requires : Seq(Resource)]
  /\ Unbounded \notin Nat
  /\ Cap \in [Class -> Nat \cup {Unbounded}]
  /\ RetainedRoots \in Nat

VARIABLES
  (* The registry, written only under its lock. *)
  known,         \* the keys of Registry::tasks
  parent,        \* TaskInfo::parent
  kind,          \* the task's kind
  seq,           \* Entry::seq, the order of submission
  nextSeq,       \* Registry::next_seq
  state,         \* TaskInfo::state
  waitingOn,     \* the resource in Queued { waiting_on }
  live,          \* Entry::live_children
  settledRoots,  \* Registry::settled_roots, oldest first
  admitted,      \* Registry::admitted: places taken, per scope
  queue,         \* Registry::queues: seqs of capped roots not yet admitted
  resource,      \* Resource::state, "Absent" before add_resource
  holdsValue,    \* the resources whose `value` is Some
  (* Shared by the registry, the drivers and the bodies. *)
  token,         \* whether the task's CancellationToken is cancelled
  waiters,       \* drivers and idlers whose Notified no notify has reached
  (* The drivers, the bodies, and the callers from outside. *)
  pc,            \* where the driver of a task stands
  body,          \* "none", "running", or what the body returned
  outcome,       \* the state the driver will settle the task with
  owed,          \* resources changed by a call that has yet to notify
  idle           \* where a call of idle() stands

identityVars == <<parent, kind, seq, nextSeq>>
placeVars    == <<admitted, queue>>
resourceVars == <<resource, holdsValue, owed>>
entryVars    == <<known, identityVars, state, waitingOn, live, settledRoots>>
(* What no driver writes. *)
callerVars   == <<resource, holdsValue, owed, idle>>
vars == <<known, parent, kind, seq, nextSeq, state, waitingOn, live,
          settledRoots, admitted, queue, resource, holdsValue, token, waiters,
          pc, body, outcome, owed, idle>>

Terminal == {"Succeeded", "Failed", "Cancelled"}
TaskState == {"Queued", "Running", "Cancelling"} \cup Terminal
ResourceState == {"Pending", "Ready", "Closing", "Gone"}
(* "Error" is any error other than Interrupted, and a panic: drive() treats *)
(* the two alike.                                                           *)
BodyResult == {"Ok", "Interrupted", "Error"}
DriverPc == {"None", "Register", "Check", "Wait", "AdmitNotify", "Start",
             "LeaveQueue", "LeaveNotify", "Select", "Join", "DropSlot",
             "DropNotify", "FinishRegister", "FinishCheck", "FinishWait",
             "Classify", "Settle", "SettleNotify", "Done"}
IdlePc == {"Register", "Check", "Wait", "Done"}

ScopeOf(k) ==
  <<k.class, IF k.requires = <<>> THEN NoResource ELSE Head(k.requires)>>
Scopes == {ScopeOf(k) : k \in Kind}
Scope(t) == ScopeOf(kind[t])
CapOf(t) == Cap[kind[t].class]

(* Whether a task queues for a place: only roots of a capped class do. *)
IsQueued(t) == t \in RootTask /\ CapOf(t) # Unbounded

Children(t) == {c \in Task : parent[c] = t}
IsSettled(t) == state[t] \in Terminal

(* A task with its children, theirs, and so on: the smallest such set. *)
HoldsBelow(t, S) == \A c \in ChildTask : parent[c] \in {t} \cup S => c \in S
Subtree(t) ==
  {t} \cup {c \in ChildTask : \A S \in SUBSET ChildTask : HoldsBelow(t, S) => c \in S}

(***************************************************************************)
(* What admission() decides.                                                *)
(***************************************************************************)
(* The positions in `requires` of the resources that are not ready. *)
NotReady(t) ==
  {i \in DOMAIN kind[t].requires : resource[kind[t].requires[i]] # "Ready"}
FirstNotReady(t) ==
  kind[t].requires[CHOOSE i \in NotReady(t) : \A j \in NotReady(t) : i <= j]

(* Mutant of IsFirst: any task in the queue may go. *)
AnyPlaceInQueue(t) == seq[t] \in queue[Scope(t)]

IsFirst(t) ==
  /\ seq[t] \in queue[Scope(t)]
  /\ \A n \in queue[Scope(t)] : seq[t] <= n

MayAdmit(t) ==
  /\ NotReady(t) = {}
  /\ IsQueued(t) => admitted[Scope(t)] < CapOf(t) /\ IsFirst(t)
MustFail(t) ==
  /\ NotReady(t) # {}
  /\ resource[FirstNotReady(t)] \in {"Gone", "Absent"}

-----------------------------------------------------------------------------
Init ==
  /\ known = {}
  /\ parent = [t \in Task |-> NoTask]
  /\ kind = [t \in Task |-> CHOOSE k \in Kind : TRUE]
  /\ seq = [t \in Task |-> 0]
  /\ nextSeq = 0
  /\ state = [t \in Task |-> "Queued"]
  /\ waitingOn = [t \in Task |-> NoResource]
  /\ live = [t \in Task |-> 0]
  /\ settledRoots = <<>>
  /\ admitted = [s \in Scopes |-> 0]
  /\ queue = [s \in Scopes |-> {}]
  /\ resource = [r \in Resource |-> "Absent"]
  /\ holdsValue = {}
  /\ token = [t \in Task |-> FALSE]
  /\ waiters = {}
  /\ pc = [t \in Task |-> "None"]
  /\ body = [t \in Task |-> "none"]
  /\ outcome = [t \in Task |-> "Succeeded"]
  /\ owed = {}
  /\ idle = [i \in Idler |-> "Register"]

Goto(t, from, to) ==
  /\ pc[t] = from
  /\ pc' = [pc EXCEPT ![t] = to]

(* Notify::notify_waiters: wakes whoever is registered at this moment. *)
NotifyWaiters == waiters' = {}

(* CancellationToken::cancel on each of the tasks: children's tokens are    *)
(* made from their parent's, so each cancels its whole subtree.             *)
CancelTokens(tasks) ==
  LET reached == UNION {Subtree(t) : t \in tasks}
  IN  token' = [t \in Task |-> token[t] \/ t \in reached]

-----------------------------------------------------------------------------
(***************************************************************************)
(* Submission: start(), under one lock.                                     *)
(***************************************************************************)
(* Bound: the tasks submitted so far and the calls of idle() made so far. *)
Present ==
  {u \in Task : pc[u] # "None"} \cup {i \in Idler : idle[i] # "Register"}

Register(t, p, k) ==
  /\ Goto(t, "None", "Register")
  /\ Present \cup {t} \in Together
  /\ known' = known \cup {t}
  /\ parent' = [parent EXCEPT ![t] = p]
  /\ kind' = [kind EXCEPT ![t] = k]
  /\ seq' = [seq EXCEPT ![t] = nextSeq]
  /\ nextSeq' = nextSeq + 1
  /\ UNCHANGED <<state, waitingOn, settledRoots, admitted, waiters, body,
                 outcome, callerVars>>

Submit(t, k) ==
  /\ t \in RootTask
  /\ Register(t, NoTask, k)
  /\ queue' = IF Cap[k.class] = Unbounded THEN queue
              ELSE [queue EXCEPT ![ScopeOf(k)] = @ \cup {nextSeq}]
  /\ UNCHANGED <<live, token>>

(* Mutant of Spawn: the child's token is a fresh one. *)
SpawnWithFreshToken(p, t, k) ==
  /\ t \in ChildTask /\ body[p] = "running"
  /\ Register(t, p, k)
  /\ live' = IF p \in known THEN [live EXCEPT ![p] = @ + 1] ELSE live
  /\ UNCHANGED <<queue, token>>

(* Only a body holds a TaskContext, so only a running one spawns. *)
Spawn(p, t, k) ==
  /\ t \in ChildTask
  /\ body[p] = "running"
  /\ Register(t, p, k)
  /\ live' = IF p \in known THEN [live EXCEPT ![p] = @ + 1] ELSE live
  /\ token' = [token EXCEPT ![t] = token[p]]
  /\ UNCHANGED queue

(***************************************************************************)
(* Admission: one turn of the loop in admit().  The decision and the        *)
(* set_queued() that publishes it take the lock one after the other; as     *)
(* only this driver writes its entry, the two are one step.                 *)
(***************************************************************************)
AdmitRegister(t) ==
  /\ Goto(t, "Register", "Check")
  /\ waiters' = waiters \cup {t}
  /\ UNCHANGED <<entryVars, placeVars, token, body, outcome, callerVars>>

Admit(t) ==
  /\ MayAdmit(t)
  /\ Goto(t, "Check", IF IsQueued(t) THEN "AdmitNotify" ELSE "Start")
  /\ admitted' = IF IsQueued(t)
                 THEN [admitted EXCEPT ![Scope(t)] = @ + 1] ELSE admitted
  /\ queue' = IF IsQueued(t)
              THEN [queue EXCEPT ![Scope(t)] = @ \ {seq[t]}] ELSE queue
  /\ waiters' = waiters \ {t}
  /\ UNCHANGED <<entryVars, token, body, outcome, callerVars>>

(* Where a driver goes with an error from admit(). *)
AfterError(t) == IF IsQueued(t) THEN "LeaveQueue" ELSE "Settle"

FailAdmission(t) ==
  /\ MustFail(t)
  /\ Goto(t, "Check", AfterError(t))
  /\ outcome' = [outcome EXCEPT ![t] = "Failed"]
  /\ waiters' = waiters \ {t}
  /\ UNCHANGED <<entryVars, placeVars, token, body, callerVars>>

WaitForAdmission(t) ==
  /\ ~MayAdmit(t) /\ ~MustFail(t)
  /\ Goto(t, "Check", "Wait")
  /\ waitingOn' = [waitingOn EXCEPT ![t] =
                     IF NotReady(t) = {} THEN NoResource ELSE FirstNotReady(t)]
  /\ UNCHANGED <<known, identityVars, state, live, settledRoots, placeVars,
                 token, waiters, body, outcome, callerVars>>

(* The two arms of the select, in no order: a wakeup may win over a cancel. *)
WakeToAdmit(t) ==
  /\ t \notin waiters
  /\ Goto(t, "Wait", "Register")
  /\ UNCHANGED <<entryVars, placeVars, token, waiters, body, outcome,
                 callerVars>>

CancelWait(t) ==
  /\ token[t]
  /\ Goto(t, "Wait", AfterError(t))
  /\ outcome' = [outcome EXCEPT ![t] = "Cancelled"]
  /\ waiters' = waiters \ {t}
  /\ UNCHANGED <<entryVars, placeVars, token, body, callerVars>>

(* Mutant of LeaveQueue: a seq is left behind. *)
LeaveSeqBehind(t) ==
  /\ Goto(t, "LeaveQueue", "LeaveNotify")
  /\ UNCHANGED <<entryVars, placeVars, token, waiters, body, outcome, callerVars>>

LeaveQueue(t) ==
  /\ Goto(t, "LeaveQueue", "LeaveNotify")
  /\ queue' = [queue EXCEPT ![Scope(t)] = @ \ {seq[t]}]
  /\ UNCHANGED <<entryVars, admitted, token, waiters, body, outcome,
                 callerVars>>

(* Mutant of Notify: a place that is given back wakes nobody. *)
DropWakesNobody(t) ==
  /\ \/ Goto(t, "AdmitNotify", "Start")
     \/ Goto(t, "LeaveNotify", "Settle")
     \/ Goto(t, "DropNotify", "FinishRegister")
     \/ Goto(t, "SettleNotify", "Done")
  /\ waiters' = IF pc[t] = "DropNotify" THEN waiters ELSE {}
  /\ UNCHANGED <<entryVars, placeVars, token, body, outcome, callerVars>>

(* The notify_waiters() that follows an admission, a departure from the     *)
(* queue, a returned place and a settling.                                  *)
Notify(t) ==
  /\ \/ Goto(t, "AdmitNotify", "Start")
     \/ Goto(t, "LeaveNotify", "Settle")
     \/ Goto(t, "DropNotify", "FinishRegister")
     \/ Goto(t, "SettleNotify", "Done")
  /\ NotifyWaiters
  /\ UNCHANGED <<entryVars, placeVars, token, body, outcome, callerVars>>

(***************************************************************************)
(* Running: set_state(Running) and the spawn of the body, the select over   *)
(* the body and the token, and the drop of the slot.                        *)
(***************************************************************************)
Start(t) ==
  /\ Goto(t, "Start", "Select")
  /\ state' = [state EXCEPT ![t] = "Running"]
  /\ waitingOn' = [waitingOn EXCEPT ![t] = NoResource]
  /\ body' = [body EXCEPT ![t] = "running"]
  /\ UNCHANGED <<known, identityVars, live, settledRoots, placeVars, token,
                 waiters, outcome, callerVars>>

BodyReturns(t, result) ==
  /\ body[t] = "running"
  /\ body' = [body EXCEPT ![t] = result]
  /\ UNCHANGED <<entryVars, placeVars, token, waiters, pc, outcome, callerVars>>

(* The select polls the body first, but not atomically: the body can return *)
(* between the poll that found it running and the one that finds the token  *)
(* cancelled, so a returned body does not disable this step.                *)
SeeCancel(t) ==
  /\ token[t]
  /\ Goto(t, "Select", "Join")
  /\ state' = [state EXCEPT ![t] = "Cancelling"]
  /\ UNCHANGED <<known, identityVars, waitingOn, live, settledRoots, placeVars,
                 token, waiters, body, outcome, callerVars>>

(* Mutant of JoinBody: a cancelled body is not awaited. *)
JoinWithoutAwait(t) ==
  /\ pc[t] = "Join" \/ body[t] \in BodyResult
  /\ pc[t] \in {"Select", "Join"}
  /\ pc' = [pc EXCEPT ![t] =
              IF IsQueued(t) THEN "DropSlot" ELSE "FinishRegister"]
  /\ UNCHANGED <<entryVars, placeVars, token, waiters, body, outcome,
                 callerVars>>

JoinBody(t) ==
  /\ body[t] \in BodyResult
  /\ pc[t] \in {"Select", "Join"}
  /\ pc' = [pc EXCEPT ![t] =
              IF IsQueued(t) THEN "DropSlot" ELSE "FinishRegister"]
  /\ UNCHANGED <<entryVars, placeVars, token, waiters, body, outcome,
                 callerVars>>

(* Mutant of DropSlot: a slot given back by hand and again by its drop. *)
DropSlotTwice(t) ==
  /\ Goto(t, "DropSlot", "DropNotify")
  /\ admitted' = [admitted EXCEPT ![Scope(t)] = @ - 2]
  /\ UNCHANGED <<entryVars, queue, token, waiters, body, outcome, callerVars>>

DropSlot(t) ==
  /\ Goto(t, "DropSlot", "DropNotify")
  /\ admitted' = [admitted EXCEPT ![Scope(t)] = IF @ = 0 THEN 0 ELSE @ - 1]
  /\ UNCHANGED <<entryVars, queue, token, waiters, body, outcome, callerVars>>

(***************************************************************************)
(* finish_children(), the outcome table and settle().                       *)
(***************************************************************************)
FinishRegister(t) ==
  /\ Goto(t, "FinishRegister", "FinishCheck")
  /\ waiters' = waiters \cup {t}
  /\ UNCHANGED <<entryVars, placeVars, token, body, outcome, callerVars>>

(* Mutant of ChildrenFinished: the body's return is enough. *)
ChildrenNotAwaited(t) ==
  /\ Goto(t, "FinishCheck", "Classify")
  /\ waiters' = waiters \ {t}
  /\ UNCHANGED <<entryVars, placeVars, token, body, outcome, callerVars>>

ChildrenFinished(t) ==
  /\ t \notin known \/ live[t] = 0
  /\ Goto(t, "FinishCheck", "Classify")
  /\ waiters' = waiters \ {t}
  /\ UNCHANGED <<entryVars, placeVars, token, body, outcome, callerVars>>

CancelChildren(t) ==
  /\ t \in known /\ live[t] # 0
  /\ Goto(t, "FinishCheck", "FinishWait")
  /\ CancelTokens({c \in Children(t) \cap known : ~IsSettled(c)})
  /\ UNCHANGED <<entryVars, placeVars, waiters, body, outcome, callerVars>>

WakeToFinish(t) ==
  /\ t \notin waiters
  /\ Goto(t, "FinishWait", "FinishRegister")
  /\ UNCHANGED <<entryVars, placeVars, token, waiters, body, outcome,
                 callerVars>>

(* Reads the token now, after the children have settled, not when the body  *)
(* returned.                                                                *)
Classify(t) ==
  /\ Goto(t, "Classify", "Settle")
  /\ outcome' = [outcome EXCEPT ![t] =
                   IF body[t] = "Ok" THEN "Succeeded"
                   ELSE IF body[t] = "Interrupted" /\ token[t] THEN "Cancelled"
                   ELSE "Failed"]
  /\ UNCHANGED <<entryVars, placeVars, token, waiters, body, callerVars>>

(* The oldest settled roots go, with their subtrees, while there are more   *)
(* than RetainedRoots.                                                      *)
Retain(roots) ==
  LET excess == IF Len(roots) > RetainedRoots
                THEN Len(roots) - RetainedRoots ELSE 0
  IN  /\ settledRoots' = SubSeq(roots, excess + 1, Len(roots))
      /\ known' = known \ UNION {Subtree(roots[i]) : i \in 1..excess}

(* settle() does nothing for a task out of the registry; no driver is ever  *)
(* there (NothingLiveEvicted), so the step asks for it.                     *)
Settle(t) ==
  /\ t \in known
  /\ Goto(t, "Settle", "SettleNotify")
  /\ state' = [state EXCEPT ![t] = outcome[t]]
  /\ waitingOn' = [waitingOn EXCEPT ![t] = NoResource]
  /\ IF t \in ChildTask
     THEN /\ live' = IF parent[t] \in known
                     THEN [live EXCEPT ![parent[t]] = IF @ = 0 THEN 0 ELSE @ - 1]
                     ELSE live
          /\ UNCHANGED <<settledRoots, known>>
     ELSE /\ Retain(Append(settledRoots, t))
          /\ UNCHANGED live
  /\ UNCHANGED <<identityVars, placeVars, token, waiters, body, outcome,
                 callerVars>>

-----------------------------------------------------------------------------
(***************************************************************************)
(* Callers: cancel(), cancel_all(), idle() and the owner of a resource.     *)
(* A call that changes nothing is a stutter.                                *)
(***************************************************************************)
Cancel(t) ==
  /\ t \in known /\ ~IsSettled(t)
  /\ ~token[t]
  /\ CancelTokens({t})
  /\ UNCHANGED <<entryVars, placeVars, waiters, pc, body, outcome, callerVars>>

CancelAll ==
  /\ \E t \in known : ~IsSettled(t) /\ ~token[t]
  /\ CancelTokens({t \in known : ~IsSettled(t)})
  /\ UNCHANGED <<entryVars, placeVars, waiters, pc, body, outcome, callerVars>>

IdleRegister(i) ==
  /\ \/ idle[i] = "Register" /\ Present \cup {i} \in Together
     \/ idle[i] = "Wait" /\ i \notin waiters
  /\ idle' = [idle EXCEPT ![i] = "Check"]
  /\ waiters' = waiters \cup {i}
  /\ UNCHANGED <<entryVars, placeVars, resourceVars, token, pc, body, outcome>>

(* Mutant of Busy: a retained task counts as work. *)
AnyTaskKnown == known # {}

Busy == \E t \in known : ~IsSettled(t)

IdleCheck(i) ==
  /\ idle[i] = "Check"
  /\ idle' = [idle EXCEPT ![i] = IF Busy THEN "Wait" ELSE "Done"]
  /\ waiters' = IF Busy THEN waiters ELSE waiters \ {i}
  /\ UNCHANGED <<entryVars, placeVars, resourceVars, token, pc, body, outcome>>

(* The owner of a resource changes it under the lock and notifies after;    *)
(* it makes one call at a time.                                             *)
ChangeResource(r, from, to, value) ==
  /\ r \notin owed
  /\ resource[r] \in from
  /\ resource' = [resource EXCEPT ![r] = to]
  /\ holdsValue' = IF value THEN holdsValue \cup {r} ELSE holdsValue \ {r}
  /\ owed' = owed \cup {r}
  /\ UNCHANGED <<entryVars, placeVars, token, waiters, pc, body, outcome, idle>>

AddResource(r, s) == ChangeResource(r, {"Absent"}, s, FALSE)
SetResourceState(r, s) ==
  ChangeResource(r, ResourceState, s, s = "Ready" /\ r \in holdsValue)
SetResourceReady(r) == ChangeResource(r, ResourceState, "Ready", TRUE)

(* Mutant of ResourceNotify: a changed resource wakes nobody. *)
ResourceWakesNobody(r) ==
  /\ r \in owed
  /\ owed' = owed \ {r}
  /\ UNCHANGED <<entryVars, placeVars, resource, holdsValue, token, waiters,
                 pc, body, outcome, idle>>

ResourceNotify(r) ==
  /\ r \in owed
  /\ owed' = owed \ {r}
  /\ NotifyWaiters
  /\ UNCHANGED <<entryVars, placeVars, resource, holdsValue, token, pc, body,
                 outcome, idle>>

-----------------------------------------------------------------------------
Driver(t) ==
  \/ AdmitRegister(t) \/ Admit(t) \/ FailAdmission(t) \/ WaitForAdmission(t)
  \/ WakeToAdmit(t) \/ CancelWait(t) \/ LeaveQueue(t) \/ Notify(t)
  \/ Start(t) \/ SeeCancel(t) \/ JoinBody(t) \/ DropSlot(t)
  \/ FinishRegister(t) \/ ChildrenFinished(t) \/ CancelChildren(t)
  \/ WakeToFinish(t) \/ Classify(t) \/ Settle(t)

Body(t) ==
  \/ \E c \in ChildTask, k \in Kind : Spawn(t, c, k)
  \/ \E result \in BodyResult : BodyReturns(t, result)

IdleCall(i) == IdleRegister(i) \/ IdleCheck(i)

ResourceOwner(r) ==
  \/ \E s \in ResourceState : AddResource(r, s) \/ SetResourceState(r, s)
  \/ SetResourceReady(r)
  \/ ResourceNotify(r)

Client == \/ \E t \in RootTask, k \in Kind : Submit(t, k)
          \/ \E t \in Task : Cancel(t)
          \/ CancelAll

(* Nothing is left to do: every submitted task is settled and forgotten by  *)
(* its driver, and every call of idle() that was made has returned.         *)
AtRest ==
  /\ \A t \in Task : pc[t] \in {"None", "Done"}
  /\ \A i \in Idler : idle[i] \in {"Register", "Done"}
  /\ UNCHANGED vars

Next ==
  \/ Client
  \/ \E t \in Task : Driver(t) \/ Body(t)
  \/ \E i \in Idler : IdleCall(i)
  \/ \E r \in Resource : ResourceOwner(r)
  \/ AtRest

(***************************************************************************)
(* tokio polls every ready task, so a driver, a call of idle() and a        *)
(* notification that is due each take their step in the end.  A body        *)
(* returns in the end: the runtime has no backstop against one that does    *)
(* not, and none of the kinds runs for ever.  Nothing is assumed of         *)
(* submitters, of cancellation or of the owners of resources.               *)
(***************************************************************************)
Fairness ==
  /\ \A t \in Task :
       /\ WF_vars(Driver(t))
       /\ WF_vars(\E result \in BodyResult : BodyReturns(t, result))
  /\ \A i \in Idler : WF_vars(IdleCall(i))
  /\ \A r \in Resource : WF_vars(ResourceNotify(r))

Spec == Init /\ [][Next]_vars
FairSpec == Spec /\ Fairness

-----------------------------------------------------------------------------
(* The registry's maps hold what their types say: the unsigned counters      *)
(* admitted and live_children never go below zero, and every driver is       *)
(* somewhere in drive().                                                     *)
TypeOK ==
  /\ known \subseteq Task
  /\ parent \in [Task -> Task \cup {NoTask}]
  /\ kind \in [Task -> Kind]
  /\ seq \in [Task -> Nat]
  /\ nextSeq \in Nat
  /\ state \in [Task -> TaskState]
  /\ waitingOn \in [Task -> Resource \cup {NoResource}]
  /\ live \in [Task -> Nat]
  /\ settledRoots \in Seq(RootTask)
  /\ admitted \in [Scopes -> Nat]
  /\ queue \in [Scopes -> SUBSET Nat]
  /\ resource \in [Resource -> ResourceState \cup {"Absent"}]
  /\ holdsValue \subseteq Resource
  /\ token \in [Task -> BOOLEAN]
  /\ waiters \subseteq Task \cup Idler
  /\ pc \in [Task -> DriverPc]
  /\ body \in [Task -> {"none", "running"} \cup BodyResult]
  /\ outcome \in [Task -> Terminal]
  /\ owed \subseteq Resource
  /\ idle \in [Idler -> IdlePc]

Submitted(t) == pc[t] # "None"

(***************************************************************************)
(* Admission.                                                               *)
(***************************************************************************)
(* The driver of a capped root holds a Slot. *)
HoldsSlot(t) ==
  IsQueued(t) /\ pc[t] \in {"AdmitNotify", "Start", "Select", "Join", "DropSlot"}
SlotHolders(s) == {t \in RootTask : HoldsSlot(t) /\ Scope(t) = s}

(* A capped class never has more roots admitted in one scope than its cap,  *)
(* and the registry's count is the number of slots its drivers hold: no     *)
(* path through drive() leaks a place or gives one back twice.              *)
CapRespected ==
  \A s \in Scopes :
    /\ admitted[s] = Cardinality(SlotHolders(s))
    /\ Cap[s[1]] # Unbounded => admitted[s] <= Cap[s[1]]

(* However many roots the registry shows Running, no more bodies than the    *)
(* cap execute at once in a scope: a place is given back only when its body  *)
(* is over, on the cancelled path too.                                      *)
BodiesWithinCap ==
  \A s \in Scopes : Cap[s[1]] # Unbounded =>
    Cardinality({t \in RootTask : Scope(t) = s /\ body[t] = "running"})
      <= Cap[s[1]]

InLine(t) == IsQueued(t) /\ pc[t] \in {"Register", "Check", "Wait", "LeaveQueue"}

(* A scope's queue holds exactly the capped roots that may still be         *)
(* admitted or have yet to leave: a seq left behind would block the scope   *)
(* for ever.                                                                *)
QueueHoldsTheLine ==
  \A s \in Scopes :
    queue[s] = {seq[t] : t \in {u \in RootTask : InLine(u) /\ Scope(u) = s}}

(* What admission decides on is right whenever it decides, however cancels,   *)
(* resources that fail and bodies that end interleave: places, bodies, line.  *)
AdmissionHolds == CapRespected /\ BodiesWithinCap /\ QueueHoldsTheLine

NotifyDue ==
  \/ owed # {}
  \/ \E t \in Task :
       pc[t] \in {"AdmitNotify", "LeaveNotify", "DropNotify", "SettleNotify"}

(* No driver and no idle() sleeps through the change it waits for: when its *)
(* condition holds and it is still asleep, a notify_waiters() is due.       *)
NoLostWakeup ==
  \/ NotifyDue
  \/ /\ \A t \in waiters \cap Task :
          /\ pc[t] = "Wait" => ~MayAdmit(t) /\ ~MustFail(t)
          /\ pc[t] = "FinishWait" => live[t] # 0
     /\ \A i \in waiters \cap Idler : idle[i] = "Wait" => Busy

(***************************************************************************)
(* The tree.                                                                *)
(***************************************************************************)
(* The counter finish_children() waits on is the number of children that    *)
(* have not settled.                                                        *)
LiveCountsChildren ==
  \A t \in known :
    live[t] = Cardinality({c \in Children(t) : ~IsSettled(c)})

(* A child cannot outlive its parent: while it is unsettled its parent is   *)
(* in the registry and unsettled.                                           *)
ChildNeverOutlives ==
  \A c \in ChildTask :
    Submitted(c) /\ ~IsSettled(c) =>
      parent[c] \in known /\ ~IsSettled(parent[c])

(* Retention evicts only what is settled, so every driver finds its entry   *)
(* until it has settled it.                                                 *)
NothingLiveEvicted ==
  \A t \in Task : Submitted(t) /\ t \notin known =>
    IsSettled(t) /\ pc[t] \in {"SettleNotify", "Done"} /\ body[t] # "running"

(* The settled roots kept are the most recent ones, each once, and a child  *)
(* is kept exactly as long as its parent: a subtree goes whole.             *)
SubtreesKeptWhole ==
  /\ Len(settledRoots) <= RetainedRoots
  /\ {settledRoots[i] : i \in DOMAIN settledRoots}
       = {t \in RootTask \cap known : IsSettled(t)}
  /\ \A i, j \in DOMAIN settledRoots :
       settledRoots[i] = settledRoots[j] => i = j
  /\ \A c \in ChildTask : Submitted(c) => (c \in known <=> parent[c] \in known)

(***************************************************************************)
(* Cancellation.                                                            *)
(***************************************************************************)
(* Cancelling a task reaches its whole subtree, children spawned after the  *)
(* cancel included.                                                         *)
CancelReachesSubtree ==
  \A c \in ChildTask : Submitted(c) /\ token[parent[c]] => token[c]

(* The registry is a forest whose subtrees live, are cancelled, settle and go  *)
(* as one, in whatever order drivers and retention take their steps.          *)
TreeHolds ==
  /\ LiveCountsChildren /\ ChildNeverOutlives
  /\ NothingLiveEvicted /\ SubtreesKeptWhole
  /\ CancelReachesSubtree


(***************************************************************************)
(* Liveness.                                                                *)
(***************************************************************************)
(* Whether only other tasks keep t back: what it requires is ready, or gone. *)
ResourcesRest(t) == NotReady(t) = {} \/ MustFail(t)

(* Nobody waits for ever: neither a task for its place behind others, its       *)
(* resources or its children, nor a call of idle() for the tasks.  Once the     *)
(* resources of those that have not settled have come to rest, all settle and    *)
(* every call of idle() returns (runtime.rs:170-184, 457-520).                 *)
EverythingSettles ==
  <>[](\A t \in Task : Submitted(t) /\ ~IsSettled(t) => ResourcesRest(t)) =>
    []<>(/\ \A t \in Task : Submitted(t) => IsSettled(t)
         /\ \A i \in Idler : idle[i] \in {"Register", "Done"})

-----------------------------------------------------------------------------
(***************************************************************************)
(* The runtime implements the pool of places that TaskPool describes.       *)
(***************************************************************************)
Pool == INSTANCE TaskPool WITH
  Places <- [s \in Scopes |-> Cap[s[1]]],
  phase <- [t \in Task |-> IF Submitted(t) THEN state[t] ELSE "None"],
  scope <- [t \in Task |-> Scope(t)],
  line <- {t \in RootTask : InLine(t)},
  earlier <- [t \in RootTask |->
                IF Submitted(t)
                THEN {u \in RootTask : Submitted(u) /\ seq[u] < seq[t]}
                ELSE {}],
  holders <- {t \in RootTask : HoldsSlot(t)}

(* Everything an observer of the registry sees is something TaskPool allows: *)
(* places are taken in order and never too many, a task's states move        *)
(* forward, and a subtree ends from its leaves.                              *)
ImplementsPool == Pool!Spec
==============================================================================
