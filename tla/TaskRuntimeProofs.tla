-------------------------- MODULE TaskRuntimeProofs --------------------------
(***************************************************************************)
(* What TLAPS proves of the task runtime, for any number of tasks, any caps *)
(* and any resources, and of the throttle of a task's progress.             *)
(***************************************************************************)
EXTENDS TaskRuntime, ProgressThrottle, SequenceTheorems, FiniteSetTheorems,
        WellFoundedInduction, TLAPS

LEMMA ScopeInScopes == \A k \in Kind : ScopeOf(k) \in Scopes
  BY DEF Scopes

(* A set of positions that is not empty has a first one. *)
LEMMA LeastPosition ==
  ASSUME NEW S \in SUBSET Nat, S # {}
  PROVE  \E i \in S : \A j \in S : i <= j
<1> DEFINE less == {p \in Nat \X Nat : p[1] < p[2]}
<1>1. IsWellFoundedOn(less, Nat)
  BY NatLessThanWellFounded DEF OpToRel
<1>2. PICK x \in S : \A y \in S : ~(<<y, x>> \in less)
  BY <1>1, WFMin
<1>3. ASSUME NEW y \in S
      PROVE  x <= y
  <2>1. <<y, x>> \in Nat \X Nat /\ ~(y < x)
    BY <1>2
  <2>2. QED
    BY <2>1
<1>4. QED
  BY <1>3

(* The resource a blocked task waits on is one of the resources it requires. *)
LEMMA FirstNotReadyIsResource ==
  ASSUME TypeOK, NEW t \in Task, NotReady(t) # {}
  PROVE  FirstNotReady(t) \in Resource
<1>1. kind[t].requires \in Seq(Resource)
  BY PolicyAssumption DEF TypeOK
<1>2. NotReady(t) \in SUBSET Nat
  BY <1>1 DEF NotReady
<1>3. \E i \in NotReady(t) : \A j \in NotReady(t) : i <= j
  BY <1>2, LeastPosition
<1>4. QED
  BY <1>1, <1>3 DEF FirstNotReady, NotReady

(* Evicting the oldest roots leaves a suffix of the sequence. *)
LEMMA RetainType ==
  ASSUME NEW roots \in Seq(RootTask), known \subseteq Task, Retain(roots)
  PROVE  settledRoots' \in Seq(RootTask) /\ known' \subseteq Task
<1> DEFINE excess == IF Len(roots) > RetainedRoots
                     THEN Len(roots) - RetainedRoots ELSE 0
<1>1. excess \in Nat /\ Len(roots) \in Nat
  BY PolicyAssumption
<1>2. \A i \in excess + 1 .. Len(roots) : roots[i] \in RootTask
  BY <1>1
<1>3. SubSeq(roots, excess + 1, Len(roots)) \in Seq(RootTask)
  BY <1>1, <1>2, SubSeqProperties
<1>4. QED
  BY <1>3 DEF Retain

LEMMA InitType == Init => TypeOK
<1>1. Init => kind \in [Task -> Kind]
  BY PolicyAssumption DEF Init
<1>2. Init => settledRoots \in Seq(RootTask)
  BY DEF Init
<1>3. QED
  BY <1>1, <1>2 DEF Init, TypeOK, TaskState, Terminal, DriverPc, IdlePc,
                    ResourceState

(* Cancelling tokens leaves a Boolean for every task. *)
LEMMA CancelTokensType ==
  ASSUME TypeOK, NEW tasks, CancelTokens(tasks)
  PROVE  token' \in [Task -> BOOLEAN]
  BY DEF TypeOK, CancelTokens

(* A step of a driver keeps the type invariant. *)
LEMMA DriverType ==
  ASSUME TypeOK, NEW t \in Task, Driver(t)
  PROVE  TypeOK'
<1> USE DEF TypeOK, Goto, DriverPc, entryVars, identityVars, placeVars,
            callerVars
<1>1. Scope(t) \in Scopes
  BY ScopeInScopes DEF Scope
<1>2. CASE AdmitRegister(t)
  BY <1>2 DEF AdmitRegister
<1>3. CASE Admit(t)
  BY <1>1, <1>3 DEF Admit
<1>4. CASE FailAdmission(t)
  BY <1>4 DEF FailAdmission, AfterError, Terminal
<1>5. CASE WaitForAdmission(t)
  <2>1. waitingOn' \in [Task -> Resource \cup {NoResource}]
    BY <1>5, FirstNotReadyIsResource DEF WaitForAdmission
  <2>2. QED
    BY <1>5, <2>1 DEF WaitForAdmission
<1>6. CASE WakeToAdmit(t)
  BY <1>6 DEF WakeToAdmit
<1>7. CASE CancelWait(t)
  BY <1>7 DEF CancelWait, AfterError, Terminal
<1>8. CASE LeaveQueue(t)
  BY <1>1, <1>8 DEF LeaveQueue
<1>9. CASE Notify(t)
  BY <1>9 DEF Notify, NotifyWaiters
<1>10. CASE Start(t)
  BY <1>10 DEF Start, TaskState
<1>11. CASE SeeCancel(t)
  BY <1>11 DEF SeeCancel, TaskState
<1>12. CASE JoinBody(t)
  BY <1>12 DEF JoinBody
<1>13. CASE DropSlot(t)
  BY <1>1, <1>13 DEF DropSlot
<1>14. CASE FinishRegister(t)
  BY <1>14 DEF FinishRegister
<1>15. CASE ChildrenFinished(t)
  BY <1>15 DEF ChildrenFinished
<1>16. CASE CancelChildren(t)
  <2>1. token' \in [Task -> BOOLEAN]
    BY <1>16, CancelTokensType DEF CancelChildren
  <2>2. QED
    BY <1>16, <2>1 DEF CancelChildren
<1>17. CASE WakeToFinish(t)
  BY <1>17 DEF WakeToFinish
<1>18. CASE Classify(t)
  BY <1>18 DEF Classify, Terminal
<1>19. CASE Settle(t)
  <2>1. state' \in [Task -> TaskState]
    BY <1>19 DEF Settle, TaskState
  <2>2. live' \in [Task -> Nat]
    BY <1>19 DEF Settle
  <2>3. settledRoots' \in Seq(RootTask) /\ known' \subseteq Task
    <3>1. CASE t \in ChildTask
      BY <1>19, <3>1 DEF Settle
    <3>2. CASE t \notin ChildTask
      <4>1. t \in RootTask
        BY <3>2 DEF Task
      <4>2. Append(settledRoots, t) \in Seq(RootTask)
        BY <4>1, AppendProperties
      <4>3. QED
        BY <1>19, <3>2, <4>2, RetainType DEF Settle
    <3>3. QED
      BY <3>1, <3>2
  <2>4. QED
    BY <1>19, <2>1, <2>2, <2>3 DEF Settle
<1>20. QED
  BY <1>2, <1>3, <1>4, <1>5, <1>6, <1>7, <1>8, <1>9, <1>10, <1>11, <1>12,
     <1>13, <1>14, <1>15, <1>16, <1>17, <1>18, <1>19 DEF Driver

(* A step of a body, or of a caller from outside, keeps the type invariant. *)
LEMMA CallerType ==
  ASSUME TypeOK,
         \/ Client
         \/ \E t \in Task : Body(t)
         \/ \E i \in Idler : IdleCall(i)
         \/ \E r \in Resource : ResourceOwner(r)
  PROVE  TypeOK'
<1> USE DEF TypeOK, Goto, DriverPc, entryVars, identityVars, placeVars,
            resourceVars, callerVars
<1>1. ASSUME NEW t \in Task, NEW k \in Kind, Submit(t, k)
      PROVE  TypeOK'
  BY <1>1, ScopeInScopes, SMTT(60) DEF Submit, Register
<1>2. ASSUME NEW p \in Task, NEW t \in ChildTask, NEW k \in Kind, Spawn(p, t, k)
      PROVE  TypeOK'
  BY <1>2 DEF Spawn, Register, Task
<1>3. ASSUME NEW t \in Task, NEW result \in BodyResult, BodyReturns(t, result)
      PROVE  TypeOK'
  BY <1>3 DEF BodyReturns
<1>4. ASSUME NEW t \in Task, Cancel(t)
      PROVE  TypeOK'
  <2>1. token' \in [Task -> BOOLEAN]
    BY <1>4, CancelTokensType DEF Cancel
  <2>2. QED
    BY <1>4, <2>1 DEF Cancel
<1>5. CASE CancelAll
  <2>1. token' \in [Task -> BOOLEAN]
    BY <1>5, CancelTokensType DEF CancelAll
  <2>2. QED
    BY <1>5, <2>1 DEF CancelAll
<1>6. ASSUME NEW i \in Idler, IdleRegister(i) \/ IdleCheck(i)
      PROVE  TypeOK'
  BY <1>6 DEF IdleRegister, IdleCheck, IdlePc
<1>7. ASSUME NEW r \in Resource, NEW from, NEW to \in ResourceState,
             NEW value \in BOOLEAN, ChangeResource(r, from, to, value)
      PROVE  TypeOK'
  BY <1>7 DEF ChangeResource
<1>8. ASSUME NEW r \in Resource, ResourceNotify(r)
      PROVE  TypeOK'
  BY <1>8 DEF ResourceNotify, NotifyWaiters
<1>9. ASSUME NEW r \in Resource, ResourceOwner(r)
      PROVE  TypeOK'
  BY <1>7, <1>8, <1>9, ZenonT(60) DEF ResourceOwner, AddResource, SetResourceState,
                          SetResourceReady, ResourceState
<1>10. QED
  BY <1>1, <1>2, <1>3, <1>4, <1>5, <1>6, <1>9
     DEF Client, Body, IdleCall, Task

(* Every reachable state of the runtime is well typed: the counters never go *)
(* below zero, the settled roots are roots, and a driver is somewhere in     *)
(* drive().                                                                  *)
THEOREM TypeCorrect == Spec => []TypeOK
<1>1. Init => TypeOK
  BY InitType
<1>2. TypeOK /\ [Next]_vars => TypeOK'
  <2> SUFFICES ASSUME TypeOK, [Next]_vars
               PROVE  TypeOK'
    OBVIOUS
  <2>1. CASE UNCHANGED vars
    BY <2>1 DEF TypeOK, vars
  <2>2. CASE Next
    BY <2>1, <2>2, DriverType, CallerType DEF Next, AtRest
  <2>3. QED
    BY <2>1, <2>2
<1>3. QED
  BY <1>1, <1>2, PTL DEF Spec

-----------------------------------------------------------------------------
(***************************************************************************)
(* No lost wakeup.  The argument: a driver goes to sleep only when its      *)
(* condition was false while it was already registered; every step that can *)
(* make a condition true leaves its actor with a notification to send; and  *)
(* a submission, which leaves none, cannot: the new seq is the greatest.    *)
(***************************************************************************)
(* Every seq in use is below the next one. *)
SeqBelowNext ==
  /\ \A t \in Task : Submitted(t) => seq[t] < nextSeq
  /\ \A s \in Scopes : \A n \in queue[s] : n < nextSeq

SleepersWait ==
  /\ \A t \in waiters \cap Task :
       /\ pc[t] = "Wait" => ~MayAdmit(t) /\ ~MustFail(t)
       /\ pc[t] = "FinishWait" => live[t] # 0
  /\ \A i \in waiters \cap Idler : idle[i] = "Wait" => Busy

WakeupInv == SeqBelowNext /\ NoLostWakeup

LEMMA NoLostWakeupIs == NoLostWakeup <=> NotifyDue \/ SleepersWait
  BY DEF NoLostWakeup, SleepersWait

LEMMA InitWakeup == Init => WakeupInv
  BY DEF Init, WakeupInv, SeqBelowNext, NoLostWakeup, Submitted

(* What no step of a driver touches, and what it may do to its own pc and to *)
(* the queues.                                                              *)
LEMMA DriverFrame ==
  ASSUME TypeOK, NEW t \in Task, Driver(t)
  PROVE  /\ UNCHANGED <<parent, kind, seq, nextSeq, callerVars>>
         /\ pc[t] # "None" /\ pc'[t] # "None"
         /\ \A u \in Task \ {t} : pc'[u] = pc[u]
         /\ \A s \in Scopes : queue'[s] \subseteq queue[s]
<1> USE DEF TypeOK, Goto, entryVars, identityVars, placeVars, callerVars
<1>2. CASE AdmitRegister(t)
  BY <1>2 DEF AdmitRegister
<1>3. CASE Admit(t)
  BY <1>3 DEF Admit
<1>4. CASE FailAdmission(t)
  BY <1>4 DEF FailAdmission, AfterError
<1>5. CASE WaitForAdmission(t)
  BY <1>5 DEF WaitForAdmission
<1>6. CASE WakeToAdmit(t)
  BY <1>6 DEF WakeToAdmit
<1>7. CASE CancelWait(t)
  BY <1>7 DEF CancelWait, AfterError
<1>8. CASE LeaveQueue(t)
  BY <1>8 DEF LeaveQueue
<1>9. CASE Notify(t)
  BY <1>9 DEF Notify
<1>10. CASE Start(t)
  BY <1>10 DEF Start
<1>11. CASE SeeCancel(t)
  BY <1>11 DEF SeeCancel
<1>12. CASE JoinBody(t)
  BY <1>12 DEF JoinBody
<1>13. CASE DropSlot(t)
  BY <1>13 DEF DropSlot
<1>14. CASE FinishRegister(t)
  BY <1>14 DEF FinishRegister
<1>15. CASE ChildrenFinished(t)
  BY <1>15 DEF ChildrenFinished
<1>16. CASE CancelChildren(t)
  BY <1>16 DEF CancelChildren
<1>17. CASE WakeToFinish(t)
  BY <1>17 DEF WakeToFinish
<1>18. CASE Classify(t)
  BY <1>18 DEF Classify
<1>19. CASE Settle(t)
  BY <1>19 DEF Settle
<1>20. QED
  BY <1>2, <1>3, <1>4, <1>5, <1>6, <1>7, <1>8, <1>9, <1>10, <1>11, <1>12,
     <1>13, <1>14, <1>15, <1>16, <1>17, <1>18, <1>19
     DEF Driver

(* Only Submit and Spawn give out a seq, and they use up a nextSeq. *)
LEMMA SeqStep ==
  ASSUME TypeOK, SeqBelowNext, [Next]_vars
  PROVE  SeqBelowNext'
<1> USE DEF TypeOK, SeqBelowNext, Submitted, Goto, entryVars, identityVars,
            placeVars, resourceVars, callerVars
<1>1. CASE UNCHANGED vars
  BY <1>1 DEF vars
<1>2. ASSUME NEW t \in Task, Driver(t)
      PROVE  SeqBelowNext'
  BY <1>2, DriverFrame
<1>3. ASSUME NEW t \in Task, NEW k \in Kind, Submit(t, k)
      PROVE  SeqBelowNext'
  BY <1>3, ScopeInScopes DEF Submit, Register
<1>4. ASSUME NEW p \in Task, NEW t \in Task, NEW k \in Kind, Spawn(p, t, k)
      PROVE  SeqBelowNext'
  BY <1>4 DEF Spawn, Register
<1>5. ASSUME UNCHANGED <<seq, nextSeq, pc, queue>>
      PROVE  SeqBelowNext'
  BY <1>5
<1>6. QED
  BY <1>1, <1>2, <1>3, <1>4, <1>5
     DEF Next, Client, Body, BodyReturns, Cancel, CancelAll, IdleCall,
         IdleRegister, IdleCheck, ResourceOwner, AddResource, SetResourceState,
         SetResourceReady, ChangeResource, ResourceNotify, AtRest, Task, vars

(* What a task waits for depends on its kind, its seq and the counts, queues *)
(* and resources of the registry, and on nothing else.                      *)
LEMMA ConditionFrame ==
  ASSUME NEW u, kind'[u] = kind[u], seq'[u] = seq[u], admitted' = admitted,
         queue' = queue, resource' = resource
  PROVE  (MayAdmit(u)' <=> MayAdmit(u)) /\ (MustFail(u)' <=> MustFail(u))
<1>1. NotReady(u)' = NotReady(u)
  BY DEF NotReady
<1>2. FirstNotReady(u)' = FirstNotReady(u)
  BY <1>1 DEF FirstNotReady
<1>3. IsQueued(u)' = IsQueued(u) /\ Scope(u)' = Scope(u) /\ CapOf(u)' = CapOf(u)
  BY DEF IsQueued, CapOf, Scope, ScopeOf
<1>4. IsFirst(u)' <=> IsFirst(u)
  BY <1>3 DEF IsFirst
<1>5. QED
  BY <1>1, <1>2, <1>3, <1>4 DEF MayAdmit, MustFail

(* A submission cannot make room for a task that waits already. *)
LEMMA SubmitMakesNoRoom ==
  ASSUME TypeOK, SeqBelowNext, NEW t \in Task, NEW k \in Kind, Submit(t, k),
         NEW u \in Task, pc[u] = "Wait", ~MayAdmit(u), ~MustFail(u)
  PROVE  ~MayAdmit(u)' /\ ~MustFail(u)'
<1>1. /\ kind'[u] = kind[u] /\ seq'[u] = seq[u]
      /\ admitted' = admitted /\ resource' = resource
  BY DEF Submit, Register, Goto, TypeOK, callerVars
<1>2. NotReady(u)' = NotReady(u) /\ FirstNotReady(u)' = FirstNotReady(u)
  BY <1>1 DEF NotReady, FirstNotReady
<1>3. IsQueued(u)' = IsQueued(u) /\ Scope(u)' = Scope(u) /\ CapOf(u)' = CapOf(u)
  BY <1>1 DEF IsQueued, CapOf, Scope, ScopeOf
<1>4. Scope(u) \in Scopes
  BY ScopeInScopes DEF Scope, TypeOK
<1>5. queue[Scope(u)] \subseteq queue'[Scope(u)]
  BY <1>4 DEF Submit, TypeOK
<1>6. seq[u] < nextSeq /\ seq[u] \in Nat /\ nextSeq \in Nat
  BY DEF SeqBelowNext, Submitted, TypeOK
<1>7. \A n \in queue'[Scope(u)] : n \in queue[Scope(u)] \/ n = nextSeq
  BY <1>4, ScopeInScopes DEF Submit, TypeOK
<1>8. IsFirst(u)' => IsFirst(u)
  BY <1>1, <1>3, <1>5, <1>6, <1>7 DEF IsFirst
<1>9. QED
  BY <1>1, <1>2, <1>3, <1>8 DEF MayAdmit, MustFail

(* A step that leaves the conditions alone, and puts no one to sleep but a   *)
(* driver whose condition is false, keeps the sleepers right.               *)
LEMMA SleepFrame ==
  ASSUME TypeOK, SleepersWait, NEW t \in Task,
         UNCHANGED <<kind, seq, admitted, queue, resource, idle>>,
         waiters' \subseteq waiters \cup {t},
         \A u \in Task \ {t} : pc'[u] = pc[u],
         \A u \in Task : live[u] # 0 => live'[u] # 0,
         pc'[t] = "Wait" => ~MayAdmit(t) /\ ~MustFail(t),
         pc'[t] = "FinishWait" => live'[t] # 0,
         Busy => Busy'
  PROVE  SleepersWait'
<1>1. ASSUME NEW u \in waiters' \cap Task
      PROVE  /\ pc'[u] = "Wait" => ~MayAdmit(u)' /\ ~MustFail(u)'
             /\ pc'[u] = "FinishWait" => live'[u] # 0
  <2>1. (MayAdmit(u)' <=> MayAdmit(u)) /\ (MustFail(u)' <=> MustFail(u))
    BY ConditionFrame
  <2>2. CASE u = t
    BY <2>1, <2>2
  <2>3. CASE u # t
    <3>1. u \in waiters \cap Task /\ pc'[u] = pc[u]
      BY <1>1, <2>3
    <3>2. QED
      BY <2>1, <3>1 DEF SleepersWait
  <2>4. QED
    BY <2>2, <2>3
<1>2. ASSUME NEW i \in waiters' \cap Idler
      PROVE  idle'[i] = "Wait" => Busy'
  <2>1. i \in waiters
    BY TasksAssumption
  <2>2. QED
    BY <2>1 DEF SleepersWait
<1>3. QED
  BY <1>1, <1>2 DEF SleepersWait

(* A driver's step wakes everyone, leaves a notification to send, or lets   *)
(* the sleepers be.                                                         *)
LEMMA DriverWakeup ==
  ASSUME TypeOK, NoLostWakeup, NEW t \in Task, Driver(t)
  PROVE  NoLostWakeup'
<1> USE DEF Goto, entryVars, identityVars, placeVars, callerVars
<1> DEFINE Due == {"AdmitNotify", "LeaveNotify", "DropNotify", "SettleNotify"}
<1>1. ASSUME pc'[t] \in Due
      PROVE  NotifyDue'
  BY <1>1 DEF NotifyDue
<1>2. CASE Notify(t)
  <2>1. waiters' = {}
    BY <1>2 DEF Notify, NotifyWaiters
  <2>2. QED
    BY <2>1 DEF NoLostWakeup
<1>3. CASE LeaveQueue(t) \/ DropSlot(t) \/ Settle(t)
  <2>1. pc'[t] \in Due
    BY <1>3 DEF LeaveQueue, DropSlot, Settle, TypeOK
  <2>2. QED
    BY <1>1, <2>1, NoLostWakeupIs DEF NoLostWakeup, NotifyDue
<1>4. CASE Admit(t) /\ IsQueued(t)
  <2>1. pc'[t] \in Due
    BY <1>4 DEF Admit, TypeOK
  <2>2. QED
    BY <1>1, <2>1 DEF NoLostWakeup, NotifyDue
<1>5. CASE ~Notify(t) /\ ~LeaveQueue(t) /\ ~DropSlot(t) /\ ~Settle(t)
           /\ ~(Admit(t) /\ IsQueued(t))
  <2>1. /\ UNCHANGED <<kind, seq, admitted, queue, resource, idle, live, known,
                       owed>>
        /\ waiters' \subseteq waiters \cup {t}
        /\ \A u \in Task \ {t} : pc'[u] = pc[u]
        /\ pc[t] \notin Due
        /\ pc'[t] = "Wait" => ~MayAdmit(t) /\ ~MustFail(t)
        /\ pc'[t] = "FinishWait" => live[t] # 0
    <3> USE DEF TypeOK
    <3>1. CASE AdmitRegister(t)
      BY <3>1 DEF AdmitRegister
    <3>2. CASE Admit(t)
      BY <3>2, <1>5 DEF Admit
    <3>3. CASE FailAdmission(t)
      BY <3>3 DEF FailAdmission, AfterError
    <3>4. CASE WaitForAdmission(t)
      BY <3>4 DEF WaitForAdmission
    <3>5. CASE WakeToAdmit(t)
      BY <3>5 DEF WakeToAdmit
    <3>6. CASE CancelWait(t)
      BY <3>6 DEF CancelWait, AfterError
    <3>7. CASE Start(t)
      BY <3>7 DEF Start
    <3>8. CASE SeeCancel(t)
      BY <3>8 DEF SeeCancel
    <3>9. CASE JoinBody(t)
      BY <3>9 DEF JoinBody
    <3>10. CASE FinishRegister(t)
      BY <3>10 DEF FinishRegister
    <3>11. CASE ChildrenFinished(t)
      BY <3>11 DEF ChildrenFinished
    <3>12. CASE CancelChildren(t)
      BY <3>12 DEF CancelChildren
    <3>13. CASE WakeToFinish(t)
      BY <3>13 DEF WakeToFinish
    <3>14. CASE Classify(t)
      BY <3>14 DEF Classify
    <3>15. QED
      BY <1>5, <3>1, <3>2, <3>3, <3>4, <3>5, <3>6, <3>7, <3>8, <3>9, <3>10,
         <3>11, <3>12, <3>13, <3>14 DEF Driver
  <2>2. \A u \in Task : state'[u] = state[u] \/ ~IsSettled(u)'
    <3>1. CASE Start(t)
      BY <3>1 DEF Start, IsSettled, Terminal, TypeOK
    <3>2. CASE SeeCancel(t)
      BY <3>2 DEF SeeCancel, IsSettled, Terminal, TypeOK
    <3>3. CASE UNCHANGED state
      BY <3>3
    <3>4. QED
      BY <1>5, <3>1, <3>2, <3>3
         DEF Driver, AdmitRegister, Admit, FailAdmission, WaitForAdmission,
             WakeToAdmit, CancelWait, JoinBody, FinishRegister,
             ChildrenFinished, CancelChildren, WakeToFinish, Classify
  <2>3. Busy => Busy'
    BY <2>1, <2>2 DEF Busy, IsSettled, TypeOK
  <2>4. CASE NotifyDue
    <3>1. NotifyDue'
      BY <2>1, <2>4 DEF NotifyDue
    <3>2. QED
      BY <3>1 DEF NoLostWakeup
  <2>5. CASE SleepersWait
    <3>1. SleepersWait'
      BY <2>1, <2>3, <2>5, SleepFrame
    <3>2. QED
      BY <3>1 DEF NoLostWakeup, SleepersWait
  <2>6. QED
    BY <2>4, <2>5, NoLostWakeupIs
<1>6. QED
  BY <1>2, <1>3, <1>4, <1>5

(* A step that leaves the sleepers, and what they wait for, alone.          *)
LEMMA CallerFrame ==
  ASSUME SleepersWait,
         UNCHANGED <<admitted, queue, resource, waiters, idle>>,
         \A u \in waiters \cap Task :
           pc'[u] = pc[u] /\ kind'[u] = kind[u] /\ seq'[u] = seq[u],
         \A u \in Task : live[u] # 0 => live'[u] # 0,
         Busy => Busy'
  PROVE  SleepersWait'
<1>1. ASSUME NEW u \in waiters \cap Task
      PROVE  (MayAdmit(u)' <=> MayAdmit(u)) /\ (MustFail(u)' <=> MustFail(u))
  BY <1>1, ConditionFrame
<1>2. QED
  BY <1>1 DEF SleepersWait

(* Neither a sleeper nor a notification that is due is lost by such a step. *)
LEMMA QuietStep ==
  ASSUME NoLostWakeup, \A u \in waiters \cap Task : Submitted(u),
         UNCHANGED <<admitted, queue, resource, waiters, idle, owed>>,
         \A u \in Task : Submitted(u) =>
           pc'[u] = pc[u] /\ kind'[u] = kind[u] /\ seq'[u] = seq[u],
         \A u \in Task : live[u] # 0 => live'[u] # 0,
         Busy => Busy'
  PROVE  NoLostWakeup'
<1>1. CASE NotifyDue
  <2>1. NotifyDue'
    BY <1>1 DEF NotifyDue, Submitted
  <2>2. QED
    BY <2>1 DEF NoLostWakeup
<1>2. CASE SleepersWait
  <2>1. SleepersWait'
    BY <1>2, CallerFrame
  <2>2. QED
    BY <2>1 DEF NoLostWakeup, SleepersWait
<1>3. QED
  BY <1>1, <1>2, NoLostWakeupIs

(* A new task has no one asleep on its behalf, and makes the registry busy. *)
LEMMA RegisterBusy ==
  ASSUME TypeOK, NEW t \in Task, NEW p, NEW k, Register(t, p, k)
  PROVE  Busy => Busy'
  BY DEF Register, Busy, IsSettled

(* A body's step, or a caller's, wakes everyone, has a notification to      *)
(* send, or lets the sleepers be.                                           *)
LEMMA CallerWakeup ==
  ASSUME TypeOK, SeqBelowNext, NoLostWakeup,
         \A u \in waiters \cap Task : Submitted(u),
         \/ Client
         \/ \E t \in Task : Body(t)
         \/ \E i \in Idler : IdleCall(i)
         \/ \E r \in Resource : ResourceOwner(r)
  PROVE  NoLostWakeup'
<1> USE DEF Goto, entryVars, identityVars, placeVars, resourceVars, callerVars
<1>2. ASSUME NEW t \in Task, NEW k \in Kind, Submit(t, k)
      PROVE  NoLostWakeup'
  <2>1. /\ \A u \in Task : Submitted(u) => pc'[u] = pc[u]
        /\ UNCHANGED <<waiters, live, owed, idle>>
    BY <1>2 DEF Submit, Register, TypeOK, Submitted
  <2>2. CASE NotifyDue
    <3>1. NotifyDue'
      BY <2>1, <2>2 DEF NotifyDue, Submitted
    <3>2. QED
      BY <3>1 DEF NoLostWakeup
  <2>3. CASE SleepersWait
    <3>1. ASSUME NEW u \in waiters' \cap Task
          PROVE  /\ pc'[u] = "Wait" => ~MayAdmit(u)' /\ ~MustFail(u)'
                 /\ pc'[u] = "FinishWait" => live'[u] # 0
      <4>1. u \in waiters \cap Task /\ pc'[u] = pc[u]
        BY <2>1, <3>1
      <4>2. pc[u] = "Wait" => ~MayAdmit(u)' /\ ~MustFail(u)'
        BY <1>2, <2>3, <4>1, SubmitMakesNoRoom DEF SleepersWait
      <4>3. QED
        BY <2>1, <2>3, <4>1, <4>2 DEF SleepersWait
    <3>2. Busy => Busy'
      BY <1>2, RegisterBusy DEF Submit
    <3>3. SleepersWait'
      BY <2>1, <2>3, <3>1, <3>2 DEF SleepersWait
    <3>4. QED
      BY <3>3 DEF NoLostWakeup, SleepersWait
  <2>4. QED
    BY <2>2, <2>3, NoLostWakeupIs
<1>3. ASSUME NEW p \in Task, NEW t \in ChildTask, NEW k \in Kind, Spawn(p, t, k)
      PROVE  NoLostWakeup'
  <2>1. t \in Task
    BY DEF Task
  <2>2. \A u \in Task : live[u] # 0 => live'[u] # 0
    BY <1>3 DEF Spawn, TypeOK
  <2>3. UNCHANGED <<admitted, queue, resource, waiters, idle, owed>>
    BY <1>3 DEF Spawn, Register
  <2>4. \A u \in Task : Submitted(u) =>
          pc'[u] = pc[u] /\ kind'[u] = kind[u] /\ seq'[u] = seq[u]
    BY <1>3, <2>1 DEF Spawn, Register, TypeOK, Submitted
  <2>5. Busy => Busy'
    BY <1>3, <2>1, RegisterBusy DEF Spawn
  <2>6. QED
    BY QuietStep, <2>2, <2>3, <2>4, <2>5
<1>4. ASSUME UNCHANGED <<kind, seq, admitted, queue, resource, waiters, idle,
                         owed, pc, live, known, state>>
      PROVE  NoLostWakeup'
  <2>1. Busy' <=> Busy
    BY <1>4 DEF Busy, IsSettled
  <2>2. QED
    BY QuietStep, <1>4, <2>1
<1>5. ASSUME NEW i \in Idler, IdleRegister(i) \/ IdleCheck(i)
      PROVE  NoLostWakeup'
  <2>1. /\ UNCHANGED <<kind, seq, admitted, queue, resource, owed, pc, live,
                       known, state>>
        /\ waiters' \subseteq waiters \cup {i}
        /\ idle'[i] = "Wait" => Busy
        /\ \A j \in Idler \ {i} : idle'[j] = idle[j]
    BY <1>5 DEF IdleRegister, IdleCheck, TypeOK
  <2>2. Busy' <=> Busy
    BY <2>1 DEF Busy, IsSettled
  <2>3. CASE NotifyDue
    BY <2>1, <2>3 DEF NoLostWakeup, NotifyDue
  <2>4. CASE SleepersWait
    <3>1. ASSUME NEW u \in waiters' \cap Task
          PROVE  /\ pc'[u] = "Wait" => ~MayAdmit(u)' /\ ~MustFail(u)'
                 /\ pc'[u] = "FinishWait" => live'[u] # 0
      <4>1. u \in waiters \cap Task
        BY <2>1, <3>1, TasksAssumption
      <4>2. (MayAdmit(u)' <=> MayAdmit(u)) /\ (MustFail(u)' <=> MustFail(u))
        BY <2>1, ConditionFrame
      <4>3. QED
        BY <2>1, <2>4, <4>1, <4>2 DEF SleepersWait
    <3>2. \A j \in waiters' \cap Idler : idle'[j] = "Wait" => Busy'
      BY <2>1, <2>2, <2>4 DEF SleepersWait
    <3>3. SleepersWait'
      BY <3>1, <3>2 DEF SleepersWait
    <3>4. QED
      BY <3>3 DEF NoLostWakeup, SleepersWait
  <2>5. QED
    BY <2>3, <2>4, NoLostWakeupIs
<1>6. ASSUME NEW r \in Resource, ResourceOwner(r)
      PROVE  NoLostWakeup'
  <2>1. CASE ResourceNotify(r)
    BY <2>1 DEF ResourceNotify, NotifyWaiters, NoLostWakeup
  <2>2. ASSUME NEW from, NEW to, NEW value, ChangeResource(r, from, to, value)
        PROVE  NoLostWakeup'
    BY <2>2 DEF ChangeResource, NoLostWakeup, NotifyDue
  <2>3. QED
    BY <1>6, <2>1, <2>2 DEF ResourceOwner, AddResource, SetResourceState,
                            SetResourceReady
<1>7. QED
  BY <1>2, <1>3, <1>4, <1>5, <1>6
     DEF Client, Body, BodyReturns, Cancel, CancelAll, IdleCall, Task

(* Only a submitted task's driver registers with the Notify. *)
WaitersSubmitted == \A t \in waiters \cap Task : Submitted(t)

LEMMA WaitersSubmittedStep ==
  ASSUME TypeOK, WaitersSubmitted, [Next]_vars
  PROVE  WaitersSubmitted'
<1> USE DEF WaitersSubmitted, Submitted
<1>1. ASSUME NEW t \in Task, Driver(t)
      PROVE  WaitersSubmitted'
  <2>1. waiters' \subseteq waiters \cup {t}
    BY <1>1 DEF Driver, AdmitRegister, Admit, FailAdmission, WaitForAdmission,
         WakeToAdmit, CancelWait, LeaveQueue, Notify, NotifyWaiters, Start,
         SeeCancel, JoinBody, DropSlot, FinishRegister, ChildrenFinished,
         CancelChildren, WakeToFinish, Classify, Settle
  <2>2. QED
    BY <1>1, <2>1, DriverFrame
<1>2. ASSUME NEW i \in Idler, IdleCall(i)
      PROVE  WaitersSubmitted'
  BY <1>2, TasksAssumption DEF IdleCall, IdleRegister, IdleCheck
<1>3. ASSUME UNCHANGED waiters,
             \A u \in Task : pc[u] # "None" => pc'[u] # "None"
      PROVE  WaitersSubmitted'
  BY <1>3
<1>4. CASE Client \/ (\E t \in Task : Body(t)) \/ UNCHANGED vars
  <2>1. /\ UNCHANGED waiters
        /\ \A u \in Task : pc[u] # "None" => pc'[u] # "None"
    BY <1>4, ZenonT(60) DEF Client, Body, BodyReturns, Submit, Spawn, Register, Goto,
         Cancel, CancelAll, TypeOK, Task, vars, callerVars, entryVars
  <2>2. QED
    BY <1>3, <2>1
<1>5. ASSUME NEW r \in Resource, ResourceOwner(r)
      PROVE  WaitersSubmitted'
  BY <1>5 DEF ResourceOwner, AddResource, SetResourceState, SetResourceReady,
       ChangeResource, ResourceNotify, NotifyWaiters
<1>6. QED
  BY <1>1, <1>2, <1>4, <1>5 DEF Next, AtRest

(* No driver, and no call of idle(), sleeps through the change it waits for: *)
(* at every moment either a notify_waiters() is still due, or every sleeper  *)
(* waits for something that does not hold.                                   *)
THEOREM WakeupsNotLost == Spec => []NoLostWakeup
<1> DEFINE Inv == WakeupInv /\ WaitersSubmitted
<1>1. Init => Inv
  BY InitWakeup DEF Init, WaitersSubmitted
<1>2. TypeOK /\ Inv /\ [Next]_vars => Inv'
  <2> SUFFICES ASSUME TypeOK, Inv, [Next]_vars
               PROVE  Inv'
    OBVIOUS
  <2>1. SeqBelowNext' /\ WaitersSubmitted'
    BY SeqStep, WaitersSubmittedStep DEF WakeupInv
  <2>2. CASE UNCHANGED vars
    <3>1. Busy => Busy'
      BY <2>2 DEF vars, Busy, IsSettled
    <3>2. NoLostWakeup'
      BY <2>2, <3>1, QuietStep DEF vars, WakeupInv, WaitersSubmitted
    <3>3. QED
      BY <2>1, <3>2 DEF WakeupInv
  <2>3. CASE Next
    <3>1. CASE \E t \in Task : Driver(t)
      BY <3>1, <2>1, DriverWakeup DEF WakeupInv
    <3>2. CASE AtRest
      BY <3>2, <2>2 DEF AtRest
    <3>3. QED
      BY <2>1, <2>3, <3>1, <3>2, CallerWakeup
         DEF Next, WakeupInv, WaitersSubmitted
  <2>4. QED
    BY <2>2, <2>3
<1>3. Inv => NoLostWakeup
  BY DEF WakeupInv
<1> HIDE DEF Inv
<1>4. QED
  BY <1>1, <1>2, <1>3, TypeCorrect, PTL DEF Spec

-----------------------------------------------------------------------------
(***************************************************************************)
(* That the runtime admits, cancels and settles tasks as it should, and so  *)
(* implements TaskPool.                                                     *)
(***************************************************************************)
(***************************************************************************)
(* Where a driver stands says what the registry shows of its task and how   *)
(* far its body is.                                                         *)
(***************************************************************************)
Ends == {"Failed", "Cancelled"}

Stands(t) ==
  /\ pc[t] \in {"None", "Register", "Check", "Wait", "AdmitNotify", "Start",
                "LeaveQueue", "LeaveNotify"}
       => state[t] = "Queued" /\ body[t] = "none"
  /\ pc[t] \in {"LeaveQueue", "LeaveNotify"} => outcome[t] \in Ends
  /\ pc[t] = "Select" => state[t] = "Running" /\ body[t] # "none"
  /\ pc[t] = "Join" => state[t] = "Cancelling" /\ body[t] # "none"
  /\ pc[t] \in {"DropSlot", "DropNotify", "FinishRegister", "FinishCheck",
                "FinishWait", "Classify"}
       => state[t] \in {"Running", "Cancelling"} /\ body[t] \in BodyResult
  /\ pc[t] = "Settle" =>
       \/ state[t] = "Queued" /\ body[t] = "none" /\ outcome[t] \in Ends
       \/ state[t] \in {"Running", "Cancelling"} /\ body[t] \in BodyResult
  /\ pc[t] \in {"SettleNotify", "Done"}
       => state[t] \in Terminal /\ body[t] # "running"
  /\ pc[t] \in {"AdmitNotify", "LeaveQueue", "LeaveNotify", "DropSlot",
                "DropNotify"} => IsQueued(t)

DriversStand == \A t \in Task : Stands(t)

(* A step of a driver touches no other task's entry but its parent's count, and  *)
(* leaves its own as its pc says.                                               *)
LEMMA DriverStands ==
  ASSUME TypeOK, DriversStand, NEW t \in Task, Driver(t)
  PROVE  /\ Stands(t)'
         /\ \A u \in Task \ {t} :
              /\ pc'[u] = pc[u] /\ state'[u] = state[u]
              /\ body'[u] = body[u] /\ outcome'[u] = outcome[u]
<1> Stands(t)
  BY DEF DriversStand
<1> USE DEF TypeOK, Goto, Stands, Ends, entryVars, identityVars, placeVars,
            callerVars, IsQueued, CapOf, BodyResult, Terminal
<1>1. CASE AdmitRegister(t)
  BY <1>1 DEF AdmitRegister
<1>2. CASE Admit(t)
  BY <1>2 DEF Admit
<1>3. CASE FailAdmission(t)
  BY <1>3 DEF FailAdmission, AfterError
<1>4. CASE WaitForAdmission(t)
  BY <1>4 DEF WaitForAdmission
<1>5. CASE WakeToAdmit(t)
  BY <1>5 DEF WakeToAdmit
<1>6. CASE CancelWait(t)
  BY <1>6 DEF CancelWait, AfterError
<1>7. CASE LeaveQueue(t)
  BY <1>7 DEF LeaveQueue
<1>8. CASE Notify(t)
  BY <1>8 DEF Notify
<1>9. CASE Start(t)
  BY <1>9 DEF Start
<1>10. CASE SeeCancel(t)
  BY <1>10 DEF SeeCancel
<1>11. CASE JoinBody(t)
  BY <1>11 DEF JoinBody
<1>12. CASE DropSlot(t)
  BY <1>12 DEF DropSlot
<1>13. CASE FinishRegister(t)
  BY <1>13 DEF FinishRegister
<1>14. CASE ChildrenFinished(t)
  BY <1>14 DEF ChildrenFinished
<1>15. CASE CancelChildren(t)
  BY <1>15 DEF CancelChildren
<1>16. CASE WakeToFinish(t)
  BY <1>16 DEF WakeToFinish
<1>17. CASE Classify(t)
  BY <1>17 DEF Classify
<1>18. CASE Settle(t)
  BY <1>18 DEF Settle
<1>19. QED
  BY <1>1, <1>2, <1>3, <1>4, <1>5, <1>6, <1>7, <1>8, <1>9, <1>10, <1>11, <1>12,
     <1>13, <1>14, <1>15, <1>16, <1>17, <1>18 DEF Driver

(* What a step of anyone else does: it registers one task at most, and tells at   *)
(* most one body to return.                                                     *)
Callers ==
  \/ Client
  \/ \E t \in Task : Body(t)
  \/ \E i \in Idler : IdleCall(i)
  \/ \E r \in Resource : ResourceOwner(r)

Returned(t) ==
  /\ body[t] = "running" /\ body'[t] \in BodyResult
  /\ \A u \in Task \ {t} : body'[u] = body[u]
  /\ UNCHANGED <<entryVars, placeVars, token, pc, outcome>>

Registers ==
  \/ \E t \in Task, k \in Kind : Submit(t, k)
  \/ \E p \in Task, t \in ChildTask, k \in Kind : Spawn(p, t, k)

LEMMA CallersDo ==
  ASSUME TypeOK, Callers
  PROVE  \/ Registers
         \/ \E t \in Task : Returned(t)
         \/ /\ UNCHANGED <<entryVars, placeVars, pc, body, outcome>>
            /\ token' = token \/ CancelAll \/ \E t \in Task : Cancel(t)
<1> USE DEF TypeOK, entryVars, identityVars, placeVars, callerVars, resourceVars
<1>1. CASE Client
  BY <1>1 DEF Client, Registers, Task, Cancel, CancelAll
<1>2. ASSUME NEW t \in Task, Body(t)
      PROVE  Registers \/ \E u \in Task : Returned(u)
  <2>1. ASSUME NEW result \in BodyResult, BodyReturns(t, result)
        PROVE  Returned(t)
    BY <2>1 DEF BodyReturns, Returned
  <2>2. QED
    BY <1>2, <2>1 DEF Body, Registers
<1>3. ASSUME NEW i \in Idler, IdleCall(i)
      PROVE  UNCHANGED <<entryVars, placeVars, pc, body, outcome, token>>
  BY <1>3 DEF IdleCall, IdleRegister, IdleCheck
<1>4. ASSUME NEW r \in Resource, ResourceOwner(r)
      PROVE  UNCHANGED <<entryVars, placeVars, pc, body, outcome, token>>
  BY <1>4 DEF ResourceOwner, AddResource, SetResourceState, SetResourceReady,
     ChangeResource, ResourceNotify
<1>5. QED
  BY <1>1, <1>2, <1>3, <1>4 DEF Callers

(* A registration writes the entry of one unsubmitted task, with the next seq. *)
LEMMA RegisterFrame ==
  ASSUME TypeOK, NEW t \in Task, NEW p \in Task \cup {NoTask}, NEW k \in Kind,
         Register(t, p, k)
  PROVE  /\ pc[t] = "None" /\ pc'[t] = "Register"
         /\ kind'[t] = k /\ seq'[t] = nextSeq /\ nextSeq' = nextSeq + 1
         /\ parent'[t] = p /\ known' = known \cup {t}
         /\ UNCHANGED <<state, body, outcome, admitted, settledRoots>>
         /\ \A u \in Task \ {t} :
              /\ pc'[u] = pc[u] /\ kind'[u] = kind[u] /\ seq'[u] = seq[u]
              /\ parent'[u] = parent[u]
  BY DEF TypeOK, Register, Goto, callerVars

LEMMA StandsStep ==
  ASSUME TypeOK, DriversStand, [Next]_vars
  PROVE  DriversStand'
<1>1. ASSUME NEW t \in Task, Driver(t) PROVE DriversStand'
  <2>1. ASSUME NEW u \in Task, u # t PROVE Stands(u)'
    <3>1. kind'[u] = kind[u]
      BY <1>1, DriverFrame
    <3>2. QED
      BY <1>1, <2>1, <3>1, DriverStands
         DEF DriversStand, Stands, IsQueued, CapOf
  <2>2. QED
    BY <1>1, <2>1, DriverStands DEF DriversStand
<1>2. ASSUME NEW t \in Task, NEW p \in Task \cup {NoTask}, NEW k \in Kind,
             Register(t, p, k)
      PROVE  DriversStand'
  <2>1. ASSUME NEW u \in Task PROVE Stands(u)'
    BY <1>2, RegisterFrame DEF DriversStand, Stands, IsQueued, CapOf
  <2>2. QED
    BY <2>1 DEF DriversStand
<1>3. ASSUME NEW t \in Task, Returned(t) PROVE DriversStand'
  <2>1. ASSUME NEW u \in Task PROVE Stands(u)'
    BY <1>3 DEF Returned, DriversStand, Stands, IsQueued, CapOf, entryVars,
       identityVars, BodyResult, Ends
  <2>2. QED
    BY <2>1 DEF DriversStand
<1>4. ASSUME UNCHANGED <<entryVars, pc, body, outcome>> PROVE DriversStand'
  BY <1>4 DEF DriversStand, Stands, IsQueued, CapOf, entryVars, identityVars
<1>5. QED
  BY <1>1, <1>2, <1>3, <1>4, CallersDo
     DEF Next, Callers, Registers, Submit, Spawn, AtRest, vars, entryVars,
         identityVars, Task

-----------------------------------------------------------------------------
(***************************************************************************)
(* Admission.                                                               *)
(***************************************************************************)
(* A seq is one task's: that is what lets a scope's queue hold seqs. *)
SeqsDiffer ==
  \A t, u \in Task : Submitted(t) /\ Submitted(u) /\ seq[t] = seq[u] => t = u

LEMMA SeqsDifferStep ==
  ASSUME TypeOK, SeqBelowNext, SeqsDiffer, [Next]_vars
  PROVE  SeqsDiffer'
<1> USE DEF TypeOK, SeqBelowNext, SeqsDiffer, Submitted
<1>1. ASSUME NEW t \in Task, Driver(t) PROVE SeqsDiffer'
  BY <1>1, DriverFrame, ZenonT(60)
<1>2. ASSUME NEW t \in Task, NEW p \in Task \cup {NoTask}, NEW k \in Kind,
             Register(t, p, k)
      PROVE  SeqsDiffer'
  <2>1. \A u \in Task \ {t} : pc'[u] # "None" => pc[u] # "None" /\ seq'[u] = seq[u]
    BY <1>2, RegisterFrame
  <2>2. ASSUME NEW u \in Task, pc'[u] # "None", u # t PROVE seq'[u] # nextSeq
    <3>1. pc[u] # "None" /\ seq'[u] = seq[u]
      BY <2>1, <2>2
    <3>2. seq[u] < nextSeq /\ seq[u] \in Nat /\ nextSeq \in Nat
      BY <3>1
    <3>3. QED
      BY <3>1, <3>2
  <2>3. seq'[t] = nextSeq
    BY <1>2, RegisterFrame
  <2>4. ASSUME NEW u \in Task, NEW v \in Task, pc'[u] # "None", pc'[v] # "None",
               seq'[u] = seq'[v]
        PROVE  u = v
    BY <2>1, <2>2, <2>3, <2>4
  <2>5. QED
    BY <2>4
<1>3. ASSUME UNCHANGED <<entryVars, pc>> PROVE SeqsDiffer'
  BY <1>3 DEF entryVars, identityVars
<1>4. QED
  BY <1>1, <1>2, <1>3, CallersDo
     DEF Next, Callers, Registers, Returned, Submit, Spawn, AtRest, vars,
         entryVars, identityVars, Task

LEMMA SlotHoldersFinite == \A s : IsFiniteSet(SlotHolders(s))
<1>1. IsFiniteSet(RootTask)
  BY TasksAssumption, FS_Subset DEF Task
<1>2. ASSUME NEW s PROVE IsFiniteSet(SlotHolders(s))
  BY <1>1, FS_Subset DEF SlotHolders
<1>3. QED
  BY <1>2

Line(s) == {seq[t] : t \in {u \in RootTask : InLine(u) /\ Scope(u) = s}}

LEMMA HoldersKept ==
  ASSUME \A u \in RootTask :
           (HoldsSlot(u)' <=> HoldsSlot(u)) /\ (HoldsSlot(u) => Scope(u)' = Scope(u))
  PROVE  \A s : SlotHolders(s)' = SlotHolders(s)
  BY DEF SlotHolders

LEMMA LineKept ==
  ASSUME \A u \in RootTask :
           (InLine(u)' <=> InLine(u))
           /\ (InLine(u) => Scope(u)' = Scope(u) /\ seq'[u] = seq[u])
  PROVE  \A s : Line(s)' = Line(s)
  BY DEF Line

(* What a task's driver needs to know of its place follows from its pc and kind. *)
LEMMA PlaceFrame ==
  ASSUME NEW u, pc'[u] = pc[u], kind'[u] = kind[u]
  PROVE  /\ HoldsSlot(u)' <=> HoldsSlot(u)
         /\ InLine(u)' <=> InLine(u)
         /\ Scope(u)' = Scope(u)
  BY DEF HoldsSlot, InLine, IsQueued, CapOf, Scope, ScopeOf

(* The three steps that move a root between the line, the places and neither. *)
Moves(t) == (Admit(t) /\ IsQueued(t)) \/ LeaveQueue(t) \/ DropSlot(t)

LEMMA OtherSteps ==
  ASSUME TypeOK, DriversStand, NEW t \in Task, Driver(t), ~Moves(t)
  PROVE  /\ UNCHANGED <<admitted, queue>>
         /\ HoldsSlot(t)' <=> HoldsSlot(t)
         /\ InLine(t)' <=> InLine(t)
<1> Stands(t)
  BY DEF DriversStand
<1> USE DEF TypeOK, Goto, HoldsSlot, InLine, IsQueued, CapOf, entryVars, identityVars,
            placeVars, callerVars
<1>1. CASE AdmitRegister(t) \/ Admit(t)
  BY <1>1 DEF AdmitRegister, Admit, Moves
<1>2. CASE FailAdmission(t) \/ CancelWait(t)
  BY <1>2 DEF FailAdmission, CancelWait, AfterError
<1>3. CASE WaitForAdmission(t) \/ WakeToAdmit(t)
  BY <1>3 DEF WaitForAdmission, WakeToAdmit
<1>4. CASE Notify(t)
  BY <1>4 DEF Notify
<1>5. CASE Start(t) \/ SeeCancel(t)
  BY <1>5 DEF Start, SeeCancel
<1>6. CASE JoinBody(t)
  BY <1>6 DEF JoinBody
<1>7. CASE FinishRegister(t) \/ ChildrenFinished(t) \/ CancelChildren(t)
  BY <1>7 DEF FinishRegister, ChildrenFinished, CancelChildren
<1>8. CASE WakeToFinish(t) \/ Classify(t) \/ Settle(t)
  BY <1>8 DEF WakeToFinish, Classify, Settle
<1>9. QED
  BY <1>1, <1>2, <1>3, <1>4, <1>5, <1>6, <1>7, <1>8 DEF Driver, Moves

LEMMA OthersKeepPlaces ==
  ASSUME TypeOK, NEW t \in Task, Driver(t), NEW u \in Task, u # t
  PROVE  /\ HoldsSlot(u)' <=> HoldsSlot(u)
         /\ InLine(u)' <=> InLine(u)
         /\ Scope(u)' = Scope(u)
<1>1. pc'[u] = pc[u] /\ kind'[u] = kind[u]
  BY DriverFrame
<1>2. QED
  BY <1>1, PlaceFrame

(* Each of the three does to the sets what it does to the counters and the queue. *)
LEMMA AdmitPlaces ==
  ASSUME TypeOK, NEW t \in Task, Admit(t), IsQueued(t)
  PROVE  /\ t \in RootTask
         /\ InLine(t) /\ ~InLine(t)' /\ ~HoldsSlot(t) /\ HoldsSlot(t)'
         /\ Scope(t)' = Scope(t) /\ Scope(t) \in Scopes
         /\ \A s \in Scopes : SlotHolders(s)' =
              IF s = Scope(t) THEN SlotHolders(s) \cup {t} ELSE SlotHolders(s)
<1> Driver(t)
  BY DEF Driver
<1>1. /\ t \in RootTask
      /\ InLine(t) /\ ~InLine(t)' /\ ~HoldsSlot(t) /\ HoldsSlot(t)'
  BY DEF TypeOK, Admit, Goto, InLine, HoldsSlot, IsQueued, CapOf, entryVars,
     identityVars
<1>2. Scope(t)' = Scope(t)
  BY DriverFrame DEF Scope, ScopeOf
<1>3. Scope(t) \in Scopes
  BY ScopeInScopes DEF Scope, TypeOK
<1>4. \A u \in RootTask \ {t} :
        (HoldsSlot(u)' <=> HoldsSlot(u)) /\ Scope(u)' = Scope(u)
  BY OthersKeepPlaces DEF Task
<1>5. QED
  BY <1>1, <1>2, <1>3, <1>4 DEF SlotHolders

LEMMA DropPlaces ==
  ASSUME TypeOK, DriversStand, NEW t \in Task, DropSlot(t)
  PROVE  /\ t \in RootTask
         /\ ~InLine(t) /\ ~InLine(t)' /\ HoldsSlot(t) /\ ~HoldsSlot(t)'
         /\ Scope(t)' = Scope(t) /\ Scope(t) \in Scopes
         /\ \A s \in Scopes : SlotHolders(s)' =
              IF s = Scope(t) THEN SlotHolders(s) \ {t} ELSE SlotHolders(s)
<1> Driver(t)
  BY DEF Driver
<1> Stands(t)
  BY DEF DriversStand
<1>1. /\ t \in RootTask
      /\ ~InLine(t) /\ ~InLine(t)' /\ HoldsSlot(t) /\ ~HoldsSlot(t)'
  BY DEF TypeOK, DropSlot, Goto, InLine, HoldsSlot, IsQueued, CapOf, Stands,
     entryVars, identityVars
<1>2. Scope(t)' = Scope(t)
  BY DriverFrame DEF Scope, ScopeOf
<1>3. Scope(t) \in Scopes
  BY ScopeInScopes DEF Scope, TypeOK
<1>4. \A u \in RootTask \ {t} :
        (HoldsSlot(u)' <=> HoldsSlot(u)) /\ Scope(u)' = Scope(u)
  BY OthersKeepPlaces DEF Task
<1>5. QED
  BY <1>1, <1>2, <1>3, <1>4 DEF SlotHolders

(* The cap is that of the class in the scope. *)
LEMMA CapOfScope == \A t \in Task : Cap[Scope(t)[1]] = CapOf(t)
  BY DEF Scope, ScopeOf, CapOf

LEMMA CapStep ==
  ASSUME TypeOK, DriversStand, CapRespected, [Next]_vars
  PROVE  CapRespected'
<1> USE DEF CapRespected
<1>1. ASSUME UNCHANGED admitted, \A s : SlotHolders(s)' = SlotHolders(s)
      PROVE  CapRespected'
  BY <1>1
<1>2. ASSUME NEW t \in Task, Driver(t), ~Moves(t) PROVE CapRespected'
  <2>1. ASSUME NEW u \in RootTask
        PROVE  (HoldsSlot(u)' <=> HoldsSlot(u)) /\ Scope(u)' = Scope(u)
    <3>1. Scope(t)' = Scope(t)
      BY <1>2, DriverFrame DEF Scope, ScopeOf
    <3>2. QED
      BY <1>2, <3>1, OtherSteps, OthersKeepPlaces DEF Task
  <2>2. QED
    BY <1>1, <1>2, <2>1, HoldersKept, OtherSteps
<1>3. ASSUME NEW t \in Task, Admit(t), IsQueued(t) PROVE CapRespected'
  <2>1. admitted' = [admitted EXCEPT ![Scope(t)] = @ + 1]
    BY <1>3 DEF Admit
  <2>2. admitted[Scope(t)] < CapOf(t)
    BY <1>3 DEF Admit, MayAdmit
  <2>3. CapOf(t) \in Nat
    BY <1>3, PolicyAssumption DEF IsQueued, CapOf, TypeOK
  <2>4. t \notin SlotHolders(Scope(t))
    BY <1>3, AdmitPlaces DEF SlotHolders
  <2>5. Cardinality(SlotHolders(Scope(t)) \cup {t})
          = Cardinality(SlotHolders(Scope(t))) + 1
    BY <2>4, SlotHoldersFinite, FS_AddElement
  <2>6. ASSUME NEW s \in Scopes
        PROVE  /\ admitted'[s] = Cardinality(SlotHolders(s)')
               /\ Cap[s[1]] # Unbounded => admitted'[s] <= Cap[s[1]]
    <3>1. SlotHolders(s)' =
            IF s = Scope(t) THEN SlotHolders(s) \cup {t} ELSE SlotHolders(s)
      BY <1>3, AdmitPlaces
    <3>2. CASE s = Scope(t)
      <4>1. admitted'[s] = admitted[s] + 1 /\ admitted[s] \in Nat
        BY <2>1, <3>2 DEF TypeOK
      <4>2. QED
        BY <2>2, <2>3, <2>5, <3>1, <3>2, <4>1, CapOfScope
    <3>3. CASE s # Scope(t)
      BY <2>1, <3>1, <3>3 DEF TypeOK
    <3>4. QED
      BY <3>2, <3>3
  <2>7. QED
    BY <2>6
<1>4. ASSUME NEW t \in Task, LeaveQueue(t) PROVE CapRespected'
  <2>1. ASSUME NEW u \in RootTask
        PROVE  (HoldsSlot(u)' <=> HoldsSlot(u)) /\ Scope(u)' = Scope(u)
    <3>1. Driver(t)
      BY <1>4 DEF Driver
    <3>2. (HoldsSlot(t)' <=> HoldsSlot(t)) /\ Scope(t)' = Scope(t)
      BY <1>4, <3>1, DriverFrame
         DEF LeaveQueue, Goto, HoldsSlot, TypeOK, Scope, ScopeOf
    <3>3. QED
      BY <3>1, <3>2, OthersKeepPlaces DEF Task
  <2>2. QED
    BY <1>1, <1>4, <2>1, HoldersKept DEF LeaveQueue
<1>5. ASSUME NEW t \in Task, DropSlot(t) PROVE CapRespected'
  <2>1. t \in SlotHolders(Scope(t))
    BY <1>5, DropPlaces DEF SlotHolders
  <2>2. Cardinality(SlotHolders(Scope(t))) \in Nat \ {0}
    BY <2>1, SlotHoldersFinite, FS_CardinalityType, FS_EmptySet
  <2>3. admitted' = [admitted EXCEPT ![Scope(t)] = @ - 1]
    BY <1>5, <2>2, DropPlaces DEF DropSlot, TypeOK
  <2>4. Cardinality(SlotHolders(Scope(t)) \ {t})
          = Cardinality(SlotHolders(Scope(t))) - 1
    BY <2>1, SlotHoldersFinite, FS_RemoveElement
  <2>5. Cap[Scope(t)[1]] # Unbounded => Cap[Scope(t)[1]] \in Nat
    BY <1>5, CapOfScope, PolicyAssumption DEF CapOf, TypeOK
  <2>6. ASSUME NEW s \in Scopes
        PROVE  /\ admitted'[s] = Cardinality(SlotHolders(s)')
               /\ Cap[s[1]] # Unbounded => admitted'[s] <= Cap[s[1]]
    <3>1. SlotHolders(s)' =
            IF s = Scope(t) THEN SlotHolders(s) \ {t} ELSE SlotHolders(s)
      BY <1>5, DropPlaces
    <3>2. CASE s = Scope(t)
      <4>1. admitted'[s] = admitted[s] - 1 /\ admitted[s] \in Nat
        BY <2>3, <3>2 DEF TypeOK
      <4>2. QED
        BY <2>2, <2>4, <2>5, <3>1, <3>2, <4>1
    <3>3. CASE s # Scope(t)
      BY <2>3, <3>1, <3>3 DEF TypeOK
    <3>4. QED
      BY <3>2, <3>3
  <2>7. QED
    BY <2>6
<1>6. ASSUME NEW t \in Task, NEW p \in Task \cup {NoTask}, NEW k \in Kind,
             Register(t, p, k)
      PROVE  CapRespected'
  <2>1. ASSUME NEW u \in RootTask
        PROVE  (HoldsSlot(u)' <=> HoldsSlot(u))
               /\ (HoldsSlot(u) => Scope(u)' = Scope(u))
    <3>1. u = t => ~HoldsSlot(u) /\ ~HoldsSlot(u)'
      BY <1>6, RegisterFrame DEF HoldsSlot
    <3>2. u # t => pc'[u] = pc[u] /\ kind'[u] = kind[u]
      BY <1>6, RegisterFrame DEF Task
    <3>3. QED
      BY <3>1, <3>2, PlaceFrame
  <2>2. QED
    BY <1>1, <1>6, <2>1, HoldersKept, RegisterFrame
<1>7. ASSUME UNCHANGED <<entryVars, placeVars, pc>> PROVE CapRespected'
  <2>1. \A u \in RootTask :
          (HoldsSlot(u)' <=> HoldsSlot(u)) /\ Scope(u)' = Scope(u)
    BY <1>7, PlaceFrame DEF entryVars, identityVars
  <2>2. QED
    BY <1>1, <1>7, <2>1, HoldersKept DEF placeVars
<1>8. QED
  BY <1>2, <1>3, <1>4, <1>5, <1>6, <1>7, CallersDo
     DEF Next, Moves, Callers, Registers, Returned, Submit, Spawn, AtRest, vars,
         entryVars, identityVars, placeVars, Task


LEMMA QueueIsLine == QueueHoldsTheLine <=> \A s \in Scopes : queue[s] = Line(s)
  BY DEF QueueHoldsTheLine, Line

(* A root that leaves the line takes its seq out of its scope's, and no other's. *)
LEMMA LeavesLine ==
  ASSUME TypeOK, SeqsDiffer, QueueHoldsTheLine, NEW t \in RootTask, Driver(t),
         InLine(t), ~InLine(t)',
         queue' = [queue EXCEPT ![Scope(t)] = @ \ {seq[t]}]
  PROVE  QueueHoldsTheLine'
<1>1. t \in Task
  BY DEF Task
<1>2. /\ \A u \in RootTask : Scope(u)' = Scope(u) /\ seq'[u] = seq[u]
      /\ \A u \in RootTask \ {t} : InLine(u)' <=> InLine(u)
  BY <1>1, DriverFrame, OthersKeepPlaces DEF Task, Scope, ScopeOf
<1>3. ASSUME NEW u \in RootTask, InLine(u), seq[u] = seq[t] PROVE u = t
  BY <1>3 DEF SeqsDiffer, InLine, Submitted, Task
<1>4. ASSUME NEW s \in Scopes PROVE queue'[s] = Line(s)'
  <2>1. Line(s)' = {seq[v] : v \in {u \in RootTask \ {t} : InLine(u) /\ Scope(u) = s}}
    BY <1>2 DEF Line
  <2>2. CASE s = Scope(t)
    <3>1. queue'[s] = Line(s) \ {seq[t]}
      BY <2>2, QueueIsLine DEF TypeOK
    <3>2. QED
      BY <1>3, <2>1, <3>1 DEF Line
  <2>3. CASE s # Scope(t)
    <3>1. queue'[s] = Line(s)
      BY <2>3, QueueIsLine DEF TypeOK
    <3>2. QED
      BY <2>1, <2>3, <3>1 DEF Line
  <2>4. QED
    BY <2>2, <2>3
<1>5. QED
  BY <1>4 DEF QueueHoldsTheLine, Line

LEMMA QueueStep ==
  ASSUME TypeOK, DriversStand, SeqsDiffer, QueueHoldsTheLine, [Next]_vars
  PROVE  QueueHoldsTheLine'
<1>1. ASSUME UNCHANGED queue, \A s : Line(s)' = Line(s) PROVE QueueHoldsTheLine'
  BY <1>1 DEF QueueHoldsTheLine, Line
<1>2. ASSUME NEW t \in Task, Driver(t), UNCHANGED queue, InLine(t)' <=> InLine(t)
      PROVE  QueueHoldsTheLine'
  <2>1. ASSUME NEW u \in RootTask
        PROVE  (InLine(u)' <=> InLine(u)) /\ Scope(u)' = Scope(u) /\ seq'[u] = seq[u]
    BY <1>2, DriverFrame, OthersKeepPlaces DEF Task, Scope, ScopeOf
  <2>2. QED
    BY <1>1, <1>2, <2>1, LineKept
<1>3. ASSUME NEW t \in Task, Driver(t), ~Moves(t) PROVE QueueHoldsTheLine'
  BY <1>2, <1>3, OtherSteps
<1>4. ASSUME NEW t \in Task, Admit(t), IsQueued(t) PROVE QueueHoldsTheLine'
  BY <1>4, AdmitPlaces, LeavesLine DEF Admit, Driver
<1>5. ASSUME NEW t \in Task, LeaveQueue(t) PROVE QueueHoldsTheLine'
  <2>1. IsQueued(t) /\ InLine(t) /\ ~InLine(t)'
    BY <1>5 DEF LeaveQueue, Goto, InLine, TypeOK, DriversStand, Stands
  <2>2. QED
    BY <1>5, <2>1, LeavesLine DEF LeaveQueue, Driver, IsQueued
<1>6. ASSUME NEW t \in Task, DropSlot(t) PROVE QueueHoldsTheLine'
  BY <1>2, <1>6, DropPlaces DEF DropSlot, Driver
<1>7. ASSUME NEW t \in Task, NEW k \in Kind, Submit(t, k) PROVE QueueHoldsTheLine'
  <2>1. Register(t, NoTask, k) /\ t \in RootTask
    BY <1>7 DEF Submit
  <2>2. ASSUME NEW u \in RootTask \ {t}
        PROVE  (InLine(u)' <=> InLine(u)) /\ Scope(u)' = Scope(u) /\ seq'[u] = seq[u]
    BY <2>1, RegisterFrame, PlaceFrame DEF Task
  <2>3. ~InLine(t) /\ Scope(t)' = ScopeOf(k) /\ seq'[t] = nextSeq
    BY <2>1, RegisterFrame DEF InLine, Scope
  <2>4. InLine(t)' <=> Cap[k.class] # Unbounded
    BY <2>1, RegisterFrame DEF InLine, IsQueued, CapOf
  <2>5. ASSUME NEW s \in Scopes PROVE queue'[s] = Line(s)'
    <3>1. Line(s)' = IF s = ScopeOf(k) /\ Cap[k.class] # Unbounded
                     THEN Line(s) \cup {nextSeq} ELSE Line(s)
      BY <2>1, <2>2, <2>3, <2>4 DEF Line
    <3>2. queue'[s] = IF s = ScopeOf(k) /\ Cap[k.class] # Unbounded
                      THEN queue[s] \cup {nextSeq} ELSE queue[s]
      BY <1>7 DEF Submit, TypeOK
    <3>3. QED
      BY <3>1, <3>2, QueueIsLine
  <2>6. QED
    BY <2>5 DEF QueueHoldsTheLine, Line
<1>8. ASSUME NEW p \in Task, NEW t \in ChildTask, NEW k \in Kind, Spawn(p, t, k)
      PROVE  QueueHoldsTheLine'
  <2>1. Register(t, p, k) /\ UNCHANGED queue /\ t \in Task
    BY <1>8 DEF Spawn, Task
  <2>2. ASSUME NEW u \in RootTask
        PROVE  (InLine(u)' <=> InLine(u)) /\ Scope(u)' = Scope(u) /\ seq'[u] = seq[u]
    <3>1. u # t /\ u \in Task
      BY TasksAssumption DEF Task
    <3>2. QED
      BY <2>1, <3>1, RegisterFrame, PlaceFrame
  <2>3. QED
    BY <1>1, <2>1, <2>2, LineKept
<1>9. ASSUME UNCHANGED <<entryVars, placeVars, pc>> PROVE QueueHoldsTheLine'
  <2>1. \A u \in RootTask :
          (InLine(u)' <=> InLine(u)) /\ Scope(u)' = Scope(u) /\ seq'[u] = seq[u]
    BY <1>9, PlaceFrame DEF entryVars, identityVars
  <2>2. QED
    BY <1>1, <1>9, <2>1, LineKept DEF placeVars
<1>10. QED
  BY <1>3, <1>4, <1>5, <1>6, <1>7, <1>8, <1>9, CallersDo
     DEF Next, Moves, Callers, Registers, Returned, AtRest, vars, entryVars,
         identityVars, placeVars

AdmissionInv ==
  TypeOK /\ DriversStand /\ SeqBelowNext /\ SeqsDiffer /\ CapRespected
  /\ QueueHoldsTheLine

LEMMA InitAdmission == Init => AdmissionInv
<1> SUFFICES ASSUME Init PROVE AdmissionInv
  OBVIOUS
<1>1. TypeOK /\ SeqBelowNext
  BY InitType, InitWakeup DEF WakeupInv
<1>2. DriversStand /\ SeqsDiffer
  BY DEF Init, DriversStand, Stands, SeqsDiffer, Submitted
<1>4. \A s \in Scopes : SlotHolders(s) = {} /\ Line(s) = {}
  BY DEF Init, SlotHolders, Line, HoldsSlot, InLine, Task
<1>5. \A s \in Scopes : admitted[s] = 0 /\ queue[s] = {}
  BY DEF Init
<1>6. ASSUME NEW s \in Scopes, Cap[s[1]] # Unbounded PROVE 0 <= Cap[s[1]]
  <2>1. s[1] \in Class
    BY PolicyAssumption DEF Scopes, ScopeOf
  <2>2. QED
    BY <1>6, <2>1, PolicyAssumption
<1>7. CapRespected
  BY <1>4, <1>5, <1>6, FS_EmptySet DEF CapRespected
<1>8. QueueHoldsTheLine
  BY <1>4, <1>5, QueueIsLine
<1>9. QED
  BY <1>1, <1>2, <1>7, <1>8 DEF AdmissionInv

LEMMA AdmissionInvariance == Spec => []AdmissionInv
<1>1. TypeOK /\ AdmissionInv /\ [Next]_vars /\ TypeOK' => AdmissionInv'
  BY StandsStep, SeqStep, SeqsDifferStep, CapStep, QueueStep DEF AdmissionInv
<1>2. QED
  BY <1>1, InitAdmission, TypeCorrect, PTL DEF Spec

(* A running body's driver holds its place until the body is over. *)
LEMMA BodiesAreHeld ==
  ASSUME TypeOK, DriversStand, CapRespected
  PROVE  BodiesWithinCap
<1> SUFFICES ASSUME NEW s \in Scopes, Cap[s[1]] # Unbounded
             PROVE  Cardinality({t \in RootTask : Scope(t) = s /\ body[t] = "running"})
                      <= Cap[s[1]]
  BY DEF BodiesWithinCap
<1> DEFINE Running == {t \in RootTask : Scope(t) = s /\ body[t] = "running"}
<1>1. ASSUME NEW t \in RootTask, Scope(t) = s, body[t] = "running"
      PROVE  t \in SlotHolders(s)
  <2>1. t \in Task /\ Stands(t)
    BY DEF Task, DriversStand
  <2>2. IsQueued(t)
    BY <1>1, <2>1, CapOfScope DEF IsQueued
  <2>3. pc[t] \in {"Select", "Join"}
    BY <1>1, <2>1 DEF Stands, TypeOK, DriverPc, BodyResult
  <2>4. QED
    BY <1>1, <2>2, <2>3 DEF SlotHolders, HoldsSlot
<1>2. Running \in SUBSET SlotHolders(s)
  BY <1>1
<1>3. Cardinality(Running) <= Cardinality(SlotHolders(s))
  BY <1>2, SlotHoldersFinite, FS_Subset
<1>4. Cardinality(Running) \in Nat /\ Cardinality(SlotHolders(s)) \in Nat
  BY <1>2, SlotHoldersFinite, FS_Subset, FS_CardinalityType
<1>5. Cardinality(SlotHolders(s)) <= Cap[s[1]] /\ Cap[s[1]] \in Nat
  <2>1. s[1] \in Class
    BY PolicyAssumption DEF Scopes, ScopeOf
  <2>2. QED
    BY <2>1, PolicyAssumption DEF CapRespected
<1>6. QED
  BY <1>3, <1>4, <1>5

(* Whatever is cancelled, fails or ends meanwhile: no scope has more roots      *)
(* admitted, or bodies running, than its class's cap; no place is leaked or     *)
(* given back twice; and no scope's queue holds a seq that would block it.      *)
THEOREM AdmissionIsRight == Spec => []AdmissionHolds
<1>1. AdmissionInv => AdmissionHolds
  BY BodiesAreHeld DEF AdmissionInv, AdmissionHolds
<1>2. QED
  BY <1>1, AdmissionInvariance, PTL


-----------------------------------------------------------------------------
(***************************************************************************)
(* Subtrees: closed under children, and nothing but children.               *)
(***************************************************************************)
LEMMA SubtreeClosed ==
  ASSUME NEW t, NEW c \in ChildTask, parent[c] \in Subtree(t)
  PROVE  c \in Subtree(t)
<1>1. ASSUME NEW S \in SUBSET ChildTask, HoldsBelow(t, S) PROVE c \in S
  BY <1>1 DEF Subtree, HoldsBelow
<1>2. QED
  BY <1>1 DEF Subtree

LEMMA SubtreeSmallest ==
  ASSUME NEW t, NEW S \in SUBSET ChildTask, HoldsBelow(t, S)
  PROVE  Subtree(t) \subseteq {t} \cup S
  BY DEF Subtree

LEMMA SubtreeHasParents ==
  ASSUME NEW t, NEW c \in ChildTask, c # t, c \in Subtree(t)
  PROVE  parent[c] \in Subtree(t)
<1> SUFFICES ASSUME parent[c] \notin Subtree(t) PROVE FALSE
  OBVIOUS
<1> DEFINE S == (Subtree(t) \cap ChildTask) \ {c}
<1>1. ASSUME NEW d \in ChildTask, parent[d] \in {t} \cup S PROVE d \in S
  <2>1. parent[d] \in Subtree(t)
    BY <1>1 DEF Subtree
  <2>2. QED
    BY <2>1, SubtreeClosed
<1>2. HoldsBelow(t, S)
  BY <1>1 DEF HoldsBelow
<1>3. QED
  BY <1>2, SubtreeSmallest

LEMMA SubtreeOfRoot ==
  ASSUME NEW t
  PROVE  t \in Subtree(t) /\ Subtree(t) \subseteq {t} \cup ChildTask
  BY DEF Subtree

(***************************************************************************)
(* The tree.                                                                *)
(***************************************************************************)
(* From here on a driver has seen its children settled. *)
Late == {"Classify", "Settle", "SettleNotify", "Done"}

Unsettled(t) == {c \in Children(t) : ~IsSettled(c)}

Parents ==
  \A c \in Task :
    IF c \in ChildTask /\ Submitted(c)
    THEN parent[c] \in Task /\ Submitted(parent[c]) ELSE parent[c] = NoTask

(* Only a body that was started has children, and none is started late. *)
ChildrenInTime ==
  \A t \in Task :
    /\ body[t] = "none" => Children(t) = {}
    /\ ~Submitted(t) => live[t] = 0 /\ t \notin known
    /\ pc[t] \in Late => Unsettled(t) = {}

Kept == \A t \in Task : Submitted(t) /\ t \notin known => IsSettled(t)

TreeInv ==
  /\ Parents /\ ChildrenInTime /\ Kept
  /\ LiveCountsChildren /\ SubtreesKeptWhole /\ CancelReachesSubtree

(* A task is settled when its driver has settled it. *)
LEMMA SettledByPc ==
  ASSUME TypeOK, DriversStand, NEW t \in Task
  PROVE  IsSettled(t) <=> pc[t] \in {"SettleNotify", "Done"}
  BY DEF TypeOK, DriversStand, Stands, IsSettled, Terminal, DriverPc

LEMMA ChildrenFinite == \A t : IsFiniteSet(Children(t)) /\ IsFiniteSet(Unsettled(t))
  BY TasksAssumption, FS_Subset DEF Children, Unsettled

LEMMA TreeMeans ==
  ASSUME TypeOK, DriversStand, TreeInv
  PROVE  TreeHolds
<1>1. ChildNeverOutlives
  <2> SUFFICES ASSUME NEW c \in ChildTask, Submitted(c), ~IsSettled(c)
               PROVE  parent[c] \in known /\ ~IsSettled(parent[c])
    BY DEF ChildNeverOutlives
  <2>1. parent[c] \in Task /\ Submitted(parent[c])
    BY DEF TreeInv, Parents, Task
  <2>2. c \in Unsettled(parent[c])
    BY DEF Unsettled, Children, Task
  <2>3. pc[parent[c]] \notin Late
    BY <2>1, <2>2 DEF TreeInv, ChildrenInTime
  <2>4. ~IsSettled(parent[c])
    BY <2>1, <2>3, SettledByPc DEF Late
  <2>5. QED
    BY <2>1, <2>4 DEF TreeInv, Kept
<1>2. NothingLiveEvicted
  <2> SUFFICES ASSUME NEW t \in Task, Submitted(t), t \notin known
               PROVE  /\ IsSettled(t) /\ pc[t] \in {"SettleNotify", "Done"}
                      /\ body[t] # "running"
    BY DEF NothingLiveEvicted
  <2>1. IsSettled(t)
    BY DEF TreeInv, Kept
  <2>2. pc[t] \in {"SettleNotify", "Done"}
    BY <2>1, SettledByPc
  <2>3. QED
    BY <2>1, <2>2 DEF DriversStand, Stands
<1>3. QED
  BY <1>1, <1>2 DEF TreeInv, TreeHolds

(* Cancelling whole subtrees keeps children's tokens cancelled with their parents'. *)
LEMMA CancelKeeps ==
  ASSUME TypeOK, Parents, CancelReachesSubtree, NEW tasks, CancelTokens(tasks),
         UNCHANGED <<parent, pc>>
  PROVE  CancelReachesSubtree'
<1> SUFFICES ASSUME NEW c \in ChildTask, Submitted(c), token'[parent[c]]
             PROVE  token'[c]
  BY DEF CancelReachesSubtree, Submitted
<1> DEFINE Reached == UNION {Subtree(t) : t \in tasks}
<1>1. \A t \in Task : token'[t] = (token[t] \/ t \in Reached)
  BY DEF CancelTokens
<1>2. c \in Task /\ parent[c] \in Task
  BY DEF Task, Parents
<1>3. CASE token[parent[c]]
  BY <1>1, <1>2, <1>3 DEF CancelReachesSubtree
<1>4. CASE parent[c] \in Reached
  <2>1. PICK t \in tasks : parent[c] \in Subtree(t)
    BY <1>4
  <2>2. c \in Subtree(t)
    BY <2>1, SubtreeClosed
  <2>3. QED
    BY <1>1, <1>2, <2>2
<1>5. QED
  BY <1>1, <1>2, <1>3, <1>4

(* A step that registers nobody and settles nobody leaves the tree as it is. *)
LEMMA TreeFrame ==
  ASSUME TreeInv, CancelReachesSubtree',
         UNCHANGED <<known, parent, live, settledRoots>>,
         \A u \in Task : /\ IsSettled(u)' <=> IsSettled(u)
                         /\ Submitted(u)' <=> Submitted(u)
                         /\ body'[u] = "none" => body[u] = "none"
                         /\ pc'[u] \in Late => Unsettled(u) = {}
  PROVE  TreeInv'
<1>1. \A u : Children(u)' = Children(u)
  BY DEF Children
<1>2. \A u : Unsettled(u)' = Unsettled(u)
  BY <1>1 DEF Unsettled, Children
<1>3. Parents' /\ Kept'
  BY DEF TreeInv, Parents, Kept
<1>4. ChildrenInTime'
  BY <1>1, <1>2 DEF TreeInv, ChildrenInTime
<1>5. LiveCountsChildren'
  BY <1>2 DEF TreeInv, LiveCountsChildren, Unsettled
<1>6. SubtreesKeptWhole'
  <2>1. {t \in RootTask \cap known : IsSettled(t)}'
          = {t \in RootTask \cap known : IsSettled(t)}
    BY DEF Task
  <2>2. \A c \in ChildTask : Submitted(c)' <=> Submitted(c)
    BY DEF Task
  <2>3. QED
    BY <2>1, <2>2 DEF TreeInv, SubtreesKeptWhole
<1>7. QED
  BY <1>3, <1>4, <1>5, <1>6 DEF TreeInv


(* What a step of a driver that does not settle leaves alone, and from where it  *)
(* may come to be late.                                                         *)
LEMMA BeforeSettling ==
  ASSUME TypeOK, NEW t \in Task, Driver(t), ~Settle(t)
  PROVE  /\ UNCHANGED <<known, parent, live, settledRoots>>
         /\ token' = token \/ CancelChildren(t)
         /\ body'[t] = "none" => body[t] = "none"
         /\ pc'[t] \in {"SettleNotify", "Done"} <=> pc[t] \in {"SettleNotify", "Done"}
         /\ pc'[t] \in Late =>
              \/ pc[t] \in Late \cup {"Check", "Wait", "LeaveNotify"}
              \/ ChildrenFinished(t)
<1> USE DEF TypeOK, Goto, Late, entryVars, identityVars, placeVars, callerVars
<1>1. CASE AdmitRegister(t) \/ Admit(t)
  BY <1>1 DEF AdmitRegister, Admit
<1>2. CASE FailAdmission(t) \/ CancelWait(t)
  BY <1>2 DEF FailAdmission, CancelWait, AfterError
<1>3. CASE WaitForAdmission(t) \/ WakeToAdmit(t) \/ LeaveQueue(t)
  BY <1>3 DEF WaitForAdmission, WakeToAdmit, LeaveQueue
<1>4. CASE Notify(t)
  BY <1>4 DEF Notify
<1>5. CASE Start(t) \/ SeeCancel(t)
  BY <1>5 DEF Start, SeeCancel
<1>6. CASE JoinBody(t) \/ DropSlot(t)
  BY <1>6 DEF JoinBody, DropSlot
<1>7. CASE FinishRegister(t) \/ ChildrenFinished(t)
  BY <1>7 DEF FinishRegister, ChildrenFinished
<1>8. CASE CancelChildren(t)
  BY <1>8 DEF CancelChildren
<1>9. CASE WakeToFinish(t) \/ Classify(t)
  BY <1>9 DEF WakeToFinish, Classify
<1>10. QED
  BY <1>1, <1>2, <1>3, <1>4, <1>5, <1>6, <1>7, <1>8, <1>9 DEF Driver

LEMMA DriverTree ==
  ASSUME TypeOK, DriversStand, DriversStand', TypeOK', TreeInv,
         NEW t \in Task, Driver(t), ~Settle(t)
  PROVE  TreeInv'
<1>1. UNCHANGED <<known, parent, live, settledRoots>>
  BY BeforeSettling
<1>2. /\ pc[t] # "None" /\ pc'[t] # "None"
      /\ \A u \in Task \ {t} : pc'[u] = pc[u] /\ body'[u] = body[u]
  BY DriverFrame, DriverStands
<1>3. CancelReachesSubtree'
  <2>1. \A u \in Task : Submitted(u)' <=> Submitted(u)
    BY <1>2 DEF Submitted
  <2>2. CASE token' = token
    BY <1>1, <2>1, <2>2 DEF TreeInv, CancelReachesSubtree, Task
  <2>3. CASE CancelChildren(t)
    <3> DEFINE cancelled == {c \in Children(t) \cap known : ~IsSettled(c)}
    <3>1. CancelTokens(cancelled)
      BY <2>3 DEF CancelChildren
    <3> SUFFICES ASSUME NEW c \in ChildTask, Submitted(c)', token'[parent'[c]]
                 PROVE  token'[c]
      BY DEF CancelReachesSubtree
    <3>2. c \in Task /\ Submitted(c) /\ parent[c] \in Task /\ parent'[c] = parent[c]
      BY <1>1, <2>1 DEF Task, TreeInv, Parents
    <3>3. \A u \in Task :
            token'[u] = (token[u] \/ u \in UNION {Subtree(d) : d \in cancelled})
      BY <3>1 DEF CancelTokens
    <3>4. parent[c] \in UNION {Subtree(d) : d \in cancelled}
            => c \in UNION {Subtree(d) : d \in cancelled}
      BY SubtreeClosed
    <3>5. QED
      BY <3>2, <3>3, <3>4 DEF TreeInv, CancelReachesSubtree
  <2>4. QED
    BY <2>2, <2>3, BeforeSettling
<1>4. pc'[t] \in Late => Unsettled(t) = {}
  <2>1. CASE pc[t] \in Late
    BY <2>1 DEF TreeInv, ChildrenInTime
  <2>2. CASE pc[t] \in {"Check", "Wait", "LeaveNotify"}
    <3>1. body[t] = "none"
      BY <2>2 DEF DriversStand, Stands
    <3>2. QED
      BY <3>1 DEF TreeInv, ChildrenInTime, Unsettled
  <2>3. CASE ChildrenFinished(t)
    <3>1. pc[t] = "FinishCheck"
      BY <2>3 DEF ChildrenFinished, Goto
    <3>2. t \in known
      BY <3>1, SettledByPc DEF TreeInv, Kept, Submitted
    <3>3. Cardinality(Unsettled(t)) = 0
      BY <2>3, <3>2 DEF ChildrenFinished, TreeInv, LiveCountsChildren, Unsettled
    <3>4. QED
      BY <3>3, ChildrenFinite, FS_EmptySet
  <2>4. QED
    BY <2>1, <2>2, <2>3, BeforeSettling
<1>5. ASSUME NEW u \in Task
      PROVE  /\ IsSettled(u)' <=> IsSettled(u)
             /\ Submitted(u)' <=> Submitted(u)
             /\ body'[u] = "none" => body[u] = "none"
             /\ pc'[u] \in Late => Unsettled(u) = {}
  <2>1. IsSettled(u)' <=> pc'[u] \in {"SettleNotify", "Done"}
    BY ZenonT(60) DEF TypeOK, DriversStand, Stands, IsSettled, Terminal, DriverPc
  <2>2. IsSettled(u) <=> pc[u] \in {"SettleNotify", "Done"}
    BY SettledByPc
  <2>3. CASE u = t
    BY <1>2, <1>4, <2>1, <2>2, <2>3, BeforeSettling DEF Submitted
  <2>4. CASE u # t
    BY <1>2, <2>1, <2>2, <2>4 DEF Submitted, TreeInv, ChildrenInTime
  <2>5. QED
    BY <2>3, <2>4
<1>6. QED
  BY <1>1, <1>3, <1>5, TreeFrame

(* A registered task has no children yet, is unsettled, and its parent is running. *)
LEMMA RegisterTree ==
  ASSUME TypeOK, DriversStand, TreeInv,
         NEW t \in Task, NEW p \in Task \cup {NoTask}, NEW k \in Kind,
         Register(t, p, k),
         \/ t \notin ChildTask /\ p = NoTask /\ UNCHANGED <<live, token>>
         \/ /\ t \in ChildTask /\ p \in Task /\ body[p] = "running"
            /\ live' = IF p \in known THEN [live EXCEPT ![p] = @ + 1] ELSE live
            /\ token' = [token EXCEPT ![t] = token[p]]
  PROVE  TreeInv'
<1> USE DEF TreeInv
<1>1. /\ pc[t] = "None" /\ pc'[t] = "Register" /\ parent'[t] = p
      /\ known' = known \cup {t} /\ t \notin known /\ live[t] = 0
      /\ UNCHANGED <<state, body, settledRoots>>
      /\ \A u \in Task \ {t} : pc'[u] = pc[u] /\ parent'[u] = parent[u]
  BY RegisterFrame DEF ChildrenInTime, Submitted
<1>2. /\ ~Submitted(t) /\ Submitted(t)'
      /\ \A u \in Task \ {t} : Submitted(u)' <=> Submitted(u)
  BY <1>1 DEF Submitted
<1>3. parent[t] = NoTask /\ Children(t) = {} /\ body[t] = "none" /\ ~IsSettled(t)
      /\ \A u \in Task : IsSettled(u)' <=> IsSettled(u)
  BY <1>1, <1>2
     DEF Parents, ChildrenInTime, DriversStand, Stands, IsSettled, Terminal
<1>4. ASSUME p \in Task
      PROVE  /\ p # t /\ p \in known /\ Submitted(p) /\ pc[p] \notin Late
             /\ body[p] = "running" /\ t \in ChildTask
  <2>1. body[p] = "running" /\ t \in ChildTask
    BY <1>4, TasksAssumption DEF Task
  <2>2. pc[p] \in {"Select", "Join"}
    BY <1>4, <2>1 DEF DriversStand, Stands, TypeOK, DriverPc, BodyResult
  <2>3. QED
    BY <1>1, <1>4, <2>1, <2>2, SettledByPc DEF Kept, Submitted, Late
<1>5. \A u \in Task : Children(u)' = IF u = p THEN Children(u) \cup {t} ELSE Children(u)
  BY <1>1, <1>3, TasksAssumption DEF Children
<1>6. \A u \in Task : Unsettled(u)' = IF u = p THEN Unsettled(u) \cup {t} ELSE Unsettled(u)
  BY <1>3, <1>5 DEF Unsettled, Children
<1>7. Parents'
  BY <1>1, <1>2, <1>4, TasksAssumption DEF Parents, Task
<1>8. ChildrenInTime'
  <2>1. ASSUME NEW u \in Task, ~Submitted(u)' PROVE live'[u] = 0 /\ u \notin known'
    <3>1. u # t /\ u # p
      BY <1>2, <1>4, <2>1
    <3>2. QED
      BY <1>1, <1>2, <2>1, <3>1 DEF ChildrenInTime, TypeOK
  <2>2. ASSUME NEW u \in Task, body'[u] = "none" PROVE Children(u)' = {}
    BY <1>1, <1>4, <1>5, <2>2 DEF ChildrenInTime
  <2>3. ASSUME NEW u \in Task, pc'[u] \in Late PROVE Unsettled(u)' = {}
    BY <1>1, <1>4, <1>6, <2>3 DEF ChildrenInTime, Late
  <2>4. QED
    BY <2>1, <2>2, <2>3 DEF ChildrenInTime
<1>9. Kept'
  BY <1>1, <1>2, <1>3 DEF Kept
<1>10. LiveCountsChildren'
  <2>1. ASSUME NEW u \in known' PROVE live'[u] = Cardinality(Unsettled(u)')
    <3>1. CASE u = t
      <4>1. Unsettled(t)' = {} /\ live'[t] = 0
        BY <1>1, <1>3, <1>4, <1>6 DEF Unsettled, TypeOK
      <4>2. QED
        BY <3>1, <4>1, FS_EmptySet
    <3>2. CASE u = p
      <4>1. u \in known /\ t \notin Unsettled(u)
        BY <1>1, <1>3, <1>4, <3>2, <2>1, TasksAssumption DEF Unsettled, Children, TypeOK
      <4>2. Cardinality(Unsettled(u) \cup {t}) = Cardinality(Unsettled(u)) + 1
        BY <4>1, ChildrenFinite, FS_AddElement
      <4>3. live'[u] = live[u] + 1
        BY <1>4, <3>2, <4>1, TasksAssumption DEF TypeOK
      <4>4. QED
        BY <1>6, <3>2, <4>1, <4>2, <4>3 DEF LiveCountsChildren, Unsettled, TypeOK
    <3>3. CASE u # t /\ u # p
      <4>1. u \in known /\ u \in Task /\ live'[u] = live[u]
        BY <1>1, <2>1, <3>3 DEF TypeOK
      <4>2. QED
        BY <1>6, <3>3, <4>1 DEF LiveCountsChildren, Unsettled
    <3>4. QED
      BY <3>1, <3>2, <3>3
  <2>2. QED
    BY <2>1 DEF LiveCountsChildren, Unsettled
<1>11. SubtreesKeptWhole'
  <2>1. {u \in RootTask \cap known : IsSettled(u)}'
          = {u \in RootTask \cap known : IsSettled(u)}
    BY <1>1, <1>3 DEF Task
  <2>2. ASSUME NEW c \in ChildTask, Submitted(c)'
        PROVE  c \in known' <=> parent'[c] \in known'
    <3>1. CASE c = t
      BY <1>1, <1>4, <3>1, TasksAssumption DEF Task
    <3>2. CASE c # t
      <4>1. c \in Task /\ Submitted(c) /\ parent'[c] = parent[c]
        BY <1>1, <1>2, <2>2, <3>2 DEF Task
      <4>2. parent[c] # t
        BY <1>2, <4>1 DEF Parents
      <4>3. QED
        BY <1>1, <3>2, <4>1, <4>2 DEF SubtreesKeptWhole
    <3>3. QED
      BY <3>1, <3>2
  <2>3. QED
    BY <1>1, <2>1, <2>2 DEF SubtreesKeptWhole
<1>12. CancelReachesSubtree'
  <2> SUFFICES ASSUME NEW c \in ChildTask, Submitted(c)', token'[parent'[c]]
               PROVE  token'[c]
    BY DEF CancelReachesSubtree
  <2>1. c \in Task
    BY DEF Task
  <2>2. CASE c = t
    <3>1. p \in Task /\ p # t
      BY <1>4, <2>2
    <3>2. QED
      BY <1>1, <2>2, <3>1, TasksAssumption DEF TypeOK, Task
  <2>3. CASE c # t
    <3>1. Submitted(c) /\ parent'[c] = parent[c]
      BY <1>1, <1>2, <2>1, <2>3
    <3>2. parent[c] \in Task /\ parent[c] # t
      BY <1>2, <2>1, <3>1 DEF Parents
    <3>3. token'[c] = token[c] /\ token'[parent[c]] = token[parent[c]]
      BY <2>1, <2>3, <3>2 DEF TypeOK
    <3>4. QED
      BY <3>1, <3>3 DEF CancelReachesSubtree
  <2>4. QED
    BY <2>2, <2>3
<1>13. QED
  BY <1>7, <1>8, <1>9, <1>10, <1>11, <1>12


(* What every settling does: the driver's own task ends, late, and no one else's. *)
LEMMA SettleFrame ==
  ASSUME TypeOK, DriversStand, TreeInv, NEW t \in Task, Settle(t)
  PROVE  /\ t \in known /\ Submitted(t) /\ ~IsSettled(t) /\ IsSettled(t)'
         /\ Unsettled(t) = {}
         /\ \A u \in Task \ {t} : IsSettled(u)' <=> IsSettled(u)
         /\ \A u \in Task : Submitted(u)' <=> Submitted(u)
         /\ \A u \in Task : pc'[u] \in Late <=> pc[u] \in Late
         /\ UNCHANGED <<parent, body, token>>
<1> Driver(t)
  BY DEF Driver
<1>1. pc[t] = "Settle" /\ pc' = [pc EXCEPT ![t] = "SettleNotify"]
  BY DEF Settle, Goto
<1>2. ~IsSettled(t)
  BY <1>1, SettledByPc
<1>3. state' = [state EXCEPT ![t] = outcome[t]] /\ outcome[t] \in Terminal
  BY DEF Settle, TypeOK
<1>4. IsSettled(t)' /\ \A u \in Task \ {t} : IsSettled(u)' <=> IsSettled(u)
  BY <1>3 DEF IsSettled, TypeOK
<1>5. Unsettled(t) = {}
  BY <1>1 DEF TreeInv, ChildrenInTime, Late
<1>6. QED
  BY <1>1, <1>2, <1>4, <1>5 DEF Settle, TypeOK, Submitted, Late, identityVars

(* The parts of the invariant that any settling keeps. *)
LEMMA SettleKeeps ==
  ASSUME TypeOK, DriversStand, TreeInv, NEW t \in Task, Settle(t)
  PROVE  /\ Parents' /\ CancelReachesSubtree'
         /\ \A u \in Task : /\ Children(u)' = Children(u)
                            /\ Unsettled(u)' = Unsettled(u) \ {t}
                            /\ body'[u] = "none" => Children(u)' = {}
                            /\ pc'[u] \in Late => Unsettled(u)' = {}
<1> USE SettleFrame
<1>1. Parents' /\ CancelReachesSubtree'
  BY DEF TreeInv, Parents, CancelReachesSubtree, Task
<1>2. \A u \in Task : Children(u)' = Children(u)
  BY DEF Children
<1>3. \A u \in Task : Unsettled(u)' = Unsettled(u) \ {t}
  BY <1>2 DEF Unsettled, Children
<1>4. QED
  BY <1>1, <1>2, <1>3 DEF TreeInv, ChildrenInTime

(* A child's settling takes it out of its parent's count. *)
LEMMA SettleChild ==
  ASSUME TypeOK, DriversStand, TreeInv, NEW t \in ChildTask, Settle(t)
  PROVE  TreeInv'
<1> USE DEF TreeInv
<1>1. t \in Task /\ t \notin RootTask
  BY TasksAssumption DEF Task
<1>2. /\ t \in known /\ Submitted(t) /\ ~IsSettled(t) /\ IsSettled(t)'
      /\ \A u \in Task \ {t} : IsSettled(u)' <=> IsSettled(u)
      /\ \A u \in Task : Submitted(u)' <=> Submitted(u)
      /\ parent' = parent
  BY <1>1, SettleFrame
<1>3. UNCHANGED <<known, settledRoots>>
  BY DEF Settle
<1> DEFINE p == parent[t]
<1>4. p \in Task /\ Submitted(p) /\ p \in known /\ t \in Unsettled(p)
  BY <1>1, <1>2 DEF Parents, SubtreesKeptWhole, Unsettled, Children
<1>5. Cardinality(Unsettled(p)) \in Nat \ {0}
  BY <1>4, ChildrenFinite, FS_CardinalityType, FS_EmptySet
<1>6. live[p] = Cardinality(Unsettled(p))
  BY <1>4 DEF LiveCountsChildren, Unsettled
<1>7. live' = [live EXCEPT ![p] = @ - 1]
  BY <1>4, <1>5, <1>6 DEF Settle, TypeOK
<1>8. \A u \in Task : u # p => t \notin Unsettled(u)
  BY DEF Unsettled, Children
<1>9. LiveCountsChildren'
  <2>1. ASSUME NEW u \in known PROVE live'[u] = Cardinality(Unsettled(u)')
    <3>1. u \in Task /\ Unsettled(u)' = Unsettled(u) \ {t}
      BY <1>1, SettleKeeps DEF TypeOK
    <3>2. live[u] = Cardinality(Unsettled(u))
      BY DEF LiveCountsChildren, Unsettled
    <3>3. CASE u = p
      <4>1. Cardinality(Unsettled(p) \ {t}) = Cardinality(Unsettled(p)) - 1
        BY <1>4, ChildrenFinite, FS_RemoveElement
      <4>2. live'[p] = live[p] - 1
        BY <1>4, <1>7 DEF TypeOK
      <4>3. QED
        BY <1>6, <3>1, <3>3, <4>1, <4>2
    <3>4. CASE u # p
      <4>1. Unsettled(u) \ {t} = Unsettled(u)
        BY <1>8, <3>1, <3>4
      <4>2. live'[u] = live[u]
        BY <1>7, <3>1, <3>4 DEF TypeOK
      <4>3. QED
        BY <3>1, <3>2, <4>1, <4>2
    <3>5. QED
      BY <3>3, <3>4
  <2>2. QED
    BY <1>3, <2>1 DEF LiveCountsChildren, Unsettled
<1>10. ChildrenInTime'
  <2>1. ASSUME NEW u \in Task, ~Submitted(u) PROVE live'[u] = 0 /\ u \notin known'
    BY <1>3, <1>4, <1>7, <2>1 DEF ChildrenInTime, TypeOK
  <2>2. QED
    BY <1>1, <1>2, <2>1, SettleKeeps DEF ChildrenInTime
<1>11. Kept'
  BY <1>2, <1>3 DEF Kept
<1>12. SubtreesKeptWhole'
  <2>1. {u \in RootTask \cap known : IsSettled(u)}'
          = {u \in RootTask \cap known : IsSettled(u)}
    BY <1>1, <1>2, <1>3 DEF Task
  <2>2. \A c \in ChildTask : Submitted(c)' <=> Submitted(c)
    BY <1>2 DEF Task
  <2>3. QED
    BY <1>2, <1>3, <2>1, <2>2 DEF SubtreesKeptWhole
<1>13. QED
  BY <1>1, <1>9, <1>10, <1>11, <1>12, SettleKeeps

(* A root's settling appends it, and evicts the oldest with their subtrees: all   *)
(* of them settled, and no part of a subtree left behind.                       *)
LEMMA SettleRoot ==
  ASSUME TypeOK, DriversStand, DriversStand', TypeOK', TreeInv,
         NEW t \in RootTask, Settle(t)
  PROVE  TreeInv'
<1> USE DEF TreeInv
<1>1. t \in Task /\ t \notin ChildTask
  BY TasksAssumption DEF Task
<1>2. /\ t \in known /\ Submitted(t) /\ ~IsSettled(t) /\ IsSettled(t)'
      /\ \A u \in Task \ {t} : IsSettled(u)' <=> IsSettled(u)
      /\ \A u \in Task : Submitted(u)' <=> Submitted(u)
      /\ parent' = parent
  BY <1>1, SettleFrame
<1> DEFINE n == Len(settledRoots)
           roots == Append(settledRoots, t)
           excess == IF Len(roots) > RetainedRoots THEN Len(roots) - RetainedRoots ELSE 0
           Gone == UNION {Subtree(roots[i]) : i \in 1..excess}
<1>3. /\ n \in Nat /\ Len(roots) = n + 1 /\ DOMAIN settledRoots = 1..n
      /\ roots \in Seq(RootTask) /\ n <= RetainedRoots
      /\ \A i \in 1..n : roots[i] = settledRoots[i]
      /\ roots[n + 1] = t
  BY AppendProperties, LenProperties DEF TypeOK, SubtreesKeptWhole
<1>4. excess \in Nat /\ excess <= n + 1 /\ n + 1 - excess <= RetainedRoots
  BY <1>3, PolicyAssumption
<1>5. /\ settledRoots' = SubSeq(roots, excess + 1, n + 1)
      /\ known' = known \ Gone /\ live' = live
  BY <1>1, <1>3 DEF Settle, Retain
<1>6. \A i \in 1..n + 1 : roots[i] \in RootTask
  BY <1>3
<1>7. /\ Len(settledRoots') = n + 1 - excess
      /\ DOMAIN settledRoots' = 1..(n + 1 - excess)
      /\ \A j \in 1..(n + 1 - excess) : settledRoots'[j] = roots[excess + j]
  <2> DEFINE first == excess + 1  last == n + 1
  <2>1. /\ Len(settledRoots') = last - first + 1
        /\ \A j \in 1..(last - first + 1) : settledRoots'[j] = roots[first + j - 1]
    <3>1. first \in Int /\ last \in Int /\ \A i \in first..last : roots[i] \in RootTask
      BY <1>3, <1>4, <1>6
    <3>2. /\ Len(SubSeq(roots, first, last))
               = IF first <= last THEN last - first + 1 ELSE 0
          /\ \A j \in 1..(last - first + 1) :
               SubSeq(roots, first, last)[j] = roots[first + j - 1]
      <4> HIDE DEF roots, first, last
      <4>1. QED
        BY <3>1, SubSeqProperties
    <3>3. (IF first <= last THEN last - first + 1 ELSE 0) = last - first + 1
      BY <1>3, <1>4
    <3>4. QED
      BY <1>5, <3>2, <3>3
  <2>2. last - first + 1 = n + 1 - excess
        /\ \A j \in 1..(n + 1 - excess) : first + j - 1 = excess + j
    BY <1>3, <1>4
  <2>3. \A j \in 1..(n + 1 - excess) : settledRoots'[j] = roots[excess + j]
    BY <2>1, <2>2
  <2>4. DOMAIN settledRoots' = 1..Len(settledRoots')
    BY LenProperties DEF TypeOK
  <2>5. QED
    BY <2>1, <2>2, <2>3, <2>4
<1>8. \A i, j \in 1..n + 1 : roots[i] = roots[j] => i = j
  <2>1. \A i \in 1..n : settledRoots[i] # t
    BY <1>2, <1>3 DEF SubtreesKeptWhole
  <2>2. \A i, j \in 1..n : settledRoots[i] = settledRoots[j] => i = j
    BY <1>3 DEF SubtreesKeptWhole
  <2>3. QED
    BY <1>3, <2>1, <2>2
<1>9. {roots[i] : i \in 1..n + 1} = {u \in RootTask \cap known : IsSettled(u)'}
  <2>1. {settledRoots[i] : i \in 1..n} = {u \in RootTask \cap known : IsSettled(u)}
    BY <1>3 DEF SubtreesKeptWhole
  <2>2. {roots[i] : i \in 1..n + 1} = {settledRoots[i] : i \in 1..n} \cup {t}
    BY <1>3
  <2>3. \A u \in RootTask : IsSettled(u)' <=> IsSettled(u) \/ u = t
    BY <1>2 DEF Task
  <2>4. QED
    BY <1>2, <2>1, <2>2, <2>3
<1>10. ASSUME NEW u \in Gone
       PROVE  u \in ChildTask \/ \E i \in 1..excess : u = roots[i]
  <2>1. PICK i \in 1..excess : u \in Subtree(roots[i])
    OBVIOUS
  <2>2. Subtree(roots[i]) \subseteq {roots[i]} \cup ChildTask
    BY SubtreeOfRoot
  <2>3. u = roots[i] \/ u \in ChildTask
    BY <2>1, <2>2
  <2>4. QED
    BY <2>3
<1>11. ASSUME NEW u \in Gone, u \in Task PROVE IsSettled(u)'
  <2>1. PICK r \in RootTask : u \in Subtree(r) /\ IsSettled(r)'
    <3>1. PICK i \in 1..excess : u \in Subtree(roots[i])
      OBVIOUS
    <3>2. i \in 1..n + 1
      BY <1>3, <1>4
    <3>3. roots[i] \in {v \in RootTask \cap known : IsSettled(v)'}
      BY <1>9, <3>2
    <3>4. QED
      BY <3>1, <3>3
  <2> DEFINE S == {c \in ChildTask : IsSettled(c)'}
  <2>2. ASSUME NEW d \in ChildTask, NEW q \in Task, q = parent[d], IsSettled(q)'
        PROVE  IsSettled(d)'
    <3>1. pc'[q] \in Late
      BY <2>2, ZenonT(60) DEF TypeOK, DriversStand, Stands, IsSettled, Terminal, DriverPc, Late
    <3>2. Unsettled(q)' = {}
      BY <1>1, <2>2, <3>1, SettleKeeps
    <3>3. d \in Children(q)'
      BY <1>2, <2>2 DEF Children, Task
    <3>4. QED
      BY <3>2, <3>3 DEF Unsettled
  <2>3. ASSUME NEW d \in ChildTask, parent[d] \in {r} \cup S PROVE d \in S
    <3>1. PICK q \in Task : q = parent[d] /\ IsSettled(q)'
      BY <2>1, <2>3 DEF Task
    <3>2. QED
      BY <2>2, <3>1
  <2>4. Subtree(r) \subseteq {r} \cup S
    BY <2>3, SubtreeSmallest DEF HoldsBelow
  <2>5. QED
    BY <2>1, <2>4
<1>12. ASSUME NEW c \in ChildTask PROVE c \in Gone <=> parent[c] \in Gone
  <2>1. ASSUME NEW i \in 1..excess, parent[c] \in Subtree(roots[i]) PROVE c \in Gone
    <3>1. c \in Subtree(roots[i])
      BY <2>1, SubtreeClosed
    <3>2. QED
      BY <3>1
  <2>2. ASSUME NEW i \in 1..excess, c \in Subtree(roots[i]) PROVE parent[c] \in Gone
    <3>1. roots[i] # c
      <4>1. i \in 1..n + 1
        BY <1>3, <1>4
      <4>2. QED
        BY <1>6, <4>1, TasksAssumption
    <3>2. QED
      BY <2>2, <3>1, SubtreeHasParents
  <2>3. QED
    BY <2>1, <2>2
<1>13. Kept'
  BY <1>2, <1>5, <1>11 DEF Kept
<1>14. ChildrenInTime'
  BY <1>1, <1>2, <1>5, SettleKeeps DEF ChildrenInTime
<1>15. LiveCountsChildren'
  <2>1. ASSUME NEW u \in known' PROVE live'[u] = Cardinality(Unsettled(u)')
    <3>1. u \in known /\ u \in Task
      BY <1>5 DEF TypeOK
    <3>2. t \notin Unsettled(u)
      BY <1>1, <3>1, TasksAssumption DEF Unsettled, Children, Parents
    <3>3. Unsettled(u)' = Unsettled(u)
      BY <1>1, <3>1, <3>2, SettleKeeps
    <3>4. QED
      BY <1>5, <3>1, <3>3 DEF LiveCountsChildren, Unsettled
  <2>2. QED
    BY <2>1 DEF LiveCountsChildren, Unsettled
<1>16. {settledRoots'[j] : j \in DOMAIN settledRoots'}
         = {u \in RootTask \cap known' : IsSettled(u)'}
  <2>1. ASSUME NEW j \in 1..(n + 1 - excess)
        PROVE  settledRoots'[j] \in {u \in RootTask \cap known' : IsSettled(u)'}
    <3>1. excess + j \in 1..n + 1 /\ settledRoots'[j] = roots[excess + j]
      BY <1>3, <1>4, <1>7
    <3>2. roots[excess + j] \in {u \in RootTask \cap known : IsSettled(u)'}
      BY <1>9, <3>1
    <3>3. roots[excess + j] \notin Gone
      <4>1. ASSUME NEW i \in 1..excess, roots[excess + j] = roots[i] PROVE FALSE
        <5>1. i \in 1..n + 1 /\ i # excess + j
          BY <1>3, <1>4
        <5>2. QED
          BY <1>8, <3>1, <4>1, <5>1
      <4>2. roots[excess + j] \notin ChildTask
        BY <3>2, TasksAssumption
      <4>3. QED
        BY <1>10, <4>1, <4>2
    <3>4. QED
      BY <1>5, <3>1, <3>2, <3>3
  <2>2. ASSUME NEW u \in RootTask \cap known', IsSettled(u)'
        PROVE  \E j \in 1..(n + 1 - excess) : u = settledRoots'[j]
    <3>1. u \in known /\ u \notin Gone
      BY <1>5, <2>2
    <3>2. PICK i \in 1..n + 1 : u = roots[i]
      BY <1>9, <2>2, <3>1
    <3>3. i > excess
      <4>1. ASSUME i \in 1..excess PROVE FALSE
        BY <3>1, <3>2, <4>1, SubtreeOfRoot
      <4>2. QED
        BY <1>3, <1>4, <4>1
    <3>4. i - excess \in 1..(n + 1 - excess) /\ excess + (i - excess) = i
      BY <1>3, <1>4, <3>3
    <3>5. QED
      BY <1>7, <3>2, <3>4
  <2>3. QED
    BY <1>7, <2>1, <2>2
<1>17. SubtreesKeptWhole'
  <2>1. \A i, j \in DOMAIN settledRoots' : settledRoots'[i] = settledRoots'[j] => i = j
    <3>1. ASSUME NEW i \in 1..(n + 1 - excess), NEW j \in 1..(n + 1 - excess),
                 settledRoots'[i] = settledRoots'[j]
          PROVE  i = j
      <4>1. excess + i \in 1..n + 1 /\ excess + j \in 1..n + 1
        BY <1>3, <1>4
      <4>2. excess + i = excess + j
        BY <1>7, <1>8, <3>1, <4>1
      <4>3. QED
        BY <1>4, <4>2
    <3>2. QED
      BY <1>7, <3>1
  <2>2. ASSUME NEW c \in ChildTask, Submitted(c)'
        PROVE  c \in known' <=> parent'[c] \in known'
    BY <1>2, <1>5, <1>12, <2>2 DEF SubtreesKeptWhole, Task
  <2>3. QED
    BY <1>4, <1>7, <1>16, <2>1, <2>2 DEF SubtreesKeptWhole
<1>18. QED
  BY <1>1, <1>13, <1>14, <1>15, <1>17, SettleKeeps


LEMMA TreeStep ==
  ASSUME TypeOK, TypeOK', DriversStand, DriversStand', TreeInv, [Next]_vars
  PROVE  TreeInv'
<1>1. ASSUME NEW t \in Task, Driver(t), ~Settle(t) PROVE TreeInv'
  BY <1>1, DriverTree
<1>2. ASSUME NEW t \in Task, Settle(t) PROVE TreeInv'
  BY <1>2, SettleChild, SettleRoot DEF Task
<1>3. ASSUME NEW t \in Task, NEW k \in Kind, Submit(t, k) PROVE TreeInv'
  <2>1. Register(t, NoTask, k) /\ t \notin ChildTask /\ UNCHANGED <<live, token>>
    BY <1>3, TasksAssumption DEF Submit
  <2>2. QED
    BY <2>1, RegisterTree
<1>4. ASSUME NEW p \in Task, NEW t \in ChildTask, NEW k \in Kind, Spawn(p, t, k)
      PROVE  TreeInv'
  BY <1>4, RegisterTree DEF Spawn, Task
<1>5. ASSUME UNCHANGED <<entryVars, pc, body>>,
             token' = token \/ \E tasks : CancelTokens(tasks)
      PROVE  TreeInv'
  <2>1. UNCHANGED <<known, parent, live, settledRoots, state, pc, body>>
    BY <1>5 DEF entryVars, identityVars
  <2>2. CancelReachesSubtree'
    BY <1>5, <2>1, CancelKeeps DEF TreeInv, CancelReachesSubtree, Submitted
  <2>3. \A u \in Task : pc[u] \in Late => Unsettled(u) = {}
    BY DEF TreeInv, ChildrenInTime
  <2>4. QED
    BY <2>1, <2>2, <2>3, TreeFrame DEF IsSettled, Submitted
<1>6. ASSUME NEW t \in Task, Returned(t) PROVE TreeInv'
  <2>1. UNCHANGED <<known, parent, live, settledRoots, state, pc, token>>
    BY <1>6 DEF Returned, entryVars, identityVars
  <2>2. \A u \in Task : body'[u] = "none" => body[u] = "none"
    BY <1>6 DEF Returned, BodyResult
  <2>3. CancelReachesSubtree'
    BY <2>1 DEF TreeInv, CancelReachesSubtree, Submitted
  <2>4. \A u \in Task : pc[u] \in Late => Unsettled(u) = {}
    BY DEF TreeInv, ChildrenInTime
  <2>5. QED
    BY <2>1, <2>2, <2>3, <2>4, TreeFrame DEF IsSettled, Submitted
<1>7. CASE Callers
  BY <1>3, <1>4, <1>5, <1>6, <1>7, CallersDo DEF Registers, CancelAll, Cancel
<1>8. CASE AtRest \/ UNCHANGED vars
  BY <1>5, <1>8 DEF AtRest, vars, entryVars, identityVars
<1>9. QED
  BY <1>1, <1>2, <1>7, <1>8 DEF Next, Callers

LEMMA InitTree == Init => TreeInv
<1> SUFFICES ASSUME Init PROVE TreeInv
  OBVIOUS
<1>1. \A t \in Task : Children(t) = {}
  BY TasksAssumption DEF Init, Children
<1>2. Parents /\ ChildrenInTime /\ Kept
  BY <1>1 DEF Init, Parents, ChildrenInTime, Kept, Submitted, Unsettled, Late
<1>3. SubtreesKeptWhole
  BY PolicyAssumption DEF Init, SubtreesKeptWhole, Submitted, Task
<1>4. LiveCountsChildren /\ CancelReachesSubtree
  BY DEF Init, LiveCountsChildren, CancelReachesSubtree, Submitted, Task
<1>5. QED
  BY <1>2, <1>3, <1>4 DEF TreeInv

LEMMA TreeInvariance == Spec => []TreeInv
<1>1. AdmissionInv /\ AdmissionInv' /\ TreeInv /\ [Next]_vars => TreeInv'
  BY TreeStep DEF AdmissionInv
<1>2. QED
  BY <1>1, InitTree, AdmissionInvariance, PTL DEF Spec

(* However drivers, bodies, cancels and retention interleave: a parent waits for  *)
(* the children that have not settled and no others, no child outlives it, a      *)
(* cancel reaches the whole subtree, and retention evicts whole settled subtrees, *)
(* the oldest first.                                                           *)
THEOREM TreeIsKept == Spec => []TreeHolds
<1>1. AdmissionInv /\ TreeInv => TreeHolds
  BY TreeMeans DEF AdmissionInv
<1>2. QED
  BY <1>1, AdmissionInvariance, TreeInvariance, PTL

-----------------------------------------------------------------------------
(***************************************************************************)
(* The runtime implements TaskPool.                                         *)
(***************************************************************************)
(* What TaskPool sees of a task, and of a root's place. *)
Phase(t) == IF Submitted(t) THEN state[t] ELSE "None"
Earlier(t) ==
  IF Submitted(t) THEN {u \in RootTask : Submitted(u) /\ seq[u] < seq[t]} ELSE {}
InLines == {t \in RootTask : InLine(t)}
Holders == {t \in RootTask : HoldsSlot(t)}

PoolSeen == <<[t \in Task |-> Phase(t)], parent, [t \in Task |-> Scope(t)], InLines,
              [t \in RootTask |-> Earlier(t)], Holders>>

LEMMA PoolVars == UNCHANGED PoolSeen <=> UNCHANGED Pool!vars
  BY DEF PoolSeen, Phase, Earlier, InLines, Holders, Pool!vars

LEMMA InitPool == Init => Pool!Init
<1> SUFFICES ASSUME Init PROVE Pool!Init
  OBVIOUS
<1>1. TypeOK
  BY InitType
<1>2. \A t \in Task : ~Submitted(t)
  BY DEF Init, Submitted
<1>3. \A t \in RootTask : ~InLine(t) /\ ~HoldsSlot(t)
  BY DEF Init, InLine, HoldsSlot, Task
<1>4. [t \in Task |-> Scope(t)] \in [Task -> Scopes]
  BY <1>1, ScopeInScopes DEF Scope, TypeOK
<1>5. QED
  BY <1>2, <1>3, <1>4 DEF Pool!Init, Pool!Task, Task, Init


LEMMA PoolBecome ==
  ASSUME NEW t \in Task, NEW from, NEW to, Phase(t) \in from, Phase(t)' \in to,
         \A u \in Task \ {t} : Phase(u)' = Phase(u)
  PROVE  Pool!Become(t, from, to)
  BY DEF Pool!Become, Phase

LEMMA PlacesOf ==
  ASSUME TypeOK, NEW t \in Task
  PROVE  /\ Scope(t) \in Scopes
         /\ [s \in Scopes |-> Cap[s[1]]][Scope(t)] = CapOf(t)
         /\ [u \in Task |-> Scope(u)][t] = Scope(t)
<1>1. Scope(t) \in Scopes
  BY ScopeInScopes DEF Scope, TypeOK
<1>2. QED
  BY <1>1, CapOfScope

(* What an observer sees of a driver's step: its own task, and its own place. *)
LEMMA DriverSeen ==
  ASSUME TypeOK, DriversStand, NEW t \in Task, Driver(t)
  PROVE  /\ parent' = parent
         /\ [u \in Task |-> Scope(u)]' = [u \in Task |-> Scope(u)]
         /\ [u \in RootTask |-> Earlier(u)]' = [u \in RootTask |-> Earlier(u)]
         /\ \A u \in Task \ {t} : Phase(u)' = Phase(u)
         /\ Phase(t) = state[t] /\ Phase(t)' = state'[t]
<1>1. /\ UNCHANGED <<parent, kind, seq>> /\ pc[t] # "None" /\ pc'[t] # "None"
      /\ \A u \in Task \ {t} : pc'[u] = pc[u] /\ state'[u] = state[u]
  BY DriverFrame, DriverStands
<1>2. \A u \in Task : Submitted(u)' <=> Submitted(u)
  BY <1>1 DEF Submitted
<1>3. \A u \in RootTask : Earlier(u)' = Earlier(u)
  BY <1>1, <1>2 DEF Earlier, Task
<1>4. QED
  BY <1>1, <1>2, <1>3 DEF Phase, Submitted, Scope, ScopeOf

(* A step that moves nobody and shows nothing new is none of TaskPool's. *)
LEMMA DriverUnseen ==
  ASSUME TypeOK, DriversStand, NEW t \in Task, Driver(t), ~Moves(t), state' = state
  PROVE  UNCHANGED PoolSeen
<1>1. \A u \in RootTask :
        (InLine(u)' <=> InLine(u)) /\ (HoldsSlot(u)' <=> HoldsSlot(u))
  BY OtherSteps, OthersKeepPlaces DEF Task
<1>2. \A u \in Task : Phase(u)' = Phase(u)
  BY DriverSeen
<1>3. QED
  BY <1>1, <1>2, DriverSeen DEF PoolSeen, InLines, Holders

(* Neither does one that only shows something new touch a place. *)
LEMMA ShownSamePlaces ==
  ASSUME TypeOK, DriversStand, NEW t \in Task, Driver(t), ~Moves(t)
  PROVE  InLines' = InLines /\ Holders' = Holders
  BY OtherSteps, OthersKeepPlaces DEF Task, InLines, Holders

LEMMA StartSeen ==
  ASSUME TypeOK, DriversStand, NEW t \in Task, Start(t)
  PROVE  Pool!Start(t)
<1> Driver(t) /\ Stands(t) /\ pc[t] = "Start"
  BY DEF Driver, DriversStand, Start, Goto
<1>1. ~Moves(t)
  BY DEF Moves, Admit, LeaveQueue, DropSlot, Goto
<1>2. Pool!Become(t, {"Queued"}, {"Running"})
  <2>1. state[t] = "Queued" /\ state'[t] = "Running"
    BY DEF Stands, Start, TypeOK
  <2>2. QED
    BY <2>1, DriverSeen, PoolBecome
<1>3. Pool!NeedsPlace(t) => t \in Holders
  BY PlacesOf DEF Pool!NeedsPlace, Holders, HoldsSlot, IsQueued
<1>4. QED
  BY <1>1, <1>2, <1>3, DriverSeen, ShownSamePlaces
     DEF Pool!Start, InLines, Holders, Earlier

LEMMA SeeCancelSeen ==
  ASSUME TypeOK, DriversStand, NEW t \in Task, SeeCancel(t)
  PROVE  Pool!BeginCancelling(t)
<1> Driver(t) /\ Stands(t) /\ pc[t] = "Select"
  BY DEF Driver, DriversStand, SeeCancel, Goto
<1>1. ~Moves(t)
  BY DEF Moves, Admit, LeaveQueue, DropSlot, Goto
<1>2. Pool!Become(t, {"Running"}, {"Cancelling"})
  <2>1. state[t] = "Running" /\ state'[t] = "Cancelling"
    BY DEF Stands, SeeCancel, TypeOK
  <2>2. QED
    BY <2>1, DriverSeen, PoolBecome
<1>3. QED
  BY <1>1, <1>2, DriverSeen, ShownSamePlaces
     DEF Pool!BeginCancelling, InLines, Holders, Earlier

(* A task ends with its place given back and its children ended. *)
LEMMA SettleSeen ==
  ASSUME TypeOK, DriversStand, TreeInv, NEW t \in Task, Settle(t)
  PROVE  Pool!End(t)
<1> Driver(t) /\ Stands(t) /\ pc[t] = "Settle"
  BY DEF Driver, DriversStand, Settle, Goto
<1>1. ~Moves(t)
  BY DEF Moves, Admit, LeaveQueue, DropSlot, Goto
<1>2. state'[t] = outcome[t] /\ outcome[t] \in Terminal
  BY DEF Settle, TypeOK
<1>3. \/ Pool!Become(t, {"Running", "Cancelling"}, Pool!Ended)
      \/ Pool!Become(t, {"Queued"}, Pool!Ended \ {"Succeeded"})
  <2>1. CASE state[t] = "Queued" /\ outcome[t] \in Ends
    BY <1>2, <2>1, DriverSeen, PoolBecome DEF Pool!Ended, Ends
  <2>2. CASE state[t] \in {"Running", "Cancelling"}
    BY <1>2, <2>2, DriverSeen, PoolBecome DEF Pool!Ended, Terminal
  <2>3. QED
    BY <2>1, <2>2 DEF Stands
<1>4. t \notin InLines \cup Holders
  BY DEF InLines, Holders, InLine, HoldsSlot
<1>5. ASSUME NEW c \in ChildTask, parent[c] = t
      PROVE  [u \in Task |-> Phase(u)][c] \in Pool!Ended
  <2>1. c \in Task /\ Submitted(c)
    BY <1>5, TasksAssumption DEF Task, TreeInv, Parents
  <2>2. Unsettled(t) = {}
    BY SettleFrame
  <2>3. IsSettled(c)
    BY <1>5, <2>1, <2>2 DEF Unsettled, Children
  <2>4. QED
    BY <2>1, <2>3 DEF Phase, IsSettled, Terminal, Pool!Ended
<1>6. QED
  BY <1>1, <1>3, <1>4, <1>5, DriverSeen, ShownSamePlaces
     DEF Pool!End, InLines, Holders, Earlier, Phase

(* TaskPool takes its own copy of Cardinality from FiniteSets. *)
LEMMA PoolCardinality == ASSUME NEW S PROVE Pool!Cardinality(S) = Cardinality(S)
  BY DEF Pool!Cardinality, Cardinality

LEMMA TakePlaceSeen ==
  ASSUME AdmissionInv, NEW t \in Task, Admit(t), IsQueued(t)
  PROVE  Pool!TakePlace(t)
<1> USE DEF AdmissionInv
<1> Driver(t)
  BY DEF Driver
<1>1. t \in InLines /\ InLines' = InLines \ {t} /\ Holders' = Holders \cup {t}
  <2>1. \A u \in RootTask \ {t} :
          (InLine(u)' <=> InLine(u)) /\ (HoldsSlot(u)' <=> HoldsSlot(u))
    BY OthersKeepPlaces DEF Task
  <2>2. QED
    BY <2>1, AdmitPlaces DEF InLines, Holders
<1>2. \A u \in Task : Phase(u)' = Phase(u)
  <2>1. state' = state
    BY DEF Admit, entryVars
  <2>2. QED
    BY <2>1, DriverSeen
<1>3. ASSUME NEW u \in InLines \cap Earlier(t) PROVE Scope(u) # Scope(t)
  <2>1. seq[u] < seq[t] /\ u \in RootTask /\ InLine(u)
    BY <1>3 DEF Earlier, InLines
  <2>2. CASE Scope(u) = Scope(t)
    <3>1. seq[u] \in queue[Scope(t)]
      BY <2>1, <2>2, PlacesOf, QueueIsLine DEF Line
    <3>2. seq[t] <= seq[u]
      BY <3>1 DEF Admit, MayAdmit, IsFirst
    <3>3. seq[t] \in Nat /\ seq[u] \in Nat
      BY <2>1 DEF TypeOK, Task
    <3>4. QED
      BY <2>1, <3>2, <3>3
  <2>3. QED
    BY <2>2
<1>4. Cardinality({u \in Holders : Scope(u) = Scope(t)}) < CapOf(t)
  <2>1. {u \in Holders : Scope(u) = Scope(t)} = SlotHolders(Scope(t))
    BY DEF Holders, SlotHolders
  <2>2. Cardinality(SlotHolders(Scope(t))) = admitted[Scope(t)]
    BY PlacesOf DEF CapRespected
  <2>3. QED
    BY <2>1, <2>2 DEF Admit, MayAdmit
<1> DEFINE scope == [u \in Task |-> Scope(u)]
<1>5. /\ \A u \in InLines \cap [v \in RootTask |-> Earlier(v)][t] : scope[u] # scope[t]
      /\ Cardinality({u \in Holders : scope[u] = scope[t]})
           < [s \in Scopes |-> Cap[s[1]]][scope[t]]
  <2>1. t \in RootTask /\ Holders \subseteq Task /\ InLines \subseteq Task
    BY DEF IsQueued, Holders, InLines, Task
  <2>2. {u \in Holders : scope[u] = scope[t]} = {u \in Holders : Scope(u) = Scope(t)}
    BY <2>1
  <2>3. QED
    BY <1>3, <1>4, <2>1, <2>2, PlacesOf
<1>6. Pool!Leave(t)
  BY <1>1 DEF Pool!Leave, InLines
<1>7. /\ \A u \in {v \in RootTask : InLine(v)} \cap [v \in RootTask |-> Earlier(v)][t] :
           scope[u] # scope[t]
      /\ Cardinality({u \in {v \in RootTask : HoldsSlot(v)} : scope[u] = scope[t]})
           < [s \in Scopes |-> Cap[s[1]]][scope[t]]
  BY <1>5 DEF InLines, Holders
<1> HIDE DEF AdmissionInv
<1>8. {v \in RootTask : HoldsSlot(v)}' = {v \in RootTask : HoldsSlot(v)} \cup {t}
  BY <1>1 DEF Holders
<1>9. /\ [u \in Task |-> Phase(u)]' = [u \in Task |-> Phase(u)]
      /\ parent' = parent /\ scope' = scope
      /\ [u \in RootTask |-> Earlier(u)]' = [u \in RootTask |-> Earlier(u)]
  BY <1>2, DriverSeen DEF AdmissionInv
<1> HIDE DEF scope
<1>10. QED
  BY <1>6, <1>7, <1>8, <1>9, PoolCardinality
     DEF Pool!TakePlace, Earlier, Phase, scope

LEMMA LeaveQueueSeen ==
  ASSUME TypeOK, DriversStand, NEW t \in Task, LeaveQueue(t)
  PROVE  Pool!LeaveLine(t)
<1> Driver(t)
  BY DEF Driver
<1>1. IsQueued(t) /\ InLine(t) /\ ~InLine(t)' /\ ~HoldsSlot(t) /\ ~HoldsSlot(t)'
  BY DEF LeaveQueue, Goto, InLine, HoldsSlot, TypeOK, DriversStand, Stands
<1>2. \A u \in RootTask \ {t} :
        (InLine(u)' <=> InLine(u)) /\ (HoldsSlot(u)' <=> HoldsSlot(u))
  BY OthersKeepPlaces DEF Task
<1>3. t \in InLines /\ InLines' = InLines \ {t} /\ Holders' = Holders
  BY <1>1, <1>2 DEF InLines, Holders, IsQueued
<1>4. \A u \in Task : Phase(u)' = Phase(u)
  <2>1. state' = state
    BY DEF LeaveQueue, entryVars
  <2>2. QED
    BY <2>1, DriverSeen
<1>5. QED
  BY <1>3, <1>4, DriverSeen
     DEF Pool!LeaveLine, Pool!Leave, InLines, Holders, Earlier, Phase

LEMMA DropSlotSeen ==
  ASSUME TypeOK, DriversStand, NEW t \in Task, DropSlot(t)
  PROVE  Pool!GiveBack(t)
<1> Driver(t) /\ Stands(t) /\ pc[t] = "DropSlot"
  BY DEF Driver, DriversStand, DropSlot, Goto
<1>1. \A u \in RootTask \ {t} :
        (InLine(u)' <=> InLine(u)) /\ (HoldsSlot(u)' <=> HoldsSlot(u))
  BY OthersKeepPlaces DEF Task
<1>2. t \in Holders /\ InLines' = InLines /\ Holders' = Holders \ {t}
  BY <1>1, DropPlaces DEF InLines, Holders
<1>3. state[t] \in {"Running", "Cancelling"} /\ state' = state
  BY DEF Stands, DropSlot, entryVars
<1>4. \A u \in Task : Phase(u)' = Phase(u)
  BY <1>3, DriverSeen
<1>5. QED
  BY <1>2, <1>3, <1>4, DriverSeen
     DEF Pool!GiveBack, InLines, Holders, Earlier, Phase


LEMMA DriverImplements ==
  ASSUME AdmissionInv, TreeInv, NEW t \in Task, Driver(t)
  PROVE  Pool!Next \/ UNCHANGED PoolSeen
<1> TypeOK /\ DriversStand /\ t \in Pool!Task
  BY DEF AdmissionInv, Pool!Task, Task
<1>1. CASE Start(t)
  BY <1>1, StartSeen DEF Pool!Next
<1>2. CASE SeeCancel(t)
  BY <1>2, SeeCancelSeen DEF Pool!Next
<1>3. CASE Settle(t)
  BY <1>3, SettleSeen DEF Pool!Next
<1>4. CASE Admit(t) /\ IsQueued(t)
  BY <1>4, TakePlaceSeen DEF Pool!Next
<1>5. CASE LeaveQueue(t)
  BY <1>5, LeaveQueueSeen DEF Pool!Next
<1>6. CASE DropSlot(t)
  BY <1>6, DropSlotSeen DEF Pool!Next
<1>7. CASE ~Start(t) /\ ~SeeCancel(t) /\ ~Settle(t) /\ ~Moves(t)
  <2>1. state' = state
    BY <1>7 DEF Driver, Moves, AdmitRegister, Admit, FailAdmission, WaitForAdmission,
       WakeToAdmit, CancelWait, Notify, JoinBody, FinishRegister, ChildrenFinished,
       CancelChildren, WakeToFinish, Classify, entryVars
  <2>2. QED
    BY <1>7, <2>1, DriverUnseen
<1>8. QED
  BY <1>1, <1>2, <1>3, <1>4, <1>5, <1>6, <1>7 DEF Moves

(* What an observer sees of a registration: one new task, Queued. *)
LEMMA RegisterSeen ==
  ASSUME TypeOK, DriversStand, NEW t \in Task, NEW p \in Task \cup {NoTask},
         NEW k \in Kind, Register(t, p, k)
  PROVE  /\ Pool!Become(t, {"None"}, {"Queued"})
         /\ [u \in Task |-> Scope(u)]'
              = [[u \in Task |-> Scope(u)] EXCEPT ![t] = ScopeOf(k)]
         /\ Holders' = Holders
         /\ \A u \in RootTask \ {t} : InLine(u)' <=> InLine(u)
<1>1. /\ pc[t] = "None" /\ pc'[t] = "Register" /\ kind'[t] = k /\ state' = state
      /\ \A u \in Task \ {t} : pc'[u] = pc[u] /\ kind'[u] = kind[u]
  BY RegisterFrame
<1>2. state[t] = "Queued"
  BY <1>1 DEF DriversStand, Stands
<1>3. Pool!Become(t, {"None"}, {"Queued"})
  BY <1>1, <1>2, PoolBecome DEF Phase, Submitted
<1>4. \A u \in RootTask \ {t} :
        (InLine(u)' <=> InLine(u)) /\ (HoldsSlot(u)' <=> HoldsSlot(u))
  BY <1>1, PlaceFrame DEF Task
<1>5. Holders' = Holders
  BY <1>1, <1>4 DEF Holders, HoldsSlot
<1>6. QED
  BY <1>1, <1>3, <1>4, <1>5 DEF Scope

(* The tasks submitted before a root are those with a lower seq: a new one is last. *)
LEMMA EarlierSeen ==
  ASSUME AdmissionInv, NEW t \in Task, NEW p \in Task \cup {NoTask},
         NEW k \in Kind, Register(t, p, k)
  PROVE  [u \in RootTask |-> Earlier(u)]'
           = [u \in RootTask |->
                IF u = t THEN {v \in RootTask : Submitted(v)} ELSE Earlier(u)]
<1> USE DEF AdmissionInv
<1>1. /\ pc[t] = "None" /\ pc'[t] = "Register" /\ seq'[t] = nextSeq
      /\ \A u \in Task \ {t} : pc'[u] = pc[u] /\ seq'[u] = seq[u]
  BY RegisterFrame
<1>2. \A u \in Task : /\ seq[u] \in Nat /\ nextSeq \in Nat
                      /\ Submitted(u) => seq[u] < nextSeq
  BY DEF TypeOK, SeqBelowNext
<1>3. ASSUME NEW u \in RootTask
      PROVE  Earlier(u)' = IF u = t THEN {v \in RootTask : Submitted(v)} ELSE Earlier(u)
  <2>1. u \in Task
    BY DEF Task
  <2>2. CASE u = t
    <3>1. ASSUME NEW v \in RootTask
          PROVE  Submitted(v)' /\ seq'[v] < seq'[t] <=> Submitted(v)
      BY <1>1, <1>2 DEF Submitted, Task
    <3>2. QED
      BY <1>1, <2>2, <3>1 DEF Earlier, Submitted
  <2>3. CASE u # t
    <3>1. ASSUME NEW v \in RootTask, Submitted(u)
          PROVE  Submitted(v)' /\ seq'[v] < seq'[u] <=> Submitted(v) /\ seq[v] < seq[u]
      BY <1>1, <1>2, <2>1, <2>3, <3>1 DEF Submitted, Task
    <3>2. QED
      BY <1>1, <2>1, <2>3, <3>1 DEF Earlier, Submitted
  <2>4. QED
    BY <2>2, <2>3
<1>4. QED
  BY <1>3

LEMMA SubmitSeen ==
  ASSUME AdmissionInv, TreeInv, NEW t \in Task, NEW k \in Kind, Submit(t, k)
  PROVE  Pool!Submit(t, ScopeOf(k))
<1> DEFINE earlier == [u \in RootTask |-> Earlier(u)]
<1> TypeOK /\ DriversStand /\ Register(t, NoTask, k) /\ t \in RootTask
  BY DEF AdmissionInv, Submit
<1>1. pc[t] = "None" /\ pc'[t] = "Register" /\ kind'[t] = k
      /\ parent' = [parent EXCEPT ![t] = NoTask]
  BY RegisterFrame DEF Register
<1>2. parent' = parent
  <2>1. parent[t] = NoTask
    BY <1>1 DEF TreeInv, Parents, Submitted
  <2>2. QED
    BY <1>1, <2>1 DEF TypeOK
<1>3. ScopeOf(k) \in Scopes /\ ScopeOf(k)[1] = k.class
  BY DEF Scopes, ScopeOf
<1>4. InLine(t)' <=> Cap[k.class] # Unbounded
  BY <1>1 DEF InLine, IsQueued, CapOf
<1>5. ~InLine(t)
  BY <1>1 DEF InLine
<1>6. InLines' = IF Cap[k.class] = Unbounded THEN InLines ELSE InLines \cup {t}
  BY <1>4, <1>5, RegisterSeen DEF InLines
<1>7. {u \in RootTask : Submitted(u)} = {u \in RootTask : [v \in Task |-> Phase(v)][u] # "None"}
  <2>1. \A u \in Task : state[u] # "None"
    BY DEF TypeOK, TaskState, Terminal
  <2>2. \A u \in Task : Submitted(u) <=> [v \in Task |-> Phase(v)][u] # "None"
    BY <2>1 DEF Phase
  <2>3. QED
    BY <2>2 DEF Task
<1>8. earlier' = [earlier EXCEPT ![t] =
                    {u \in RootTask : [v \in Task |-> Phase(v)][u] # "None"}]
  BY <1>7, EarlierSeen
<1>9. [s \in Scopes |-> Cap[s[1]]][ScopeOf(k)] = Cap[k.class]
  BY <1>3
<1>10. /\ Pool!Become(t, {"None"}, {"Queued"})
       /\ [u \in Task |-> Scope(u)]'
            = [[u \in Task |-> Scope(u)] EXCEPT ![t] = ScopeOf(k)]
       /\ Holders' = Holders
  BY RegisterSeen
<1> HIDE DEF earlier
<1>11. {u \in RootTask : InLine(u)}'
         = IF [s \in Scopes |-> Cap[s[1]]][ScopeOf(k)] = Unbounded
           THEN {u \in RootTask : InLine(u)} ELSE {u \in RootTask : InLine(u)} \cup {t}
  BY <1>6, <1>9 DEF InLines
<1>12. QED
  BY <1>2, <1>8, <1>10, <1>11 DEF Pool!Submit, earlier, Earlier, Phase, Holders

LEMMA SpawnSeen ==
  ASSUME AdmissionInv, NEW p \in Task, NEW t \in ChildTask, NEW k \in Kind,
         Spawn(p, t, k)
  PROVE  Pool!Spawn(t, ScopeOf(k))
<1> TypeOK /\ DriversStand /\ Register(t, p, k) /\ t \in Task /\ t \notin RootTask
  BY TasksAssumption DEF AdmissionInv, Spawn, Task
<1>1. parent' = [parent EXCEPT ![t] = p]
  BY DEF Register
<1>2. [u \in Task |-> Phase(u)][p] \in {"Running", "Cancelling"}
  <2>1. body[p] = "running"
    BY DEF Spawn
  <2>2. pc[p] \in {"Select", "Join"}
    BY <2>1 DEF DriversStand, Stands, TypeOK, DriverPc, BodyResult
  <2>3. QED
    BY <2>2 DEF DriversStand, Stands, Phase, Submitted
<1>3. [u \in RootTask |-> Earlier(u)]' = [u \in RootTask |-> Earlier(u)]
  BY EarlierSeen
<1>4. InLines' = InLines
  BY RegisterSeen DEF InLines
<1>5. p \in Pool!Task
  BY DEF Pool!Task, Task
<1>6. \E q \in Pool!Task :
        /\ [u \in Task |-> Phase(u)][q] \in {"Running", "Cancelling"}
        /\ parent' = [parent EXCEPT ![t] = q]
  BY <1>1, <1>2, <1>5
<1>7. QED
  BY <1>3, <1>4, <1>6, RegisterSeen DEF Pool!Spawn, InLines, Holders, Earlier, Phase

(* What a caller does but register a task is nothing that TaskPool sees. *)
LEMMA CallersUnseen ==
  ASSUME UNCHANGED <<entryVars, placeVars, pc>>
  PROVE  UNCHANGED PoolSeen
<1>1. UNCHANGED <<pc, kind, seq, parent, state>>
  BY DEF entryVars, identityVars
<1>2. \A t \in Task : /\ Submitted(t)' <=> Submitted(t)
                      /\ Scope(t)' = Scope(t) /\ Phase(t)' = Phase(t)
                      /\ InLine(t)' <=> InLine(t)
                      /\ HoldsSlot(t)' <=> HoldsSlot(t)
  BY <1>1 DEF Submitted, Scope, ScopeOf, Phase, InLine, HoldsSlot, IsQueued, CapOf
<1>3. \A t \in RootTask : Earlier(t)' = Earlier(t)
  BY <1>1, <1>2 DEF Earlier, Task
<1>4. InLines' = InLines /\ Holders' = Holders
  BY <1>2 DEF InLines, Holders, Task
<1>5. QED
  BY <1>1, <1>2, <1>3, <1>4 DEF PoolSeen

LEMMA StepImplements ==
  ASSUME AdmissionInv, TreeInv, [Next]_vars
  PROVE  Pool!Next \/ UNCHANGED PoolSeen
<1>1. TypeOK
  BY DEF AdmissionInv
<1>2. ASSUME NEW t \in Task, Driver(t) PROVE Pool!Next \/ UNCHANGED PoolSeen
  BY <1>2, DriverImplements
<1>3. ASSUME NEW t \in Task, NEW k \in Kind, Submit(t, k) PROVE Pool!Next
  <2>1. t \in Pool!Task /\ ScopeOf(k) \in Scopes
    BY DEF Pool!Task, Task, Scopes
  <2>2. QED
    BY <1>3, <2>1, SubmitSeen DEF Pool!Next
<1>4. ASSUME NEW p \in Task, NEW t \in ChildTask, NEW k \in Kind, Spawn(p, t, k)
      PROVE  Pool!Next
  <2>1. t \in Pool!Task /\ ScopeOf(k) \in Scopes
    BY DEF Pool!Task, Scopes
  <2>2. QED
    BY <1>4, <2>1, SpawnSeen DEF Pool!Next
<1>5. CASE Callers
  <2>1. CASE Registers
    BY <1>3, <1>4, <2>1 DEF Registers
  <2>2. CASE UNCHANGED <<entryVars, placeVars, pc>>
    BY <2>2, CallersUnseen
  <2>3. QED
    BY <1>1, <1>5, <2>1, <2>2, CallersDo DEF Returned
<1>6. CASE UNCHANGED vars
  BY <1>6, CallersUnseen DEF vars, entryVars, identityVars, placeVars
<1>7. QED
  BY <1>2, <1>5, <1>6 DEF Next, Callers, AtRest

(* What a client of the runtime can observe, with every lock, driver and      *)
(* notification behind it, is what TaskPool allows: places taken in the order *)
(* of submission and never too many, a task's states moving forward and ending *)
(* once, and a subtree ending from its leaves (task/runtime.rs).              *)
THEOREM RuntimeImplementsPool == Spec => ImplementsPool
<1>1. AdmissionInv /\ TreeInv /\ [Next]_vars => [Pool!Next]_(Pool!vars)
  BY StepImplements, PoolVars
<1>2. QED
  BY <1>1, InitPool, AdmissionInvariance, TreeInvariance, PTL
     DEF Spec, ImplementsPool, Pool!Spec

-----------------------------------------------------------------------------
(***************************************************************************)
(* The progress of a task: its throttle loses no report, for every interval *)
(* and however late its timer fires.                                        *)
(***************************************************************************)

(* A live task's latest report was sent, or is pending; and what is pending   *)
(* has a flush to come.  A direct send leaves the flush of an earlier report  *)
(* scheduled, so the converse of the second part does not hold.              *)
PendingIsFlushed ==
  entry = "live" => /\ delivered # progress => pending
                    /\ pending => timer # Never

ThrottleInv == ProgressTypeOK /\ LatestBeforeEnd /\ PendingIsFlushed

LEMMA ThrottleInit == ProgressInit => ThrottleInv
<1> SUFFICES ASSUME ProgressInit PROVE ThrottleInv
  OBVIOUS
<1> USE ThrottleAssumption DEF ProgressInit
<1>1. pending \in BOOLEAN
  OBVIOUS
<1>2. ProgressTypeOK
  BY <1>1 DEF ProgressTypeOK
<1>3. LatestBeforeEnd /\ PendingIsFlushed
  BY DEF LatestBeforeEnd, PendingIsFlushed
<1>4. QED
  BY <1>2, <1>3 DEF ThrottleInv

LEMMA ThrottleStep == ThrottleInv /\ [ProgressNext]_progressVars => ThrottleInv'
<1> SUFFICES ASSUME ThrottleInv, [ProgressNext]_progressVars PROVE ThrottleInv'
  OBVIOUS
<1> USE ThrottleAssumption DEF ThrottleInv, ProgressTypeOK
<1>1. CASE ReportNow
  <2>1. pending' \in BOOLEAN
    BY <1>1 DEF ReportNow
  <2>2. ProgressTypeOK'
    BY <1>1, <2>1 DEF ReportNow, MayReport, Send
  <2>3. LatestBeforeEnd' /\ PendingIsFlushed'
    BY <1>1 DEF ReportNow, MayReport, Send, LatestBeforeEnd, PendingIsFlushed
  <2>4. QED
    BY <2>2, <2>3
<1>2. CASE ReportLater
  <2>1. lastSent \in Nat /\ lastSent + Interval \in Nat
    BY <1>2 DEF ReportLater, IntervalPassed
  <2>2. QED
    BY <1>2, <2>1 DEF ReportLater, MayReport, LatestBeforeEnd, PendingIsFlushed
<1>3. CASE Flush
  <2>1. CASE entry = "live" /\ pending
    <3>1. pending' = FALSE /\ delivered' = progress' /\ lastSent' = now
      BY <1>3, <2>1 DEF Flush, Send
    <3>2. UNCHANGED <<now, entry, progress>> /\ timer' = Never
      BY <1>3, <2>1 DEF Flush
    <3>3. pending' \in BOOLEAN
      BY <3>1
    <3>4. ProgressTypeOK'
      BY <3>1, <3>2, <3>3
    <3>5. LatestBeforeEnd' /\ PendingIsFlushed'
      BY <3>1, <3>2 DEF LatestBeforeEnd, PendingIsFlushed
    <3>6. QED
      BY <3>4, <3>5
  <2>2. CASE ~(entry = "live" /\ pending)
    BY <1>3, <2>2 DEF Flush, LatestBeforeEnd, PendingIsFlushed
  <2>3. QED
    BY <2>1, <2>2
<1>4. CASE SettleProgress
  <2>1. /\ entry = "live" /\ entry' = "settled" /\ pending' = FALSE
        /\ UNCHANGED <<now, progress, lastSent, timer>>
    BY <1>4 DEF SettleProgress
  <2>2. delivered' = progress'
    <3>1. CASE pending
      BY <1>4, <3>1 DEF SettleProgress, Send
    <3>2. CASE ~pending
      BY <1>4, <2>1, <3>2 DEF SettleProgress, PendingIsFlushed
    <3>3. QED
      BY <3>1, <3>2
  <2>3. pending' \in BOOLEAN
    BY <2>1
  <2>4. ProgressTypeOK'
    BY <2>1, <2>2, <2>3
  <2>5. LatestBeforeEnd' /\ PendingIsFlushed'
    BY <2>1, <2>2 DEF LatestBeforeEnd, PendingIsFlushed
  <2>6. QED
    BY <2>4, <2>5
<1>5. CASE Evict
  BY <1>5 DEF Evict, LatestBeforeEnd, PendingIsFlushed
<1>6. CASE Tick
  BY <1>6 DEF Tick, LatestBeforeEnd, PendingIsFlushed
<1>7. CASE ProgressAtRest \/ UNCHANGED progressVars
  BY <1>7 DEF ProgressAtRest, progressVars, LatestBeforeEnd, PendingIsFlushed
<1>8. QED
  BY <1>1, <1>2, <1>3, <1>4, <1>5, <1>6, <1>7 DEF ProgressNext

(* runtime.rs:561: the latest progress always reaches observers before the    *)
(* end, whichever of a direct send, a late flush and settle() comes first.   *)
THEOREM LatestReachesBeforeEnd == ProgressSpec => []LatestBeforeEnd
<1>1. ThrottleInv => LatestBeforeEnd
  BY DEF ThrottleInv
<1>2. QED
  BY <1>1, ThrottleInit, ThrottleStep, PTL DEF ProgressSpec

(* A report that was held back has a flush to come (runtime.rs:277-291), even *)
(* when the timer was set for a report that a direct send overtook.          *)
THEOREM HeldBackIsFlushed == ProgressSpec => []HeldBackIsScheduled
<1>1. ThrottleInv => HeldBackIsScheduled
  BY DEF ThrottleInv, PendingIsFlushed, HeldBackIsScheduled
<1>2. QED
  BY <1>1, ThrottleInit, ThrottleStep, PTL DEF ProgressSpec

==============================================================================
