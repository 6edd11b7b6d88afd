--------------------------- MODULE ServerLockProofs ---------------------------
(***************************************************************************)
(* What is proved of the lock and the sockets for any servers and clients.  *)
(***************************************************************************)
EXTENDS ServerLock, TLAPS

USE ServerAssumption

(* Only the holder of the lock makes or removes a file, so what it has bound is   *)
(* still there unless a cleaner came.                                           *)
BoundByHolder ==
  cleans = 0 => \A s \in Server :
    /\ pc[s] \in {"BindClient", "Serving"} => file["api"] = s
    /\ pc[s] = "Serving" => file["client"] = s

IInv == TypeOK /\ BoundByHolder

LEMMA InitIInv == Init => IInv
  BY DEF Init, IInv, TypeOK, BoundByHolder, Holding, Sockets

(* The steps of one process, by what they touch. *)
LEMMA ProcessStep ==
  ASSUME IInv, NEW s \in Server, Process(s)
  PROVE  IInv'
<1> USE DEF IInv, TypeOK, BoundByHolder, Holding, Go, users
<1>1. CASE Start(s)
  BY <1>1 DEF Start
<1>2. CASE Acquire(s)
  <2>1. CASE TakeLock(s)
    BY <2>1 DEF TakeLock
  <2>2. CASE FindLocked(s)
    BY <2>2 DEF FindLocked
  <2>3. CASE WaitInGrace(s)
    BY <2>3 DEF WaitInGrace
  <2>4. CASE GraceRefused(s)
    BY <2>4 DEF GraceRefused
  <2>5. CASE LookAgain(s)
    BY <2>5 DEF LookAgain
  <2>6. QED
    BY <1>2, <2>1, <2>2, <2>3, <2>4, <2>5 DEF Acquire
<1>3. CASE GraceEnds(s)
  BY <1>3 DEF GraceEnds
<1>4. CASE Serve(s)
  <2>1. CASE Claim(s)
    BY <2>1 DEF Claim, Sockets
  <2>2. CASE BindApi(s)
    BY <2>2 DEF BindApi, Sockets
  <2>3. CASE BindClient(s)
    BY <2>3 DEF BindClient, Sockets
  <2>4. CASE BeginStop(s)
    BY <2>4 DEF BeginStop
  <2>5. CASE Stopped(s)
    BY <2>5 DEF Stopped
  <2>6. CASE DropApi(s)
    BY <2>6 DEF DropApi, Sockets
  <2>7. CASE DropClient(s)
    BY <2>7 DEF DropClient, Sockets
  <2>8. CASE Unlock(s)
    BY <2>8 DEF Unlock, Release
  <2>9. QED
    BY <1>4, <2>1, <2>2, <2>3, <2>4, <2>5, <2>6, <2>7, <2>8 DEF Serve
<1>5. CASE BindFails(s)
  BY <1>5 DEF BindFails
<1>6. CASE Signal(s)
  BY <1>6 DEF Signal
<1>7. CASE Crash(s)
  BY <1>7 DEF Crash, Release
<1>8. ASSUME NEW k \in Sockets, BindAgain(s, k) PROVE IInv'
  BY <1>8 DEF BindAgain, Sockets
<1>9. QED
  BY <1>1, <1>2, <1>3, <1>4, <1>5, <1>6, <1>7, <1>8 DEF Process

LEMMA StepIInv == IInv /\ [Next]_vars => IInv'
<1> SUFFICES ASSUME IInv, [Next]_vars PROVE IInv'
  OBVIOUS
<1>1. ASSUME NEW s \in Server, Process(s) PROVE IInv'
  BY <1>1, ProcessStep
<1> USE DEF IInv, TypeOK, BoundByHolder
<1>2. ASSUME NEW c \in Client, Attach(c) PROVE IInv'
  BY <1>2 DEF Attach
<1>3. ASSUME NEW c \in Client, StartOne(c) PROVE IInv'
  BY <1>3 DEF StartOne, Go, Holding
<1>4. CASE AskToStop
  BY <1>4 DEF AskToStop
<1>5. CASE SocketGone \/ StopTimesOut
  BY <1>5 DEF SocketGone, StopTimesOut
<1>6. ASSUME NEW k \in Sockets, Clean(k) PROVE IInv'
  BY <1>6 DEF Clean
<1>7. CASE AtRest \/ UNCHANGED vars
  BY <1>7 DEF AtRest, vars
<1>8. QED
  BY <1>1, <1>2, <1>3, <1>4, <1>5, <1>6, <1>7 DEF Next

LEMMA Invariance == Spec => []IInv
  BY InitIInv, StepIInv, PTL DEF Spec

(* Types, and mutual exclusion: the lock is held by the one server that is past   *)
(* acquire_lock() and has not exited.                                           *)
THEOREM LockTypeCorrect == Spec => []TypeOK
<1>1. IInv => TypeOK
  BY DEF IInv
<1>2. QED
  BY <1>1, Invariance, PTL

(* No server, on its first instant or its last, takes the sockets of one that     *)
(* serves, whichever start, stop, fail and crash.                                *)
THEOREM ServingStaysReachable == Spec => []ServingIsReachable
<1>1. IInv => ServingIsReachable
  BY DEF IInv, BoundByHolder, ServingIsReachable, Sockets
<1>2. QED
  BY <1>1, Invariance, PTL

(* Until a cleaner comes, a client socket is of a server that crashed or that      *)
(* holds the lock and has yet to remove it; the server that stop() asked keeps its *)
(* own until then, and stop() returns only after.                                 *)
Bound == {"Serving", "Stopping", "DropApi", "DropClient"}

SocketsMeanHeld ==
  cleans = 0 =>
    /\ \A t \in Server : file["client"] = t => pc[t] \in Bound \cup {"Gone"}
    /\ stop \in {"Polling", "Stopped"} =>
         /\ target \in Server
         /\ \/ pc[target] \in Bound /\ file["client"] = target
            \/ pc[target] \in {"Unlock", "Gone"}
    /\ stop = "Stopped" => pc[target] \in {"Unlock", "Gone"}

LEMMA HeldStep ==
  ASSUME IInv, SocketsMeanHeld, [Next]_vars
  PROVE  SocketsMeanHeld'
<1> USE DEF IInv, TypeOK, BoundByHolder, SocketsMeanHeld, Bound, Holding, Sockets,
            Go, users
<1>1. ASSUME NEW s \in Server, Start(s) \/ Acquire(s) \/ GraceEnds(s)
      PROVE  SocketsMeanHeld'
  BY <1>1 DEF Start, Acquire, GraceEnds, TakeLock, FindLocked, WaitInGrace,
     GraceRefused, LookAgain
<1>2. ASSUME NEW s \in Server, Claim(s) \/ BindApi(s) \/ BindClient(s)
      PROVE  SocketsMeanHeld'
  BY <1>2 DEF Claim, BindApi, BindClient
<1>3. ASSUME NEW s \in Server, BeginStop(s) \/ Stopped(s) \/ DropApi(s)
      PROVE  SocketsMeanHeld'
  BY <1>3 DEF BeginStop, Stopped, DropApi
<1>4. ASSUME NEW s \in Server, DropClient(s) \/ Unlock(s)
      PROVE  SocketsMeanHeld'
  BY <1>4 DEF DropClient, Unlock, Release
<1>5. ASSUME NEW s \in Server, BindFails(s) \/ Signal(s) \/ Crash(s)
      PROVE  SocketsMeanHeld'
  BY <1>5 DEF BindFails, Signal, Crash, Release
<1>6. ASSUME NEW s \in Server, NEW k \in Sockets, BindAgain(s, k)
      PROVE  SocketsMeanHeld'
  BY <1>6 DEF BindAgain
<1>7. ASSUME NEW c \in Client, Attach(c) \/ StartOne(c) PROVE SocketsMeanHeld'
  BY <1>7 DEF Attach, StartOne
<1>8. CASE AskToStop
  BY <1>8 DEF AskToStop
<1>9. CASE SocketGone \/ StopTimesOut
  BY <1>9 DEF SocketGone, StopTimesOut, Exists
<1>10. ASSUME NEW k \in Sockets, Clean(k) PROVE SocketsMeanHeld'
  BY <1>10 DEF Clean
<1>11. CASE AtRest \/ UNCHANGED vars
  BY <1>11 DEF AtRest, vars
<1>12. QED
  BY <1>1, <1>2, <1>3, <1>4, <1>5, <1>6, <1>7, <1>8, <1>9, <1>10, <1>11
     DEF Next, Process, Serve

Told(s, t) ==
  /\ result'[s] = "AlreadyRunning" /\ result[s] = "none"
  /\ file["client"] = t /\ pc[t] # "Gone" /\ cleans = 0

(* A server is told that another runs only by the socket of one that holds the     *)
(* lock, or that crashed, and never of one that `fpk server stop` has seen off:    *)
(* `fpk server stop && fpk` starts a fresh server.                                *)
THEOREM AlreadyRunningHolds == Spec => AlreadyRunningIsTrue
<1>1. Init => SocketsMeanHeld
  BY DEF Init, SocketsMeanHeld, Bound, Sockets
<1>2. IInv /\ SocketsMeanHeld /\ [Next]_vars => SocketsMeanHeld'
  BY HeldStep
<1>3. ASSUME IInv, SocketsMeanHeld, NEW s \in Server, NEW t \in Server, Told(s, t)
      PROVE  lock = t /\ (stop = "Stopped" => t # target)
  <2>1. pc[t] \in Bound
    BY <1>3 DEF SocketsMeanHeld, Told
  <2>2. lock = t
    BY <1>3, <2>1 DEF IInv, TypeOK, Bound, Holding
  <2>3. QED
    BY <1>3, <2>1, <2>2 DEF SocketsMeanHeld, Told, Bound
<1>4. IInv /\ SocketsMeanHeld /\ [Next]_vars =>
        [\A s, t \in Server :
           Told(s, t) => lock = t /\ (stop = "Stopped" => t # target)]_vars
  BY <1>3
<1>5. QED
  BY <1>1, <1>2, <1>4, Invariance, PTL DEF Spec, AlreadyRunningIsTrue, Told

(* A file that a server has made and that is still its own means that the server   *)
(* has yet to remove it, unless it crashed.                                     *)
MayKeep(k) ==
  IF k = "api" THEN {"BindClient", "Serving", "Stopping", "DropApi"}
  ELSE {"Serving", "Stopping", "DropApi", "DropClient"}

FilesOfTheLiving ==
  \A k \in Sockets, t \in Server :
    file[k] = t /\ t \notin MayCrash => pc[t] \in MayKeep(k)

LEMMA FilesStep ==
  ASSUME IInv, FilesOfTheLiving, [Next]_vars
  PROVE  FilesOfTheLiving'
<1> USE DEF IInv, TypeOK, FilesOfTheLiving, MayKeep, Holding, Sockets, Go, users
<1>1. ASSUME NEW s \in Server, Start(s) \/ Acquire(s) \/ GraceEnds(s)
      PROVE  FilesOfTheLiving'
  BY <1>1 DEF Start, Acquire, GraceEnds, TakeLock, FindLocked, WaitInGrace,
     GraceRefused, LookAgain
<1>2. ASSUME NEW s \in Server, Claim(s) \/ BindApi(s) \/ BindClient(s)
      PROVE  FilesOfTheLiving'
  BY <1>2 DEF Claim, BindApi, BindClient
<1>3. ASSUME NEW s \in Server, BeginStop(s) \/ Stopped(s) \/ DropApi(s)
      PROVE  FilesOfTheLiving'
  BY <1>3 DEF BeginStop, Stopped, DropApi
<1>4. ASSUME NEW s \in Server, DropClient(s) \/ Unlock(s)
      PROVE  FilesOfTheLiving'
  BY <1>4 DEF DropClient, Unlock
<1>5. ASSUME NEW s \in Server, BindFails(s) \/ Signal(s) \/ Crash(s)
      PROVE  FilesOfTheLiving'
  BY <1>5 DEF BindFails, Signal, Crash
<1>6. ASSUME NEW s \in Server, NEW k \in Sockets, BindAgain(s, k)
      PROVE  FilesOfTheLiving'
  BY <1>6 DEF BindAgain
<1>7. ASSUME NEW c \in Client, Attach(c) \/ StartOne(c) PROVE FilesOfTheLiving'
  BY <1>7 DEF Attach, StartOne
<1>8. CASE AskToStop \/ SocketGone \/ StopTimesOut
  BY <1>8 DEF AskToStop, SocketGone, StopTimesOut
<1>9. ASSUME NEW k \in Sockets, Clean(k) PROVE FilesOfTheLiving'
  BY <1>9 DEF Clean
<1>10. CASE AtRest \/ UNCHANGED vars
  BY <1>10 DEF AtRest, vars
<1>11. QED
  BY <1>1, <1>2, <1>3, <1>4, <1>5, <1>6, <1>7, <1>8, <1>9, <1>10
     DEF Next, Process, Serve

(* For any servers, each socket file that is there is of a server that still runs, *)
(* or of one that may have crashed.  MayCrash being any set, this says of every     *)
(* server that does not crash that neither its stop nor a bind that fails leaves a  *)
(* socket behind, whatever other servers and cleaners do meanwhile.  server.lock,   *)
(* which nothing removes, is not among them.                                    *)
THEOREM CleanStopsLeaveNothing == Spec => []OnlyCrashesLeaveFiles
<1>1. Init => FilesOfTheLiving
  BY DEF Init, FilesOfTheLiving, Sockets
<1>2. IInv /\ FilesOfTheLiving /\ [Next]_vars => FilesOfTheLiving'
  BY FilesStep
<1>3. IInv /\ FilesOfTheLiving => OnlyCrashesLeaveFiles
  BY DEF OnlyCrashesLeaveFiles, FilesOfTheLiving, MayKeep, Holding
<1>4. QED
  BY <1>1, <1>2, <1>3, Invariance, PTL DEF Spec
===============================================================================
