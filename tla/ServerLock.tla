------------------------------ MODULE ServerLock ------------------------------
(***************************************************************************)
(* Who serves a home: the lock file, the two socket files, and the server    *)
(* processes, clients and cleaners of /tmp that come and go around them.     *)
(*                                                                         *)
(* The lock is the system's and goes with its process; a socket file stays   *)
(* until someone removes it, whether or not anyone listens behind it.  A file *)
(* is known by the server whose socket it is.                               *)
(***************************************************************************)
EXTENDS Integers

CONSTANTS
  Server,     \* server processes, each with one life
  Client,     \* runs of attach_or_start()
  MayStop,    \* the servers that a signal or `fpk server stop` may stop
  MayCrash,   \* the servers that may die at any point
  MayFail,    \* the servers that may fail to bind a socket
  MaxCleans,  \* bound: how many socket files a cleaner removes
  Nobody

ASSUME ServerAssumption ==
  /\ Nobody \notin Server
  /\ MayStop \subseteq Server /\ MayCrash \subseteq Server /\ MayFail \subseteq Server
  /\ MaxCleans \in Nat

VARIABLES
  pc,      \* where serve() stands in each process
  result,  \* what acquire_lock() told it, if not the lock
  grace,   \* whether LOCK_GRACE has passed for it
  lock,    \* who holds server.lock
  file,    \* whose socket each of the two files is
  asked,   \* the servers whose shutdown token is cancelled, or about to be
  client,  \* where each attach_or_start() stands
  stop,    \* where `fpk server stop` stands, and what it returned
  target,  \* the server it has asked
  cleans   \* how many files a cleaner has removed

vars  == <<pc, result, grace, lock, file, asked, client, stop, target, cleans>>
users == <<client, stop, target, cleans>>

Sockets == {"api", "client"}

(* A server that crashed earlier may have left its files. *)
Init ==
  /\ pc = [s \in Server |-> "Off"]
  /\ result = [s \in Server |-> "none"]
  /\ grace = [s \in Server |-> "open"]
  /\ lock = Nobody
  /\ file = [k \in Sockets |-> Nobody]
  /\ asked = {}
  /\ client = [c \in Client |-> "Idle"]
  /\ stop = "Idle"
  /\ target = Nobody
  /\ cleans = 0

Go(s, to) == pc' = [pc EXCEPT ![s] = to]

Exists(k) == file[k] # Nobody

-----------------------------------------------------------------------------
(* acquire_lock() *)

Start(s) ==
  /\ pc[s] = "Off"
  /\ Go(s, "TryLock")
  /\ UNCHANGED <<result, grace, lock, file, asked, users>>

TakeLock(s) ==
  /\ pc[s] = "TryLock" /\ lock = Nobody
  /\ lock' = s
  /\ Go(s, "Claim")
  /\ UNCHANGED <<result, grace, file, asked, users>>

FindLocked(s) ==
  /\ pc[s] = "TryLock" /\ lock # Nobody
  /\ Go(s, "Look")
  /\ UNCHANGED <<result, grace, lock, file, asked, users>>

(* The guard of the first arm: no client socket, and not yet past the grace. *)
WaitInGrace(s) ==
  /\ pc[s] = "Look" /\ ~Exists("client") /\ grace[s] = "open"
  /\ Go(s, "TryLock")
  /\ UNCHANGED <<result, grace, lock, file, asked, users>>

GraceRefused(s) ==
  /\ pc[s] = "Look" /\ (Exists("client") \/ grace[s] = "over")
  /\ Go(s, "LookAgain")
  /\ UNCHANGED <<result, grace, lock, file, asked, users>>

(* The guard of the second arm looks at the socket for itself. *)
LookAgain(s) ==
  /\ pc[s] = "LookAgain"
  /\ result' = [result EXCEPT ![s] = IF Exists("client")
                                     THEN "AlreadyRunning" ELSE "SocketUnseen"]
  /\ Go(s, "Gone")
  /\ UNCHANGED <<grace, lock, file, asked, users>>

(* The grace is long beside a server's first and last instants with the lock,   *)
(* so it passes only while one holds it that is not about to bind or to exit.   *)
GraceEnds(s) ==
  /\ pc[s] \in {"TryLock", "Look"} /\ grace[s] = "open"
  /\ \E t \in Server : lock = t /\ pc[t] \in {"Serving", "Stopping"}
  /\ grace' = [grace EXCEPT ![s] = "over"]
  /\ UNCHANGED <<pc, result, lock, file, asked, users>>

-----------------------------------------------------------------------------
(* serve(), with the lock *)

Claim(s) ==
  /\ pc[s] = "Claim"
  /\ file' = [k \in Sockets |-> Nobody]
  /\ Go(s, "BindApi")
  /\ UNCHANGED <<result, grace, lock, asked, users>>

BindApi(s) ==
  /\ pc[s] = "BindApi" /\ ~Exists("api")
  /\ file' = [file EXCEPT !["api"] = s]
  /\ Go(s, "BindClient")
  /\ UNCHANGED <<result, grace, lock, asked, users>>

BindClient(s) ==
  /\ pc[s] = "BindClient" /\ ~Exists("client")
  /\ file' = [file EXCEPT !["client"] = s]
  /\ Go(s, "Serving")
  /\ UNCHANGED <<result, grace, lock, asked, users>>

(* Mutant of BindAgain: only the client socket is watched. *)
BindClientAgain(s, k) ==
  /\ pc[s] = "Serving" /\ file[k] # s /\ k = "client"
  /\ file' = [file EXCEPT ![k] = s]
  /\ UNCHANGED <<pc, result, grace, lock, asked, users>>

(* bind_again_if_gone(): the file is gone, or is another's. *)
BindAgain(s, k) ==
  /\ pc[s] = "Serving" /\ file[k] # s
  /\ file' = [file EXCEPT ![k] = s]
  /\ UNCHANGED <<pc, result, grace, lock, asked, users>>

BeginStop(s) ==
  /\ pc[s] = "Serving" /\ s \in asked
  /\ Go(s, "Stopping")
  /\ UNCHANGED <<result, grace, lock, file, asked, users>>

(* Mutant of Stopped: the lock is declared last, so it is dropped first. *)
LockDroppedFirst(s) ==
  /\ pc[s] = "Stopping"
  /\ lock' = Nobody
  /\ Go(s, "DropApi")
  /\ UNCHANGED <<result, grace, file, asked, users>>

Stopped(s) ==
  /\ pc[s] = "Stopping"
  /\ Go(s, "DropApi")
  /\ UNCHANGED <<result, grace, lock, file, asked, users>>

(* Sockets::drop() removes by name, first the one and then the other. *)
DropApi(s) ==
  /\ pc[s] = "DropApi"
  /\ file' = [file EXCEPT !["api"] = Nobody]
  /\ Go(s, "DropClient")
  /\ UNCHANGED <<result, grace, lock, asked, users>>

DropClient(s) ==
  /\ pc[s] = "DropClient"
  /\ file' = [file EXCEPT !["client"] = Nobody]
  /\ Go(s, "Unlock")
  /\ UNCHANGED <<result, grace, lock, asked, users>>

Release(s) == lock' = IF lock = s THEN Nobody ELSE lock

Unlock(s) ==
  /\ pc[s] = "Unlock"
  /\ Release(s)
  /\ Go(s, "Gone")
  /\ UNCHANGED <<result, grace, file, asked, users>>

(* Mutant of BindFails: it returns before the guard of the sockets is made. *)
BindFailsUnguarded(s) ==
  /\ s \in MayFail /\ pc[s] \in {"BindApi", "BindClient"}
  /\ Go(s, "Unlock")
  /\ UNCHANGED <<result, grace, lock, file, asked, users>>

(* A bind that fails ends serve() with an error: its locals drop as at a stop. *)
BindFails(s) ==
  /\ s \in MayFail /\ pc[s] \in {"BindApi", "BindClient"}
  /\ Go(s, "DropApi")
  /\ UNCHANGED <<result, grace, lock, file, asked, users>>

Signal(s) ==
  /\ s \in MayStop \ asked /\ pc[s] \notin {"Off", "Gone"}
  /\ asked' = asked \cup {s}
  /\ UNCHANGED <<pc, result, grace, lock, file, users>>

(* The system releases the lock of a process that dies; its files stay. *)
Crash(s) ==
  /\ s \in MayCrash /\ pc[s] \notin {"Off", "Gone"}
  /\ Release(s)
  /\ Go(s, "Gone")
  /\ UNCHANGED <<result, grace, file, asked, users>>

-----------------------------------------------------------------------------
(* Clients *)

(* Whether a connection to the client socket is accepted. *)
IsRunning == \E s \in Server : file["client"] = s /\ pc[s] = "Serving"

(* Mutant of Attach: a client that started a server does not look again. *)
AttachAtFirst(c) ==
  /\ client[c] = "Idle" /\ IsRunning
  /\ client' = [client EXCEPT ![c] = "Attached"]
  /\ UNCHANGED <<pc, result, grace, lock, file, asked, stop, target, cleans>>

Attach(c) ==
  /\ client[c] \in {"Idle", "Waiting"} /\ IsRunning
  /\ client' = [client EXCEPT ![c] = "Attached"]
  /\ UNCHANGED <<pc, result, grace, lock, file, asked, stop, target, cleans>>

(* attach_or_start() finds none, starts one, and polls until one answers. *)
StartOne(c) ==
  /\ client[c] = "Idle" /\ ~IsRunning
  /\ \E s \in Server : pc[s] = "Off" /\ Go(s, "TryLock")
  /\ client' = [client EXCEPT ![c] = "Waiting"]
  /\ UNCHANGED <<result, grace, lock, file, asked, stop, target, cleans>>

(* stop(): the server answers, and cancels its token after.  A server that is   *)
(* stopping or gone refuses the connection, or does not answer.                *)
AskToStop ==
  /\ stop = "Idle"
  /\ \/ \E s \in MayStop :
          /\ file["api"] = s /\ pc[s] = "Serving"
          /\ asked' = asked \cup {s}
          /\ target' = s
          /\ stop' = "Polling"
     \/ /\ ~\E s \in Server : file["api"] = s /\ pc[s] = "Serving"
        /\ stop' = "Refused"
        /\ UNCHANGED <<asked, target>>
  /\ UNCHANGED <<pc, result, grace, lock, file, client, cleans>>

SocketGone ==
  /\ stop = "Polling" /\ ~Exists("client")
  /\ stop' = "Stopped"
  /\ UNCHANGED <<pc, result, grace, lock, file, asked, client, target, cleans>>

(* STOP_TIMEOUT, 10 s, is twice the time a server takes to stop. *)
StopTimesOut ==
  /\ stop = "Polling" /\ Exists("client") /\ pc[target] = "Gone"
  /\ stop' = "StopTimeout"
  /\ UNCHANGED <<pc, result, grace, lock, file, asked, client, target, cleans>>

Clean(k) ==
  /\ cleans < MaxCleans /\ Exists(k)
  /\ file' = [file EXCEPT ![k] = Nobody]
  /\ cleans' = cleans + 1
  /\ UNCHANGED <<pc, result, grace, lock, asked, client, stop, target>>

(* Nothing is left to do but what need not happen. *)
AtRest ==
  /\ \A s \in Server : pc[s] \in {"Off", "Gone", "Serving"}
  /\ UNCHANGED vars

-----------------------------------------------------------------------------
Acquire(s) ==
  TakeLock(s) \/ FindLocked(s) \/ WaitInGrace(s) \/ GraceRefused(s) \/ LookAgain(s)

Serve(s) ==
  \/ Claim(s) \/ BindApi(s) \/ BindClient(s) \/ BeginStop(s) \/ Stopped(s)
  \/ DropApi(s) \/ DropClient(s) \/ Unlock(s)

Process(s) ==
  \/ Start(s) \/ Acquire(s) \/ GraceEnds(s) \/ Serve(s) \/ BindFails(s)
  \/ Signal(s) \/ Crash(s)
  \/ \E k \in Sockets : BindAgain(s, k)

Next ==
  \/ \E s \in Server : Process(s)
  \/ \E c \in Client : Attach(c) \/ StartOne(c)
  \/ AskToStop \/ SocketGone \/ StopTimesOut
  \/ \E k \in Sockets : Clean(k)
  \/ AtRest

Spec == Init /\ [][Next]_vars

(* A process goes on, its listeners check their files now and then, and time     *)
(* passes for one that waits on the lock.  A client goes on with what it began.  *)
Fairness ==
  /\ \A s \in Server :
       /\ WF_vars(Acquire(s) \/ Serve(s))
       /\ WF_vars(GraceEnds(s))
       /\ \A k \in Sockets : WF_vars(BindAgain(s, k))
  /\ \A c \in Client : WF_vars(Attach(c))

FairSpec == Spec /\ Fairness

-----------------------------------------------------------------------------
Holding == {"Claim", "BindApi", "BindClient", "Serving", "Stopping", "DropApi",
            "DropClient", "Unlock"}

(* Every variable has its type, and the lock is held by the one server that is   *)
(* past acquire_lock() and has not exited.                                      *)
TypeOK ==
  /\ pc \in [Server -> {"Off", "TryLock", "Look", "LookAgain", "Gone"} \cup Holding]
  /\ result \in [Server -> {"none", "AlreadyRunning", "SocketUnseen"}]
  /\ grace \in [Server -> {"open", "over"}]
  /\ lock \in Server \cup {Nobody}
  /\ file \in [Sockets -> Server \cup {Nobody}]
  /\ asked \subseteq Server
  /\ client \in [Client -> {"Idle", "Waiting", "Attached"}]
  /\ stop \in {"Idle", "Refused", "Polling", "Stopped", "StopTimeout"}
  /\ target \in Server \cup {Nobody}
  /\ cleans \in 0..MaxCleans
  /\ \A s \in Server : pc[s] \in Holding <=> lock = s

(* No other server, starting or on its last instant, takes away the socket of    *)
(* one that serves: without a cleaner a serving server has both its files.       *)
ServingIsReachable ==
  \A s \in Server : pc[s] = "Serving" /\ cleans = 0 => \A k \in Sockets : file[k] = s

(* A socket file outlives the server that bound it only when that server crashed: *)
(* a stop, and a bind that fails after the other was made, take it away, whoever   *)
(* else starts or cleans meanwhile.  server.lock is no part of this: nothing ever  *)
(* removes it.                                                                 *)
OnlyCrashesLeaveFiles ==
  \A k \in Sockets, s \in Server \ MayCrash :
    file[k] = s => pc[s] \notin {"Off", "Gone"}

(* mod.rs:273-275: a server that is told another runs was not refused by the      *)
(* last instant of one that `fpk server stop` has seen off.  Not said of a socket  *)
(* that a crashed server left, which looks the same, nor once a cleaner came,      *)
(* which makes a stop look done.                                               *)
AlreadyRunningIsTrue ==
  [][\A s, t \in Server :
       /\ result'[s] = "AlreadyRunning" /\ result[s] = "none"
       /\ file["client"] = t /\ pc[t] # "Gone" /\ cleans = 0
       => lock = t /\ (stop = "Stopped" => t # target)]_vars

(* A server that was started, crashed ones' files or not, exits with a reason or   *)
(* serves with both its files, which it binds again when a cleaner takes them      *)
(* (mod.rs:309-345, listener.rs:1-6); it does not wait for ever on a lock.        *)
ServesOrExits ==
  \A s \in Server : pc[s] # "Off" ~>
    pc[s] = "Gone" \/ (pc[s] = "Serving" /\ \A k \in Sockets : file[k] = s)

(* A server that ended other than by losing the lock to another. *)
Lost(s) == pc[s] = "Gone" /\ result[s] = "none"

(* client/mod.rs:156-158: when clients start servers at once one server wins and   *)
(* every client attaches to it, unless a server is stopped, crashes or fails.     *)
EveryClientAttaches ==
  \A c \in Client :
    client[c] = "Waiting" ~>
      client[c] = "Attached" \/ asked # {} \/ \E s \in Server : Lost(s)

(* Nobody who meets another at the lock waits for ever, neither the server that    *)
(* loses it nor the client that started that server.                              *)
NobodyWaitsForEver == ServesOrExits /\ EveryClientAttaches

(* mod.rs:271-275: "A held lock with no client socket is a server between          *)
(* removing its sockets and exiting, or one that has not bound them yet.  Either  *)
(* resolves within moments, so this retries for [`LOCK_GRACE`] before giving up". *)
RetriesForGrace ==
  \A s \in Server : result[s] = "SocketUnseen" => grace[s] = "over"
==============================================================================
