------------------------------ MODULE Connection ------------------------------
(***************************************************************************)
(* One machine in the TUI: the task that attaches to its server and         *)
(* reconnects with backoff, the UI loop that draws what the task reports    *)
(* and sends it commands, and a server that others start and stop.          *)
(*                                                                         *)
(* The two meet in two queues only: events, which the task awaits room for, *)
(* and commands, which the UI drops when there is no room.  A state of the  *)
(* task is never looked at by the UI, and what it draws is always old.      *)
(***************************************************************************)
EXTENDS Integers, Sequences

CONSTANTS
  EventBuffer,    \* what the two event channels hold between them
  CommandBuffer,  \* what the command channel holds
  Width,          \* the bits of `attempt`, a u32
  Base, MaxDelay  \* Backoff::base and max

ASSUME ConnectionAssumption ==
  /\ EventBuffer \in Nat \ {0} /\ CommandBuffer \in Nat \ {0}
  /\ Width \in Nat \ {0} /\ Base \in Nat \ {0} /\ MaxDelay \in Nat
  /\ MaxDelay <= Base * (2^Width - 1)

VARIABLES
  pc,        \* where run() stands
  lost,      \* why it last lost the server: the event that says so
  attempt,   \* run()'s attempt
  delay,     \* run()'s delay: what it sleeps
  events,    \* ConnectionEvents on their way to the UI
  commands,  \* how many StartServer commands wait; there is no other command
  shown,     \* MachineState: what the UI draws
  server,    \* whether the machine's server runs
  reach,     \* what a probe of the machine finds
  stream,    \* whether the Watch stream of the attachment still is open
  wish       \* what the user last asked of the server, here or elsewhere

connectionVars == <<pc, lost, attempt, delay, events, commands, shown,
          server, reach, stream, wish>>
run  == <<pc, lost, attempt, delay>>
host == <<server, reach, stream>>

States == {"Attaching", "Starting", "Attached", "Disconnected", "NeedsAttention"}
MaxAttempt == 2^Width - 1

SmallerOf(a, b) == IF a < b THEN a ELSE b

(* Backoff::delay: a shift by Width or more is checked, not wrapped. *)
Delay(n) ==
  SmallerOf(Base * (IF n < Width THEN 2^n ELSE MaxAttempt), MaxDelay)

ConnectionInit ==
  /\ pc = "Announce"
  /\ lost = "Disconnected"
  /\ attempt = 0
  /\ delay = 0
  /\ events = <<>>
  /\ commands = 0
  /\ shown = "Attaching"
  /\ server \in BOOLEAN
  /\ reach \in {"ok", "unreachable", "attention"}
  /\ stream = FALSE
  /\ wish = IF server THEN "run" ELSE "stop"

(* events.send(e).await: waits for room. *)
SendEvent(e) ==
  /\ Len(events) < EventBuffer
  /\ events' = Append(events, e)

-----------------------------------------------------------------------------
(* run() *)

Announce ==
  /\ pc = "Announce"
  /\ SendEvent("Attaching")
  /\ pc' = "Attach"
  /\ UNCHANGED <<lost, attempt, delay, commands, shown, host, wish>>

AttachSucceeds ==
  /\ pc = "Attach"
  /\ reach = "ok" /\ server
  /\ stream' = TRUE
  /\ attempt' = 0
  /\ pc' = "AnnounceAttached"
  /\ UNCHANGED <<lost, delay, events, commands, shown, server, reach, wish>>

(* The delay is computed, and the attempt counted, before the event goes out. *)
Lose(why) ==
  /\ lost' = why
  /\ delay' = Delay(attempt)
  /\ attempt' = SmallerOf(attempt + 1, MaxAttempt)
  /\ pc' = "AnnounceLost"

AttachFails ==
  /\ pc = "Attach"
  /\ ~(reach = "ok" /\ server)
  /\ Lose(IF reach = "attention" THEN "NeedsAttention" ELSE "Disconnected")
  /\ UNCHANGED <<events, commands, shown, host, wish>>

AnnounceAttached ==
  /\ pc = "AnnounceAttached"
  /\ SendEvent("Attached")
  /\ pc' = "Watch"
  /\ UNCHANGED <<lost, attempt, delay, commands, shown, host, wish>>

(* An update arrives and is passed on. *)
Relay ==
  /\ pc = "Watch" /\ stream
  /\ SendEvent("Tasks")
  /\ UNCHANGED <<run, commands, shown, host, wish>>

WatchEnds ==
  /\ pc = "Watch" /\ ~stream
  /\ Lose("Disconnected")
  /\ UNCHANGED <<events, commands, shown, host, wish>>

AnnounceLost ==
  /\ pc = "AnnounceLost"
  /\ SendEvent(lost)
  /\ pc' = "Sleep"
  /\ UNCHANGED <<lost, attempt, delay, commands, shown, host, wish>>

(* Mutant of WakeUp: a machine that needs attention waits for a command. *)
WakeUpUnlessAttention ==
  /\ pc = "Sleep" /\ lost = "Disconnected"
  /\ pc' = "Announce"
  /\ UNCHANGED <<lost, attempt, delay, events, commands, shown, host, wish>>

WakeUp ==
  /\ pc = "Sleep"
  /\ pc' = "Announce"
  /\ UNCHANGED <<lost, attempt, delay, events, commands, shown, host, wish>>

(* Mutant of TakeCommand: the UI is not told. *)
StartUnannounced ==
  /\ pc = "Sleep" /\ commands > 0
  /\ commands' = commands - 1
  /\ pc' = "Start"
  /\ UNCHANGED <<lost, attempt, delay, events, shown, host, wish>>

(* Mutant of TakeCommand: it is taken only of a machine that is disconnected. *)
TakeUnlessAttention ==
  /\ pc = "Sleep" /\ commands > 0 /\ lost = "Disconnected"
  /\ commands' = commands - 1
  /\ pc' = "AnnounceStarting"
  /\ UNCHANGED <<lost, attempt, delay, events, shown, host, wish>>

TakeCommand ==
  /\ pc = "Sleep" /\ commands > 0
  /\ commands' = commands - 1
  /\ pc' = "AnnounceStarting"
  /\ UNCHANGED <<lost, attempt, delay, events, shown, host, wish>>

AnnounceStarting ==
  /\ pc = "AnnounceStarting"
  /\ SendEvent("Starting")
  /\ pc' = "Start"
  /\ UNCHANGED <<lost, attempt, delay, commands, shown, host, wish>>

(* start_server() finds one running, starts one, or fails: all the same to it. *)
StartServer ==
  /\ pc = "Start"
  /\ server' \in IF reach = "unreachable" THEN {server} ELSE {server, TRUE}
  /\ attempt' = 0
  /\ pc' = "Announce"
  /\ UNCHANGED <<lost, delay, events, commands, shown, reach, stream, wish>>

-----------------------------------------------------------------------------
(* The UI *)

(* on_connection_at(): an update of tasks leaves the state as it is. *)
OnConnection ==
  /\ events # <<>>
  /\ events' = Tail(events)
  /\ shown' = IF Head(events) = "Tasks" THEN shown ELSE Head(events)
  /\ UNCHANGED <<run, commands, host, wish>>

(* The s key, or a click on its hint: start_server() and try_send(). *)
PressStart ==
  /\ shown = "Disconnected"
  /\ wish' = "run"
  /\ commands' = SmallerOf(commands + 1, CommandBuffer)
  /\ UNCHANGED <<run, events, shown, host>>

-----------------------------------------------------------------------------
(* Others *)

(* `fpk server stop`, here or on the machine.  When it overlaps a start that    *)
(* the user asked for either may win, so what counts as their wish is the stop  *)
(* of a server that they see attached.                                        *)
StopServer ==
  /\ server
  /\ server' = FALSE /\ stream' = FALSE
  /\ wish' = IF shown = "Attached" THEN "stop" ELSE wish
  /\ UNCHANGED <<run, events, commands, shown, reach>>

ServerDies ==
  /\ server
  /\ server' = FALSE /\ stream' = FALSE
  /\ UNCHANGED <<run, events, commands, shown, reach, wish>>

StartElsewhere ==
  /\ ~server
  /\ server' = TRUE /\ wish' = "run"
  /\ UNCHANGED <<run, events, commands, shown, reach, stream>>

(* A network that comes and goes, a login or an install that is wanted.  An    *)
(* attachment may outlive the change.                                         *)
ReachChanges ==
  /\ reach' \in {"ok", "unreachable", "attention"} \ {reach}
  /\ stream' \in {stream, FALSE}
  /\ UNCHANGED <<run, events, commands, shown, server, wish>>

-----------------------------------------------------------------------------
ConnectionTask ==
  \/ Announce \/ AttachSucceeds \/ AttachFails \/ AnnounceAttached
  \/ Relay \/ WatchEnds \/ AnnounceLost \/ WakeUp
  \/ AnnounceStarting \/ StartServer \/ TakeCommand

Others == StopServer \/ ServerDies \/ StartElsewhere \/ ReachChanges

ConnectionNext == ConnectionTask \/ OnConnection \/ PressStart \/ Others

ConnectionSpec == ConnectionInit /\ [][ConnectionNext]_connectionVars

(* tokio polls the task when it can go on and the UI loop selects over its     *)
(* events; select! polls its branches in random order, so a command that      *)
(* keeps waiting is taken.  Relay is another's: updates may stop.             *)
Fairness ==
  /\ WF_connectionVars(Announce \/ AttachSucceeds \/ AttachFails \/ AnnounceAttached
             \/ WatchEnds \/ AnnounceLost \/ WakeUp
             \/ AnnounceStarting \/ StartServer)
  /\ SF_connectionVars(TakeCommand)
  /\ WF_connectionVars(OnConnection)

ConnectionFairSpec == ConnectionSpec /\ Fairness

-----------------------------------------------------------------------------
(* Both queues stay within their channels, whoever is slow. *)
ConnectionTypeOK ==
  /\ pc \in {"Announce", "Attach", "AnnounceAttached", "Watch", "AnnounceLost",
             "Sleep", "AnnounceStarting", "Start"}
  /\ lost \in {"Disconnected", "NeedsAttention"}
  /\ attempt \in 0..MaxAttempt
  /\ delay \in 0..MaxDelay
  /\ events \in Seq(States \cup {"Tasks"}) /\ Len(events) <= EventBuffer
  /\ commands \in 0..CommandBuffer
  /\ shown \in States
  /\ server \in BOOLEAN /\ stream \in BOOLEAN
  /\ reach \in {"ok", "unreachable", "attention"}
  /\ wish \in {"run", "stop"}

(* What the UI will draw once it has applied what is on its way: the last event   *)
(* that is not an update of tasks, or what it draws now.                       *)
WillShow(s) ==
  LET changes == {i \in DOMAIN events : events[i] # "Tasks"}
  IN  \/ changes = {} /\ s = shown
      \/ \E i \in changes : s = events[i] /\ \A j \in changes : j <= i

(* The UI is only ever late: once it catches up it draws the state that the    *)
(* task is in (connection.rs:116-167 announces each one it enters).           *)
CatchesUp ==
  /\ pc = "Attach" => WillShow("Attaching")
  /\ pc = "Watch"  => WillShow("Attached")
  /\ pc = "Sleep"  => WillShow(lost)
  /\ pc = "Start"  => WillShow("Starting")

(* A server that comes to stay is shown attached, whatever the user presses,    *)
(* however full the queues are and whatever state it comes back in.           *)
Reattaches == <>[](server /\ reach = "ok") => <>[](shown = "Attached")

(* A press is acted on, unless the connection attaches first: while one waits    *)
(* run() does not go on sleeping and attaching for ever without taking one       *)
(* (connection.rs:160-163).                                                   *)
PressIsTaken == commands > 0 ~> pc \in {"AnnounceStarting", "Watch"}

(* The loop neither gives up on a machine nor leaves a press unanswered.         *)
LoopGoesOn == Reattaches /\ PressIsTaken

(* connection.rs:105-107: "A server is started only on Command::StartServer,    *)
(* so a server the user stopped on purpose stays stopped until they say        *)
(* otherwise".                                                               *)
StaysStopped == [][StartServer /\ server' # server => wish = "run"]_connectionVars
==============================================================================
