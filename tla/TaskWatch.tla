------------------------------ MODULE TaskWatch ------------------------------
(***************************************************************************)
(* From the server's tasks to a row in the TUI: API connections that submit  *)
(* demos, the runtime's tasks and what it retains of them, the forwarder of  *)
(* one Watch stream, the stream, the pane of tasks that a client keeps, and  *)
(* the stop of the server under all of them.                                *)
(*                                                                         *)
(* How a task is admitted and run is TaskRuntime's; here it only goes from   *)
(* stage to stage.  A stage is all that a client can tell of a task.         *)
(***************************************************************************)
EXTENDS Integers, SequencesExt

CONSTANTS
  MaxTasks,  \* bound: tasks submitted, over all servers of the home
  Conn,      \* connections to the API socket
  Retained,  \* Config::retained_roots
  Buffer,    \* Config::event_buffer
  Wire,      \* events between the forwarder and the pane: the one that it holds
             \* while it waits for room, its channel's, the client's channels'
  MaxLinks,  \* bound: how often the client attaches
  MaxLives   \* bound: how many servers the home has, one after the other; the
             \* last one is not stopped and does not crash

ASSUME WatchAssumption ==
  /\ Retained \in Nat \ {0} /\ Buffer \in Nat \ {0} /\ Wire \in Nat \ {0}
  /\ MaxTasks \in Nat \ {0} /\ MaxLinks \in Nat /\ MaxLives \in Nat \ {0}

VARIABLES
  stage,   \* what the registry says of each task
  roots,   \* settled_roots
  token,   \* the tasks that cancel_all() has cancelled
  conn,    \* where connection() stands
  stop,    \* where serve() stands
  shut,    \* whether `shutdown` is cancelled
  late,    \* whether the stop is past its deadline
  lives,   \* how many servers have started
  fwd,     \* where forward_tasks() stands
  unread,  \* the changes that its broadcast receiver has not read
  lagged,  \* whether changes were dropped before it read them
  wire,    \* events on their way to the pane
  link,    \* whether the client's stream is open
  links,   \* how often the client has attached
  rows,    \* the stage that the pane shows of each task, or None
  settledAt \* the tasks that settled_at has a time of

registry == <<stage, roots, token>>
server   == <<conn, stop, shut, late, lives>>
stream   == <<fwd, unread, lagged>>
client   == <<link, links>>
pane     == <<rows, settledAt>>
vars     == <<registry, server, stream, wire, client, pane>>

Task == 1..MaxTasks  \* by next_seq: in the order they are submitted

None == 0
Queued == 1
Running == 2
Cancelling == 3
Ended == 4
Gone == 5
Live == {Queued, Running, Cancelling}

Init ==
  /\ stage = [t \in Task |-> None] /\ roots = <<>> /\ token = {}
  /\ conn = [c \in Conn |-> "reading"]
  /\ stop = "serving" /\ shut = FALSE /\ late = FALSE /\ lives = 1
  /\ fwd = "off" /\ unread = <<>> /\ lagged = FALSE
  /\ wire = <<>> /\ link = "down" /\ links = 0
  /\ rows = [t \in Task |-> None] /\ settledAt = {}

Up == stop # "down"
LiveTasks == {t \in Task : stage[t] \in Live}
Retainable == {t \in Task : stage[t] \in Live \cup {Ended}}

-----------------------------------------------------------------------------
(* The runtime *)

(* broadcast: the receiver keeps the last Buffer changes, and knows when one   *)
(* was dropped that it had not read.                                          *)
Broadcast(ts) ==
  IF fwd = "off" THEN UNCHANGED <<unread, lagged>>
  ELSE LET all  == unread \o ts
           over == Len(all) - Buffer
       IN  IF over > 0
           THEN unread' = SubSeq(all, over + 1, Len(all)) /\ lagged' = TRUE
           ELSE unread' = all /\ UNCHANGED lagged

Become(t, s) ==
  /\ stage' = [stage EXCEPT ![t] = s]
  /\ Broadcast(<<t>>)
  /\ UNCHANGED <<roots, token, fwd>>

(* Admitted, it runs; a token that is cancelled by then is seen when it does. *)
StartTask(t) ==
  /\ stage[t] = Queued /\ Up
  /\ Become(t, Running)
  /\ UNCHANGED <<server, wire, client, pane>>

(* A change of progress: how far a task is shows in no stage. *)
Report(t) ==
  /\ stage[t] \in {Running, Cancelling} /\ Up
  /\ Become(t, stage[t])
  /\ UNCHANGED <<server, wire, client, pane>>

BeginCancelling(t) ==
  /\ stage[t] = Running /\ t \in token /\ Up
  /\ Become(t, Cancelling)
  /\ UNCHANGED <<server, wire, client, pane>>

(* settle(): progress that was held back goes out before the end, and the      *)
(* oldest settled roots make room.                                            *)
EndTask(t) ==
  /\ Up
  /\ stage[t] \in Live /\ (stage[t] = Queued => t \in token)
  /\ LET settled == Append(roots, t)
         over    == IF Len(settled) > Retained THEN Len(settled) - Retained ELSE 0
         evicted == {settled[i] : i \in 1..over}
     IN  /\ roots' = SubSeq(settled, over + 1, Len(settled))
         /\ stage' = [u \in Task |-> IF u \in evicted THEN Gone
                                     ELSE IF u = t THEN Ended ELSE stage[u]]
  /\ \/ Broadcast(<<t>>)
     \/ stage[t] # Queued /\ Broadcast(<<t, t>>)
  /\ UNCHANGED <<token, fwd, server, wire, client, pane>>

-----------------------------------------------------------------------------
(* The API, and the stop *)

Unsubmitted == {t \in Task : stage[t] = None}
Awaited == {c \in Conn : conn[c] = "demo"}

(* A connection may read one more line of a server that is stopping.           *)
ReadDemo(c) ==
  /\ conn[c] = "reading" /\ Up /\ Cardinality(Awaited) < Cardinality(Unsubmitted)
  /\ conn' = [conn EXCEPT ![c] = "demo"]
  /\ UNCHANGED <<registry, stop, shut, late, lives, stream, wire, client, pane>>

(* respond() to a demo: submit() returns with the task registered. *)
SubmitDemo(c) ==
  /\ conn[c] = "demo" /\ Up
  /\ conn' = [conn EXCEPT ![c] = "reading"]
  /\ Become(Min(Unsubmitted), Queued)
  /\ UNCHANGED <<stop, shut, late, lives, wire, client, pane>>

MayEnd == Up /\ lives < MaxLives

Shutdown == shut' = TRUE

(* The caller of `stop` has its answer first. *)
AskToStop(c) ==
  /\ conn[c] = "reading" /\ MayEnd
  /\ Shutdown
  /\ conn' = [conn EXCEPT ![c] = "closed"]
  /\ UNCHANGED <<registry, stop, late, lives, stream, wire, client, pane>>

(* The connection sees `shutdown`, or its caller hangs up. *)
CloseConn(c) ==
  /\ conn[c] = "reading" /\ Up
  /\ conn' = [conn EXCEPT ![c] = "closed"]
  /\ UNCHANGED <<registry, stop, shut, late, lives, stream, wire, client, pane>>

Signal ==
  /\ MayEnd /\ ~shut
  /\ Shutdown
  /\ UNCHANGED <<registry, conn, stop, late, lives, stream, wire, client, pane>>

CancelAll ==
  /\ stop = "serving" /\ shut
  /\ token' = LiveTasks
  /\ stop' = "idle"
  /\ UNCHANGED <<stage, roots, conn, shut, late, lives, stream, wire, client, pane>>

DeadlinePasses ==
  /\ stop \in {"idle", "closing", "joining"} /\ ~late
  /\ late' = TRUE
  /\ UNCHANGED <<registry, conn, stop, shut, lives, stream, wire, client, pane>>

(* idle(), for as long as the deadline lets it. *)
Idle ==
  /\ stop = "idle" /\ (LiveTasks = {} \/ late)
  /\ stop' = "closing"
  /\ UNCHANGED <<registry, conn, shut, late, lives, stream, wire, client, pane>>

(* closing.cancel() *)
CloseStreams ==
  /\ stop = "closing"
  /\ stop' = "joining"
  /\ UNCHANGED <<registry, conn, shut, late, lives, stream, wire, client, pane>>

(* What was sent may be lost, from some event on, with the process or the link. *)
CutOff(then) == \E n \in 0..Len(wire) : wire' = SubSeq(wire, 1, n) \o then

StreamOff == fwd' = "off" /\ unread' = <<>> /\ lagged' = FALSE

(* The process is gone, and its runtime with it. *)
Exit ==
  /\ stop' = "down"
  /\ stage' = [t \in Task |-> IF stage[t] = None THEN None ELSE Gone]
  /\ roots' = <<>>
  /\ conn' = [c \in Conn |-> "closed"]
  /\ StreamOff
  /\ UNCHANGED <<token, shut, late, lives, client, pane>>

End == [kind |-> "end", of |-> <<>>]
Cut == [kind |-> "cut", of |-> <<>>]

(* Mutant of Join: the deadline is not looked at again. *)
JoinWithoutDeadline ==
  /\ stop = "joining"
  /\ (\A c \in Conn : conn[c] = "closed") /\ fwd = "off"
  /\ UNCHANGED wire
  /\ Exit

(* The API's connections and the streams have ended, or the deadline is over. *)
Join ==
  /\ stop = "joining"
  /\ \/ (\A c \in Conn : conn[c] = "closed") /\ fwd = "off" /\ UNCHANGED wire
     \/ late /\ IF fwd = "off" THEN UNCHANGED wire ELSE CutOff(<<Cut>>)
  /\ Exit

Crash ==
  /\ MayEnd
  /\ IF fwd = "off" THEN UNCHANGED wire ELSE CutOff(<<Cut>>)
  /\ Exit

Restart ==
  /\ stop = "down"
  /\ stop' = "serving" /\ shut' = FALSE /\ late' = FALSE /\ lives' = lives + 1
  /\ conn' = [c \in Conn |-> "reading"]
  /\ token' = {}
  /\ UNCHANGED <<stage, roots, stream, wire, client, pane>>

-----------------------------------------------------------------------------
(* forward_tasks() *)

Snapshot == [kind |-> "snapshot", of |-> [t \in Retainable |-> stage[t]]]
Changed(t) == [kind |-> "changed", of |-> [u \in {t} |-> stage[u]]]

(* watch() of a client that attaches: changes are kept for it from here on. *)
Subscribe ==
  /\ link = "down" /\ links < MaxLinks
  /\ stop = "serving" /\ ~shut
  /\ link' = "up" /\ links' = links + 1
  /\ fwd' = "subscribed"
  /\ UNCHANGED <<registry, server, unread, lagged, wire, pane>>

(* An event is made of the registry as it is, and waits its turn. *)
Send(event) == Len(wire) < Wire /\ wire' = Append(wire, event)

FirstSnapshot ==
  /\ fwd = "subscribed"
  /\ Send(Snapshot)
  /\ fwd' = "receiving"
  /\ UNCHANGED <<registry, server, unread, lagged, client, pane>>

(* Mutant of ReadChange: the task is sent as the change described it. *)
ReadChangeAsOf ==
  /\ fwd = "receiving" /\ ~lagged /\ unread # <<>>
  /\ unread' = Tail(unread)
  /\ \E t \in {Head(unread)}, s \in Live \cup {Ended} :
       s <= stage[t] /\ Send([kind |-> "changed", of |-> [u \in {t} |-> s]])
  /\ UNCHANGED <<registry, server, fwd, lagged, client, pane>>

(* A change of a task that is gone since is passed over. *)
ReadChange ==
  /\ fwd = "receiving" /\ ~lagged /\ unread # <<>>
  /\ unread' = Tail(unread)
  /\ LET t == Head(unread)
     IN  IF t \in Retainable THEN Send(Changed(t)) ELSE UNCHANGED wire
  /\ UNCHANGED <<registry, server, fwd, lagged, client, pane>>

(* Mutant of Lag: what was missed is left at that. *)
LagIgnored ==
  /\ fwd = "receiving" /\ lagged
  /\ lagged' = FALSE
  /\ UNCHANGED <<registry, server, fwd, unread, wire, client, pane>>

Lag ==
  /\ fwd = "receiving" /\ lagged
  /\ lagged' = FALSE
  /\ Send(Snapshot)
  /\ UNCHANGED <<registry, server, fwd, unread, client, pane>>

(* Mutant of SeeClosing: the changes that are queued are left to say it. *)
CloseSilently ==
  /\ fwd = "receiving" /\ stop = "joining"
  /\ wire' = Append(wire, End)
  /\ StreamOff
  /\ UNCHANGED <<registry, server, client, pane>>

(* select! may take more changes before it sees `closing`. *)
SeeClosing ==
  /\ fwd = "receiving" /\ stop = "joining"
  /\ Len(wire) < Wire
  /\ wire' = wire \o <<Snapshot, End>>
  /\ StreamOff
  /\ UNCHANGED <<registry, server, client, pane>>

(* The client or its network goes; the forwarder ends with the stream. *)
LoseLink ==
  /\ link = "up" /\ fwd # "off"
  /\ link' = "down"
  /\ CutOff(<<>>)
  /\ StreamOff
  /\ UNCHANGED <<registry, server, links, pane>>

-----------------------------------------------------------------------------
(* The pane: Machine in tui/app.rs *)

(* What is drawn, less what has lingered: expire().  Any task that was timed    *)
(* before may have had its five seconds.                                      *)
ShowWithout(over, shown, timed) ==
  /\ rows' = [t \in Task |-> IF t \in over THEN None ELSE shown[t]]
  /\ settledAt' = timed \ over

Show(shown, timed) ==
  \E over \in SUBSET (settledAt \cap timed) : ShowWithout(over, shown, timed)

(* A settled task is kept that lingers already, or was seen before it settled. *)
Shows(t, of) ==
  /\ t \in DOMAIN of
  /\ of[t] = Ended => rows[t] # None /\ (t \in settledAt \/ rows[t] \in Live)

(* Mutant of ApplySnapshot: only those that linger already are timed. *)
ApplySnapshotUntimed(of) ==
  Show([t \in Task |-> IF Shows(t, of) THEN of[t] ELSE None],
       {t \in settledAt : Shows(t, of) /\ of[t] = Ended})

ApplySnapshot(of) ==
  Show([t \in Task |-> IF Shows(t, of) THEN of[t] ELSE None],
       {t \in Task : Shows(t, of) /\ of[t] = Ended})

ApplyChanged(t, s) ==
  Show([rows EXCEPT ![t] = s],
       IF s = Ended THEN settledAt \cup {t} ELSE settledAt \ {t})

Apply ==
  /\ wire # <<>>
  /\ wire' = Tail(wire)
  /\ LET event == Head(wire)
     IN  \/ event.kind \in {"end", "cut"} /\ link' = "down" /\ UNCHANGED pane
         \/ event.kind = "snapshot" /\ ApplySnapshot(event.of) /\ UNCHANGED link
         \/ /\ event.kind = "changed" /\ UNCHANGED link
            /\ \E t \in DOMAIN event.of : ApplyChanged(t, event.of[t])
  /\ UNCHANGED <<registry, server, stream, links>>

(* A tick of the event loop after t has had its five seconds. *)
Expire(t) ==
  /\ t \in settledAt
  /\ ShowWithout({t}, rows, settledAt)
  /\ UNCHANGED <<registry, server, stream, wire, client>>

-----------------------------------------------------------------------------
Runtime == \E t \in Task : StartTask(t) \/ Report(t) \/ BeginCancelling(t) \/ EndTask(t)

Api == \E c \in Conn : ReadDemo(c) \/ SubmitDemo(c) \/ AskToStop(c) \/ CloseConn(c)

Stop == CancelAll \/ Idle \/ CloseStreams \/ Join

Forward == FirstSnapshot \/ ReadChange \/ Lag \/ SeeClosing

Pane == Apply \/ \E t \in Task : Expire(t)

Next == \/ Runtime \/ Api \/ Signal \/ Stop \/ DeadlinePasses \/ Crash \/ Restart
        \/ Forward \/ Subscribe \/ LoseLink \/ Pane

Spec == Init /\ [][Next]_vars

(* tokio runs what can go on, the bodies of demos look at their token at each    *)
(* step, timers fire and the UI loop takes its events.  A task that nobody      *)
(* cancels may run on, a caller may keep its connection, a user may never stop. *)
Fairness ==
  /\ WF_vars(\E t \in token : EndTask(t))
  /\ \A c \in Conn :
       WF_vars((shut /\ CloseConn(c)) \/ SubmitDemo(c))
  /\ WF_vars(Stop) /\ WF_vars(DeadlinePasses)
  /\ WF_vars(Forward)
  /\ WF_vars(Apply)
  /\ \A t \in Task : WF_vars(Expire(t))

FairSpec == Spec /\ Fairness

-----------------------------------------------------------------------------
TypeOK ==
  /\ stage \in [Task -> None..Gone]
  /\ roots \in Seq(Task) /\ Len(roots) <= Retained
  /\ token \subseteq Task
  /\ conn \in [Conn -> {"reading", "demo", "closed"}]
  /\ stop \in {"serving", "idle", "closing", "joining", "down"}
  /\ shut \in BOOLEAN /\ late \in BOOLEAN /\ lives \in 1..MaxLives
  /\ fwd \in {"off", "subscribed", "receiving"}
  /\ unread \in Seq(Task) /\ Len(unread) <= Buffer /\ lagged \in BOOLEAN
  /\ Len(wire) <= Wire + 1
  /\ link \in {"up", "down"} /\ links \in 0..MaxLinks
  /\ rows \in [Task -> None..Ended]
  /\ settledAt \subseteq Task

(* A row never goes back to an earlier stage, however the changes, the           *)
(* snapshots and the reconnections interleave (attach.rs:101-104).             *)
NeverBackwards ==
  [][\A t \in Task : rows'[t] # None => rows'[t] >= rows[t]]_rows

(* The rows that are timed are those that show an end: each of them will leave    *)
(* and no other will (app.rs:348-402).                                         *)
TimedRowsAreSettled == settledAt = {t \in Task : rows[t] = Ended}

(* A stop that keeps to its budget tells a client that stays with it how each    *)
(* task ended that it cancelled: when the stream has ended and all of it is     *)
(* applied no such task shows as live (server/mod.rs:239-247).                *)
StopTellsHowItEnded ==
  [][Apply /\ Head(wire) = End /\ ~late =>
       \A t \in token : rows[t] \notin Live]_vars

Streaming == fwd = "receiving"

(* What the pane may say of a task that the server retains: what it is, or        *)
(* nothing more once it has settled.                                          *)
Current(t) == stage[t] = rows[t] \/ (stage[t] = Ended /\ rows[t] = None)

(* A client that stays attached comes to show every task that is retained as      *)
(* it is, however far it fell behind (attach.rs:98-151).                       *)
CatchesUp ==
  <>[]Streaming => <>[](\A t \in Retainable : Current(t))

(* A settled task does not stay in the pane, whatever becomes of its server       *)
(* (app.rs:391-401).                                                          *)
SettledRowsLeave == \A t \in Task : []<>(rows[t] # Ended)

(* What the pane shows of a task is in the end either what it is or nothing,      *)
(* through lag, eviction before the end was told, a lost stream and a stop.       *)
PaneFollows == CatchesUp /\ SettledRowsLeave

(* A server that is asked to stop is gone in the end, whoever holds a stream or a  *)
(* connection and whatever is submitted meanwhile (server/mod.rs:235-261).     *)
StopEnds == shut ~> ~Up

(* server/mod.rs:239-241: "Tasks do not survive the server. Cancelled now, they     *)
(* get the budget to clean up rather than being cut off mid-write".             *)
NoneCutOff == [][Join /\ ~late => LiveTasks = {}]_vars
==============================================================================
