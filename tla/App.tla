--------------------------------- MODULE App ---------------------------------
(***************************************************************************)
(* The terminal application (old/src/tui/app): connection rows, browser tabs, *)
(* the overlay that takes the keys, the clipboard and its one transfer, the   *)
(* quit that takes two presses, and the shutdown.                            *)
(*                                                                         *)
(* What takes time is a task that reports on the queue of lifecycle events,   *)
(* and the world may have changed when its report is applied.  The tree, the   *)
(* root and the prompt of a tab are Browser's, and so are the keys that an open *)
(* prompt takes; a tab here only has the path that it was opened at.           *)
(***************************************************************************)
EXTENDS Integers, SequencesExt

CONSTANTS
  Path,            \* what a tab may show
  Typed,           \* the path that somebody types in each request for a new tab
  StartPath,       \* the path on the command line
  MaxConnections,  \* bound: connection rows, over the whole session
  MaxRequests,     \* bound: paths resolved for a new tab
  MaxTransfers,    \* bound: transfers started
  MaxEvents,       \* bound: reports that are not applied yet
  MaxQuits         \* bound: quit keys that arm a confirmation

ASSUME AppAssumption ==
  /\ StartPath \in Path /\ Typed \in [1..MaxRequests -> Path] /\ MaxConnections \in Nat \ {0} /\ MaxRequests \in Nat
  /\ MaxTransfers \in Nat /\ MaxQuits \in Nat /\ MaxEvents \in Nat \ {0}

VARIABLES
  app,        \* what App's handlers read and write at once; see AppType
  start,      \* where the task that opens each connection is
  registry,   \* connections that the Client holds
  resolving,  \* path_tasks that run
  copies,     \* every transfer that was started: its request and whether it runs
  closing,    \* where the task that closes each connection is, and what it joins
  timers,     \* quit timers that run
  events,     \* lifecycle_receiver
  asked,      \* requests made so far
  quits,      \* quit keys that armed a confirmation so far
  phase       \* of main: the loop, or where shutdown() is

tasks == <<start, registry, resolving, copies, closing, timers>>
vars == <<app, tasks, events, asked, quits, phase>>

Conn == 1..MaxConnections  \* records by creation: connection_order is by number
TabId == 1..MaxRequests+1  \* 1 is the tab of the command line's path
None == 0

NoRequest == [src |-> None, dst |-> None]
Overlay(kind) == [kind |-> kind, conn |-> None, request |-> None, path |-> None,
                  back |-> "none", transfer |-> NoRequest]
NoOverlay == Overlay("none")
Manager == Overlay("manager")
Dialog(c, back) == [Overlay("newBrowser") EXCEPT !.conn = c, !.back = back]

AppType ==
  [conns : [Conn -> [status : {"absent", "starting", "ready", "failed", "closing", "gone"},
                     last : TabId \cup {None}]],
   selected : Conn \cup {None},
   tabs : UNION {[S -> [conn : Conn, root : Path]] : S \in SUBSET TabId},
   active : TabId \cup {None},
   overlay : [kind : {"none", "manager", "chooser", "remote", "newBrowser", "close", "overwrite"},
              conn : Conn \cup {None}, request : 0..MaxRequests, path : Path \cup {None},
              back : {"none", "manager"},
              transfer : [src : Conn \cup {None}, dst : Conn \cup {None}]],
   clip : Conn \cup {None},
   transfer : 0..MaxTransfers,
   pending : 0..MaxQuits]

Absent == [status |-> "absent", last |-> None]

(* start(): with a path, one local connection and its tab are there first.     *)
Empty ==
  [conns |-> [c \in Conn |-> Absent], selected |-> None, tabs |-> << >>, active |-> None,
   overlay |-> Manager, clip |-> None, transfer |-> None, pending |-> None]

OpenedAt(p) ==
  [Empty EXCEPT !.conns[1] = [status |-> "ready", last |-> 1], !.selected = 1,
                !.tabs = [t \in {1} |-> [conn |-> 1, root |-> p]], !.active = 1, !.overlay = NoOverlay]

Init ==
  /\ \/ app = Empty /\ registry = {}
     \/ app = OpenedAt(StartPath) /\ registry = {1}
  /\ start = [c \in Conn |-> "none"] /\ resolving = {} /\ copies = <<>>
  /\ closing = [c \in Conn |-> [at |-> "none", joins |-> None]] /\ timers = {}
  /\ events = <<>> /\ asked = 0 /\ quits = 0 /\ phase = "running"

-----------------------------------------------------------------------------
(* Records and tabs *)

Records(a) == {c \in Conn : a.conns[c].status \notin {"absent", "gone"}}
Ready(a, c) == c # None /\ a.conns[c].status = "ready"
TabsOf(a, c) == {t \in DOMAIN a.tabs : a.tabs[t].conn = c}
OrNone(S, pick) == IF S = {} THEN None ELSE pick

Activate(a, t) == [a EXCEPT !.active = t, !.conns[a.tabs[t].conn].last = t]

AddContext(a, t, c, p) ==
  Activate([a EXCEPT !.tabs = [u \in DOMAIN @ \cup {t} |->
                                 IF u = t THEN [conn |-> c, root |-> p] ELSE @[u]]], t)

(* The tab that moves into the place of the active one is active next, or the   *)
(* last one.                                                                  *)
RemoveContexts(a, c, gone) ==
  LET left  == DOMAIN a.tabs \ gone
      own   == TabsOf(a, c) \ gone
      after == {u \in left : u > a.active}
      fixed == [a EXCEPT !.tabs = [u \in left |-> a.tabs[u]],
                         !.conns[c].last = OrNone(own, Max(own))]
  IN  IF a.active \notin gone THEN fixed
      ELSE IF left = {} THEN [fixed EXCEPT !.active = None]
      ELSE Activate(fixed, IF after # {} THEN Min(after) ELSE Max(left))

RemoveContext(a, t) == RemoveContexts(a, a.tabs[t].conn, {t})

(* One after the other, from the first on: where the active tab would move to a  *)
(* tab that goes as well, it moves on from there.                              *)
RemoveContextsOf(a, c) == RemoveContexts(a, c, TabsOf(a, c))

RepairSelection(a) ==
  IF a.selected \in Records(a) THEN a
  ELSE [a EXCEPT !.selected = OrNone(Records(a), Min(Records(a)))]

Uses(request, c) == c \in {request.src, request.dst}

ClearTransferState(a, c) ==
  [a EXCEPT !.clip = IF @ = c THEN None ELSE @,
            !.overlay = IF @.kind = "overwrite" /\ Uses(@.transfer, c) THEN NoOverlay ELSE @]

(* The row that moves into the place of a selected one is selected next.       *)
RemoveRecord(a, c) ==
  LET b     == ClearTransferState(a, c)
      left  == Records(b) \ {c}
      after == {d \in left : d > c}
      next  == IF left = {} THEN None ELSE IF after # {} THEN Min(after) ELSE Max(left)
  IN  RepairSelection([b EXCEPT !.conns[c] = [status |-> "gone", last |-> None],
                                !.selected = IF @ = c THEN next ELSE @])
-----------------------------------------------------------------------------
(* Lifecycle events *)

ApplyReady(a, e) ==
  IF a.conns[e.conn].status = "starting" THEN [a EXCEPT !.conns[e.conn].status = "ready"] ELSE a

ApplyFailed(a, e) ==
  IF a.conns[e.conn].status = "starting" THEN [a EXCEPT !.conns[e.conn].status = "failed"] ELSE a

(* A mutant: any answer for the connection counts. *)
SameConnection(a, e) == a.overlay.kind = "newBrowser" /\ a.overlay.conn = e.conn

Current(a, e) ==
  a.overlay.kind = "newBrowser" /\ a.overlay.conn = e.conn /\ a.overlay.request = e.id

ApplyResolved(a, e) ==
  IF ~Current(a, e) THEN a
  ELSE IF ~e.ok THEN [a EXCEPT !.overlay.request = None, !.overlay.path = None]
  ELSE IF ~Ready(a, e.conn) THEN a
  ELSE [AddContext(a, e.id + 1, e.conn, e.path) EXCEPT !.overlay = NoOverlay]

(* A mutant. *)
AnyTransfer(a, e) == a.transfer \in {None, e.id}

Finishes(a, e) == a.transfer = e.id

(* A mutant: a copy that asks before it overwrites still counts as running.     *)
StillRunning(a, e) ==
  IF ~Finishes(a, e) THEN a
  ELSE IF e.result # "exists" THEN [a EXCEPT !.transfer = None]
  ELSE [a EXCEPT !.overlay = [Overlay("overwrite") EXCEPT !.transfer = e.request]]

(* A completed copy also refreshes the tab it went to, if that is still there   *)
(* and has not gone elsewhere: Browser's Refresh.                              *)
ApplyCopied(a, e) ==
  IF ~Finishes(a, e) THEN a
  ELSE LET b == [a EXCEPT !.transfer = None]
       IN  IF e.result = "exists"
           THEN [b EXCEPT !.overlay = [Overlay("overwrite") EXCEPT !.transfer = e.request]]
           ELSE b

(* A mutant. *)
AnyTimer(a, e) == [a EXCEPT !.pending = None]

ApplyUnconfirmed(a, e) == IF a.pending = e.id THEN [a EXCEPT !.pending = None] ELSE a

ApplyTo(a, e) ==
  CASE e.kind = "ready"       -> ApplyReady(a, e)
    [] e.kind = "failed"      -> ApplyFailed(a, e)
    [] e.kind = "resolved"    -> ApplyResolved(a, e)
    [] e.kind = "closed"      -> RemoveRecord(a, e.conn)
    [] e.kind = "copied"      -> ApplyCopied(a, e)
    [] e.kind = "unconfirmed" -> ApplyUnconfirmed(a, e)

Apply ==
  /\ phase = "running" /\ events # <<>>
  /\ app' = ApplyTo(app, Head(events)) /\ events' = Tail(events)
  /\ UNCHANGED <<tasks, asked, quits, phase>>

-----------------------------------------------------------------------------
(* Tasks *)

Report(e) == (Len(events) < MaxEvents \/ phase = "closing") /\ events' = Append(events, e)
ByTasks == UNCHANGED <<app, asked, quits, phase>>

(* Client::open() retains the connection, and then the task reports it.        *)
Open(c) ==
  /\ start[c] = "opening" /\ start' = [start EXCEPT ![c] = "opened"]
  /\ registry' = registry \cup {c}
  /\ UNCHANGED <<resolving, copies, closing, timers, events>> /\ ByTasks

ReportOpen(c) ==
  /\ start[c] = "opened" /\ start' = [start EXCEPT ![c] = "none"]
  /\ Report([kind |-> "ready", conn |-> c])
  /\ UNCHANGED <<registry, resolving, copies, closing, timers>> /\ ByTasks

FailToOpen(c) ==
  /\ start[c] = "opening" /\ start' = [start EXCEPT ![c] = "none"]
  /\ Report([kind |-> "failed", conn |-> c])
  /\ UNCHANGED <<registry, resolving, copies, closing, timers>> /\ ByTasks

Resolve(r) ==
  /\ r \in resolving /\ resolving' = resolving \ {r}
  /\ \E ok \in BOOLEAN :
       /\ ok => r.conn \in registry
       /\ Report([kind |-> "resolved", conn |-> r.conn, id |-> r.id, ok |-> ok, path |-> r.path])
  /\ UNCHANGED <<start, registry, copies, closing, timers>> /\ ByTasks

(* op_copy_file() between two connections, or within one. *)
Copy(x) ==
  /\ copies[x].runs /\ copies' = [copies EXCEPT ![x].runs = FALSE]
  /\ \E result \in {"ok", "error"} \cup (IF copies[x].replace THEN {} ELSE {"exists"}) :
       /\ result # "error" => {copies[x].request.src, copies[x].request.dst} \subseteq registry
       /\ Report([kind |-> "copied", id |-> x, request |-> copies[x].request, result |-> result])
  /\ UNCHANGED <<start, registry, resolving, closing, timers>> /\ ByTasks

(* A closing task aborts the transfer that was taken for it, and joins it.     *)
JoinCopy(c) ==
  /\ closing[c].at = "joining" /\ closing' = [closing EXCEPT ![c].at = "closing"]
  /\ copies' = [copies EXCEPT ![closing[c].joins].runs = FALSE]
  /\ UNCHANGED <<start, registry, resolving, timers, events>> /\ ByTasks

CloseClient(c) ==
  /\ closing[c].at = "closing" /\ closing' = [closing EXCEPT ![c].at = "closed"]
  /\ registry' = registry \ {c}
  /\ Report([kind |-> "closed", conn |-> c])
  /\ UNCHANGED <<start, resolving, copies, timers>> /\ ByTasks

QuitTimer(q) ==
  /\ q \in timers /\ timers' = timers \ {q}
  /\ Report([kind |-> "unconfirmed", id |-> q])
  /\ UNCHANGED <<start, registry, resolving, copies, closing>> /\ ByTasks

Opening(c) == Open(c) \/ ReportOpen(c)
Closing(c) == JoinCopy(c) \/ CloseClient(c)

-----------------------------------------------------------------------------
(* Keys.  Any key but a quit key stands a waiting quit down. *)

In(kind) == phase = "running" /\ app.overlay.kind = kind

Quiet(a) ==
  /\ app' = [a EXCEPT !.pending = None] /\ timers' = timers \ {app.pending}
  /\ UNCHANGED <<registry, events, quits, phase>>

Key(a) == Quiet(a) /\ UNCHANGED <<start, resolving, copies, closing, asked>>

Show(overlay) == [app EXCEPT !.overlay = overlay]

OpenManager == In("none") /\ Key(RepairSelection(Show(Manager)))

DismissOverlay == In("manager") /\ Key(Show(NoOverlay))

OpenAddConnection == In("manager") /\ Key(Show(Overlay("chooser")))

ChooseRemote == In("chooser") /\ Key(Show(Overlay("remote")))

(* insert_connection_record(), and the task that opens it. *)
StartConnection ==
  /\ In("chooser") \/ In("remote")
  /\ \E c \in Conn :
       /\ app.conns[c].status = "absent" /\ \A d \in 1..c-1 : app.conns[d].status # "absent"
       /\ start' = [start EXCEPT ![c] = "opening"]
       /\ Quiet([Show(Manager) EXCEPT !.conns[c].status = "starting",
                                      !.selected = IF @ = None THEN c ELSE @])
  /\ UNCHANGED <<resolving, copies, closing, asked>>

MoveConnectionSelection ==
  /\ In("manager") /\ Records(app) # {}
  /\ LET above == {c \in Records(app) : c < app.selected}
         below == {c \in Records(app) : c > app.selected}
     IN  \/ Key([app EXCEPT !.selected = IF below = {} THEN @ ELSE Min(below)])
         \/ Key([app EXCEPT !.selected = IF above = {} THEN @ ELSE Max(above)])

ActivateConnection ==
  /\ In("manager") /\ Ready(app, app.selected)
  /\ LET last == app.conns[app.selected].last
     IN  Key(IF last # None THEN Activate(Show(NoOverlay), last)
             ELSE Show(Dialog(app.selected, "manager")))

NewBrowserForConnection ==
  In("manager") /\ Ready(app, app.selected) /\ Key(Show(Dialog(app.selected, "manager")))

NewBrowserForActive ==
  In("none") /\ app.active # None /\ Key(Show(Dialog(app.tabs[app.active].conn, "none")))

DeleteConnection ==
  /\ In("manager") /\ app.selected # None
  /\ \/ /\ app.conns[app.selected].status = "failed" /\ Key(RemoveRecord(app, app.selected))
     \/ /\ Ready(app, app.selected)
        /\ Key(Show([Overlay("close") EXCEPT !.conn = app.selected]))

Taken(a, c) ==
  IF a.transfer # None /\ Uses(copies[a.transfer].request, c) THEN a.transfer ELSE None

ConfirmClose ==
  /\ In("close")
  /\ LET c == app.overlay.conn
         a == [app EXCEPT !.conns[c].status = "closing"]
         b == ClearTransferState(RemoveContextsOf(a, c), c)
         x == Taken(b, c)
     IN  /\ closing' = [closing EXCEPT ![c] = [at |-> IF x = None THEN "closing" ELSE "joining",
                                               joins |-> x]]
         /\ Quiet([b EXCEPT !.overlay = Manager, !.transfer = IF x = None THEN @ ELSE None])
  /\ UNCHANGED <<start, resolving, copies, asked>>

(* submit_new_browser(), of a text that is not blank. *)
SubmitNewBrowser ==
  /\ In("newBrowser") /\ app.overlay.request = None /\ Ready(app, app.overlay.conn)
  /\ asked < MaxRequests /\ asked' = asked + 1
  /\ LET p == Typed[asked + 1]
     IN  /\ resolving' = resolving \cup {[id |-> asked + 1, conn |-> app.overlay.conn, path |-> p]}
         /\ Quiet([app EXCEPT !.overlay.request = asked + 1, !.overlay.path = p])
  /\ UNCHANGED <<start, copies, closing>>

CancelDialog ==
  /\ phase = "running" /\ app.overlay.kind \in {"newBrowser", "chooser", "remote", "close", "overwrite"}
  /\ resolving' = {r \in resolving : r.id # app.overlay.request}
  /\ LET main == \/ app.overlay.kind = "overwrite"
                 \/ app.overlay.kind = "newBrowser" /\ app.overlay.back = "none"
     IN  Quiet(Show(IF main THEN NoOverlay ELSE Manager))
  /\ UNCHANGED <<start, copies, closing, asked>>

SwitchContext ==
  /\ In("none") /\ Cardinality(DOMAIN app.tabs) >= 2
  /\ LET ids   == DOMAIN app.tabs
         after  == {t \in ids : t > app.active}
         before == {t \in ids : t < app.active}
     IN  \/ Key(Activate(app, IF after = {} THEN Min(ids) ELSE Min(after)))
         \/ Key(Activate(app, IF before = {} THEN Max(ids) ELSE Max(before)))

CloseActiveContext == In("none") /\ app.active # None /\ Key(RemoveContext(app, app.active))

(* With a regular file selected. *)
Yank ==
  /\ In("none") /\ app.active # None /\ Ready(app, app.tabs[app.active].conn)
  /\ Key([app EXCEPT !.clip = app.tabs[app.active].conn])

StartTransfer(a, request, replace) ==
  IF a.transfer = None /\ Ready(a, request.src) /\ Ready(a, request.dst)
  THEN /\ Len(copies) < MaxTransfers
       /\ copies' = Append(copies, [request |-> request, replace |-> replace, runs |-> TRUE])
       /\ Quiet([a EXCEPT !.transfer = Len(copies) + 1])
  ELSE UNCHANGED copies /\ Quiet(a)

Paste ==
  /\ In("none") /\ app.clip # None /\ app.active # None
  /\ StartTransfer(app, [src |-> app.clip, dst |-> app.tabs[app.active].conn], FALSE)
  /\ UNCHANGED <<start, resolving, closing, asked>>

ConfirmOverwrite ==
  /\ In("overwrite") /\ StartTransfer(Show(NoOverlay), app.overlay.transfer, TRUE)
  /\ UNCHANGED <<start, resolving, closing, asked>>

ArmQuit ==
  /\ In("none") /\ app.pending = None /\ quits < MaxQuits
  /\ quits' = quits + 1 /\ timers' = timers \cup {quits + 1}
  /\ app' = [app EXCEPT !.pending = quits + 1]
  /\ UNCHANGED <<start, registry, resolving, copies, closing, events, asked, phase>>

Keys ==
  \/ OpenManager \/ DismissOverlay \/ OpenAddConnection \/ ChooseRemote \/ StartConnection
  \/ MoveConnectionSelection \/ ActivateConnection \/ NewBrowserForConnection
  \/ NewBrowserForActive \/ DeleteConnection \/ ConfirmClose \/ SubmitNewBrowser
  \/ CancelDialog \/ SwitchContext \/ CloseActiveContext \/ Yank \/ Paste
  \/ ConfirmOverwrite \/ ArmQuit

-----------------------------------------------------------------------------
(* The end: the loop returns on a second quit key, or when stdin ends; and      *)
(* shutdown() takes what is left in order.                                    *)

ConfirmQuit ==
  /\ In("none") /\ app.pending # None
  /\ phase' = "aborting" /\ timers' = timers \ {app.pending}
  /\ app' = [app EXCEPT !.pending = None]
  /\ UNCHANGED <<start, registry, resolving, copies, closing, events, asked, quits>>

StdinEnds ==
  /\ phase = "running" /\ phase' = "aborting"
  /\ timers' = timers \ {app.pending} /\ app' = [app EXCEPT !.pending = None]
  /\ UNCHANGED <<start, registry, resolving, copies, closing, events, asked, quits>>

(* A mutant: connections go on being opened. *)
KeepsOpening ==
  /\ phase = "aborting" /\ phase' = "closing"
  /\ copies' = [x \in DOMAIN copies |->
                  [copies[x] EXCEPT !.runs = IF x = app.transfer THEN FALSE ELSE @]]
  /\ resolving' = {}
  /\ app' = FoldLeft(ApplyTo, [app EXCEPT !.transfer = None, !.tabs = << >>, !.active = None], events)
  /\ events' = <<>>
  /\ UNCHANGED <<start, registry, closing, timers, asked, quits>>

(* An event that is drained may still open a tab: nobody draws it.             *)
AbortTasks ==
  /\ phase = "aborting" /\ phase' = "closing"
  /\ copies' = [x \in DOMAIN copies |->
                  [copies[x] EXCEPT !.runs = IF x = app.transfer THEN FALSE ELSE @]]
  /\ resolving' = {} /\ start' = [c \in Conn |-> "none"]
  /\ app' = FoldLeft(ApplyTo, [app EXCEPT !.transfer = None, !.tabs = << >>, !.active = None], events)
  /\ events' = <<>>
  /\ UNCHANGED <<registry, closing, timers, asked, quits>>

(* The tasks that close connections are joined; then close_all(). *)
CloseAll ==
  /\ phase = "closing" /\ \A c \in Conn : closing[c].at \in {"none", "closed"}
  /\ phase' = "exited" /\ registry' = {}
  /\ app' = FoldLeft(ApplyTo, app, events) /\ events' = <<>>
  /\ UNCHANGED <<start, resolving, copies, closing, timers, asked, quits>>

Tasks ==
  \/ \E c \in Conn : Opening(c) \/ FailToOpen(c) \/ Closing(c)
  \/ \E r \in resolving : Resolve(r)
  \/ \E x \in DOMAIN copies : Copy(x)
  \/ \E q \in timers : QuitTimer(q)

Next ==
  /\ phase # "exited"
  /\ Tasks \/ Apply \/ Keys \/ ConfirmQuit \/ StdinEnds \/ AbortTasks \/ CloseAll

Spec == Init /\ [][Next]_vars

(* The runtime polls every task: an open, a resolution and a copy end, because  *)
(* their server answers or their connection breaks; and main goes on.          *)
FairSpec ==
  /\ Spec /\ WF_vars(Apply) /\ WF_vars(AbortTasks) /\ WF_vars(CloseAll)
  /\ \A c \in Conn : WF_vars(Opening(c)) /\ WF_vars(Closing(c))
  /\ WF_vars(\E r \in resolving : Resolve(r))
  /\ \A x \in 1..MaxTransfers : WF_vars(x \in DOMAIN copies /\ Copy(x))

-----------------------------------------------------------------------------
(* Types. *)
TypeOK ==
  /\ app \in AppType
  /\ start \in [Conn -> {"none", "opening", "opened"}] /\ registry \subseteq Conn
  /\ resolving \subseteq [id : 1..asked, conn : Conn, path : Path]
  /\ Len(copies) <= MaxTransfers /\ timers \subseteq 1..quits /\ asked <= MaxRequests
  /\ closing \in [Conn -> [at : {"none", "joining", "closing", "closed"}, joins : 0..Len(copies)]]
  /\ phase \in {"running", "aborting", "closing", "exited"} /\ quits <= MaxQuits

(* A tab is never left on a connection that is being closed. *)
TabsAndRowsHold ==
  phase = "running" =>
    /\ \A t \in DOMAIN app.tabs : Ready(app, app.tabs[t].conn)
    /\ app.active \in DOMAIN app.tabs \/ (app.active = None /\ app.tabs = << >>)
    /\ app.selected \in Records(app) \/ (app.selected = None /\ Records(app) = {})
    /\ \A c \in Records(app) :
         \/ app.conns[c].last \in TabsOf(app, c)
         \/ app.conns[c].last = None /\ TabsOf(app, c) = {}

(* What an overlay asks about is still there when it is answered: no dialog is  *)
(* left that can never be submitted, and no overwrite that cannot start.       *)
OverlayStillApplies ==
  LET o == app.overlay
  IN  phase = "running" =>
        /\ o.kind \in {"newBrowser", "close"} => Ready(app, o.conn)
        /\ o.kind = "overwrite" => Ready(app, o.transfer.src) /\ Ready(app, o.transfer.dst)

(* "Central App helpers ... so active and last-active references remain valid" *)
(* (docs/tui.md), whichever reports are applied between two keys.              *)
ReferencesHold == TabsAndRowsHold /\ OverlayStillApplies

(* A tab opens where the dialog that is open asked for it, however late the     *)
(* answers of dialogs that were cancelled arrive.                              *)
TabOpensWhereAsked ==
  [][Apply => \A t \in DOMAIN app'.tabs \ DOMAIN app.tabs :
       app'.tabs[t] = [conn |-> app.overlay.conn, root |-> app.overlay.path]]_vars

(* The timer of a press that was answered never stands a later one down.       *)
QuitLapsesByItsTimer ==
  [][Apply /\ app.pending # None /\ app'.pending = None => app.pending \notin timers]_vars

(* What was asked by an earlier dialog or press changes nothing of a later one. *)
LateAnswersChangeNothing == TabOpensWhereAsked /\ QuitLapsesByItsTimer

(* No server and no task outlives the application. *)
NothingLeftAtExit ==
  phase = "exited" =>
    /\ registry = {} /\ resolving = {} /\ timers = {}
    /\ \A x \in DOMAIN copies : ~copies[x].runs
    /\ \A c \in Conn : start[c] = "none" /\ closing[c].at \in {"none", "closed"}

(* A dialog that waits for its path, a paste and a row that closes get their    *)
(* answer; and the program ends once it was told to.                           *)
AnswersArrive ==
  /\ []<>(app.overlay.request = None \/ phase # "running")
  /\ []<>(app.transfer = None)
  /\ \A c \in Conn : []<>(app.conns[c].status # "closing")
  /\ (phase = "aborting") ~> (phase = "exited")

(* "aborts and joins any transfer using the connection before running          *)
(* `Client.close`" (docs/connection-lifecycle.md).  The first of two closes     *)
(* takes the transfer with it, and the second does not wait for it.            *)
CloseJoinsTransfers ==
  [][\A c \in registry \ registry' : phase = "running" =>
       \A x \in DOMAIN copies : copies[x].runs => ~Uses(copies[x].request, c)]_vars
=============================================================================
